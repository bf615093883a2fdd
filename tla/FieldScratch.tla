---------------------------- MODULE FieldScratch ----------------------------
(***************************************************************************)
(* The vocabulary in which the use of scratch memory is described, the     *)
(* pools of field elements and of points that curve and field contexts     *)
(* carry and what a function does with them, and that use in the           *)
(* arithmetic of GF(p) and of its extensions (gfpec/pcpgfp*.c,             *)
(* gfpec/pcpgfpx*.c, gsmod_*montinv*.c).                                   *)
(*                                                                         *)
(* A function is the set of its paths, a path the sequence of its          *)
(* allocations, releases, uses and calls in the code's order.  What a loop *)
(* repeats, or a function calls several times at one depth of the pools,   *)
(* stands once.                                                            *)
(***************************************************************************)
EXTENDS Naturals, Sequences

CONSTANTS
  MAX_LEVEL,          \* height of the tower of extensions over GF(p)
  GFP_POOL_SIZE,      \* elements in the pool of a prime field
  GFPX_POOL_SIZE,     \* elements in the pool of an extension
  MONT_POOL_SIZE,     \* elements in the pool of the curve order's engine
  EC_POOL_SIZE        \* points in the pool of a curve

Levels == 0..MAX_LEVEL

VARIABLE degree     \* of each extension over the field below it

(* The pools.  GF(p) is level 0; level l extends level l-1.                *)
Field(l) == <<"field", l>>
Order    == <<"order">>
Points   == <<"points">>
Pools    == {Field(l) : l \in Levels} \cup {Order, Points}

(* Sizes in elements; a point is three of them.                            *)
Capacity(p) == CASE p = Field(0) -> GFP_POOL_SIZE
                 [] p = Order    -> MONT_POOL_SIZE
                 [] p = Points   -> 3 * EC_POOL_SIZE
                 [] OTHER        -> GFPX_POOL_SIZE

(* Allocate and release n elements.                                        *)
Get(p, n) == [op |-> "get", pool |-> p, n |-> n]
Put(p, n) == [op |-> "put", pool |-> p, n |-> n]
GetPoints(n) == Get(Points, 3 * n)
PutPoints(n) == Put(Points, 3 * n)

(* The function reads or writes n elements it has allocated itself.        *)
Use(p, n) == [op |-> "use", pool |-> p, n |-> n]
UsePoints(n) == Use(Points, 3 * n)

(* The function works in n elements above the top of the pool, without     *)
(* allocating them.                                                        *)
Above(p, n) == [op |-> "above", pool |-> p, n |-> n]

(* A call of a function on a field, or a curve over a field, of level l.   *)
Call(f, l) == [op |-> "call", fn |-> f, level |-> l]

-----------------------------------------------------------------------------
(* Multiplication.  Over GF(p) only the methods without assembly take      *)
(* memory, for the double-length product.                                  *)

mul_montl == {<<Get(Field(0), 2), Use(Field(0), 2), Put(Field(0), 2)>>}

Mul_com(l) ==
  {<<Get(Field(l), 2), Get(Field(l-1), 1), Call("mul", l-1), Use(Field(l-1), 1),
     Put(Field(l-1), 1), Use(Field(l), 2), Put(Field(l), 2)>>}

Mul_pd_binom(l) ==
  {<<Get(Field(l), 4), Call("mul", l-1), Use(Field(l), 4), Put(Field(l), 4)>>}

Mul_p2_binom(l) ==
  {<<Get(Field(l-1), 4), Call("mul", l-1), Use(Field(l-1), 4), Put(Field(l-1), 4)>>}

Mul_p3_binom(l) ==
  {<<Get(Field(l-1), n), Call("mul", l-1), Use(Field(l-1), n), Put(Field(l-1), n)>> :
     n \in {5, 6}}

(* GF(((p^2)^3)^2): the product by vi takes an element of GF(p^2), and in  *)
(* it the product by xi two of GF(p).                                      *)
Fq2Mul_xi(l) == {<<Get(Field(l-1), 2), Use(Field(l-1), 2), Put(Field(l-1), 2)>>}
Fq6Mul_vi(l) ==
  {<<Get(Field(l-1), 1), Call("Fq2Mul_xi", l-1), Use(Field(l-1), 1), Put(Field(l-1), 1)>>}

Mul_p2_epid2(l) ==
  {<<Get(Field(l-1), n), Call("mul", l-1)>>
     \o (IF l = 3 THEN <<Call("Fq6Mul_vi", l-1)>> ELSE <<>>)
     \o <<Use(Field(l-1), n), Put(Field(l-1), n)>> : n \in {3, 4}}

Mul_p3_epid2(l) ==
  {<<Get(Field(l-1), n), Call("mul", l-1)>>
     \o (IF l = 2 THEN <<Call("Fq2Mul_xi", l-1)>> ELSE <<>>)
     \o <<Use(Field(l-1), n), Put(Field(l-1), n)>> : n \in {5, 6}}

(* Multiplication and squaring by whatever method fits the field.          *)
Mul(l) == IF l = 0 THEN {<<>>} \cup mul_montl
          ELSE Mul_com(l) \cup Mul_pd_binom(l)
                 \cup (IF degree[l] = 2 THEN Mul_p2_binom(l) \cup Mul_p2_epid2(l) ELSE {})
                 \cup (IF degree[l] = 3 THEN Mul_p3_binom(l) \cup Mul_p3_epid2(l) ELSE {})

-----------------------------------------------------------------------------
(* Inversion modulo a prime, in the engine that owns the pool: the two     *)
(* almost Montgomery inverses give back their memory before the last       *)
(* products take an element.                                               *)

alm_mont_inv(p)    == <<Get(p, 4), Use(p, 4), Put(p, 4)>>
alm_mont_inv_ct(p) == <<Get(p, 6), Use(p, 6), Put(p, 6)>>
mont_inv_Mutant(p) ==
  {<<Get(p, n), Use(p, n), Get(p, 1), Use(p, 1), Put(p, 1), Put(p, n)>> : n \in {4, 6}}
mont_inv(p) ==
  {a \o <<Get(p, 1)>> \o b \o <<Use(p, 1), Put(p, 1)>> :
     a \in {alm_mont_inv(p), alm_mont_inv_ct(p)},
     b \in IF p = Field(0) THEN {<<Call("mul", 0)>>} ELSE {<<>>}}

(* Inversion in an extension: division by the field polynomial, and        *)
(* Euclid's algorithm until the remainder is of degree 0, which a          *)
(* quadratic extension reaches at once; an early exit when the gcd is not 1. *)
gfpxPolyDiv(l) ==
  {<<Call("inv", 0), Call("mul", l-1)>>,
   <<>>,
   <<Get(Field(l-1), 2), Call("inv", l-1), Call("mul", l-1), Use(Field(l-1), 2),
     Put(Field(l-1), 2)>>}

gfpxGeneratorDiv(l) ==
  {<<Get(Field(l-1), 2), Call("inv", l-1), Call("mul", l-1), Call("PolyDiv", l),
     Use(Field(l-1), 2), Put(Field(l-1), 2)>>}

Inv(l) ==
  IF l = 0 THEN mont_inv(Field(0))
  ELSE LET loop   == IF degree[l] = 2 THEN {<<>>}
                     ELSE {<<>>, <<Call("PolyDiv", l), Call("mul", l)>>}
           finish == {<<>>, <<Get(Field(l-1), 1), Call("inv", l-1), Call("mul", l-1),
                              Use(Field(l-1), 1), Put(Field(l-1), 1)>>}
       IN  {<<Get(Field(l-1), 1), Call("inv", l-1), Use(Field(l-1), 1), Put(Field(l-1), 1)>>}
             \cup {<<Get(Field(l), 6), Call("GeneratorDiv", l)>> \o more
                     \o <<Use(Field(l), 6)>> \o last \o <<Put(Field(l), 6)>> :
                     more \in loop, last \in finish}

-----------------------------------------------------------------------------
(* Exponentiation.  Without a scratch buffer of the caller the table of    *)
(* powers is in the pool too: two entries and a cache line for alignment,  *)
(* which an element of at least two words covers with one to four.         *)

cpGFpxExp(l) ==
  {<<Get(Field(l), 1), Get(Field(l), 1), Call("mul", l), Use(Field(l), 2), Put(Field(l), 2)>>}
    \cup {<<Get(Field(l), 1), Get(Field(l), 1), Get(Field(l), 2 + n), Call("mul", l),
            Use(Field(l), 4 + n), Put(Field(l), 4 + n)>> : n \in 1..4}

cpPrecomputeMultiExp(l) ==
  {<<Get(Field(l), 1), Call("mul", l), Use(Field(l), 1), Put(Field(l), 1)>>}

(* One element per exponent, of at most IPP_MAX_EXPONENT_NUM = 6, and one  *)
(* for the table's entry.                                                  *)
cpGFpxMultiExp(l) ==
  {<<Call("PrecomputeMultiExp", l), Get(Field(l), n), Get(Field(l), 1), Call("mul", l),
     Use(Field(l), n + 1), Put(Field(l), 1), Put(Field(l), n)>> : n \in 1..6}

ippsGFpMultiExp(l) ==
  {<<Get(Field(l), 1), Call("GFpxExp", l), Call("mul", l), Use(Field(l), 1), Put(Field(l), 1)>>,
   <<Call("GFpxMultiExp", l)>>}

(* Powers in GF(p), square roots, and the quadratic nonresidue they need.  *)
cpMontExpBin == {<<>>, <<Get(Field(0), 1), Call("mul", 0), Use(Field(0), 1), Put(Field(0), 1)>>}
cpGFpSqrt ==
  {<<>>, <<Get(Field(0), 4), Call("GFpExp", 0), Call("mul", 0), Use(Field(0), 4), Put(Field(0), 4)>>}
cpGFEqnr ==
  {<<Get(Field(0), 3), Call("GFpExp", 0), Use(Field(0), 3), Put(Field(0), 3)>>}

-----------------------------------------------------------------------------
(* Reading, writing, comparing and drawing elements.                       *)

OneElement(l) == {<<Get(Field(l), 1), Use(Field(l), 1), Put(Field(l), 1)>>}
cpGFpRand   == {<<Get(Field(0), 2), Call("mul", 0), Use(Field(0), 2), Put(Field(0), 2)>>}
CmpElement(l) == {<<Get(Field(l), 2), Call("Get", 0), Use(Field(l), 2), Put(Field(l), 2)>>}
=============================================================================
