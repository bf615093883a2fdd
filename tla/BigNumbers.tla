------------------------------ MODULE BigNumbers ------------------------------
(***************************************************************************)
(* Numbers in chunks: how many a modulus takes, and the modular sum and    *)
(* difference that look at carry and borrow only, so that they reduce once *)
(* and no more.                                                            *)
(***************************************************************************)
EXTENDS Integers

CONSTANT CHUNK_BITS  \* BNU_CHUNK_BITS

ASSUME ChunkAssumption == CHUNK_BITS \in Nat \ {0}

\* 1 << n, as a function that proofs can unfold.
Power2[n \in Nat] == IF n = 0 THEN 1 ELSE 2 * Power2[n - 1]

MOD_BITSIZE(m) == CHOOSE n \in 1..m : Power2[n - 1] <= m /\ m < Power2[n]
MOD_LEN(m)     == (MOD_BITSIZE(m) + CHUNK_BITS - 1) \div CHUNK_BITS
LenBits(m)     == MOD_LEN(m) * CHUNK_BITS

\* Values of a number of as many chunks as the modulus.
Cap(m) == Power2[LenBits(m)]

\* Montgomery: the product of x and y is x*y*RadixInverse(m) mod m.
RadixInverse(m) == CHOOSE x \in 0..(m - 1) : (x * Cap(m)) % m = 1

\* a + b, less m unless that borrows more than the sum carried.
cpModAdd_BNU(a, b, m) ==
  LET sum == a + b
  IN  IF sum >= m THEN (sum - m) % Cap(m) ELSE sum

\* a - b, and m on top if it borrowed.
cpModSub_BNU(a, b, m) == IF a < b THEN (a - b + m) % Cap(m) ELSE a - b
=============================================================================
