---------------------------- MODULE CurveScratch ----------------------------
(***************************************************************************)
(* Scratch memory in the arithmetic of points over a field of level l      *)
(* (gfpec/pcpgfpec_*.c), and in the functions of the library that work on  *)
(* curves: points, keys, signatures, shared secrets and the SM2 schemes    *)
(* (gfpec/pcpgfpec*.c, gfpec/ecnist, gfpec/sm2).  Where IFMA code exists   *)
(* for the curve and is enabled, those take another path.                  *)
(***************************************************************************)
EXTENDS FieldScratch

-----------------------------------------------------------------------------
(* Sums and doubles work above the top of the pool of points, where the    *)
(* caller's points end, and allocate nothing there.                        *)

point_double(l)     == {<<Above(Points, 3), Call("mul", l), Above(Points, 3)>>}
point_add(l)        == {<<Above(Points, 9), Call("mul", l), Above(Points, 9)>>,
                        <<Above(Points, 9), Call("mul", l), Call("point_double", l)>>}
affine_point_add(l) == {<<Above(Points, 7), Call("mul", l), Above(Points, 7)>>}

(* The table of multiples is computed with three points of scratch.        *)
setupTable(l) ==
  {<<GetPoints(3), Call("point_double", l), Call("point_add", l), UsePoints(3), PutPoints(3)>>}

-----------------------------------------------------------------------------
(* Products of scalars and points.                                         *)

(* The two points and the element of the windowed loop.                    *)
Loop(l, adds) ==
  <<Get(Field(l), 1), GetPoints(1), GetPoints(1)>> \o adds
    \o <<Use(Field(l), 1), UsePoints(2), PutPoints(2), Put(Field(l), 1)>>

point_mul(l) ==
  {<<Call("setupTable", l)>> \o Loop(l, <<Call("point_double", l), Call("point_add", l)>>)}

point_prod(l) ==
  {<<Call("setupTable", l), Call("setupTable", l)>>
      \o Loop(l, <<Call("point_add", l), Call("point_double", l)>>)}

base_point_mul(l) ==
  {<<Get(Field(l), 1), GetPoints(1), Call("affine_add", l), Use(Field(l), 1), UsePoints(1),
     PutPoints(1), Put(Field(l), 1)>>}

gfec_MulPoint(l) ==
  {<<Get(Field(l), 2), Call("point_mul", l), Use(Field(l), 2), Put(Field(l), 2)>>}

(* With a table of the base point, or without.                             *)
gfec_MulBasePoint(l) ==
  {<<Get(Order, 1), Call(f, l), Use(Order, 1), Put(Order, 1)>> :
     f \in {"base_point_mul", "point_mul"}}

(* The sum of two products: the first stays in the pool of points while    *)
(* the second is computed and the two are added.                           *)
gfec_BasePointProduct_Mutant(l) ==
  {<<Get(Order, 2), GetPoints(2), Call("base_point_mul", l), Call("point_mul", l),
     PutPoints(2), UsePoints(2), Call("point_add", l), Put(Order, 2)>>}
gfec_BasePointProduct(l) ==
  {<<Get(Order, 2), GetPoints(2), Call("base_point_mul", l), Call("point_mul", l),
     UsePoints(2), Call("point_add", l), PutPoints(2), Use(Order, 2), Put(Order, 2)>>,
   <<Get(Order, 2), Call("point_prod", l), Use(Order, 2), Put(Order, 2)>>}

-----------------------------------------------------------------------------
(* Coordinates.                                                            *)

(* An affine point is copied; another one is divided by Z.                 *)
gfec_GetPoint(l) ==
  {<<>>,
   <<Get(Field(l), 1), Get(Field(l), 1), Get(Field(l), 1), Call("inv", l), Call("mul", l),
     Use(Field(l), 3), Put(Field(l), 3)>>}

gfec_ComparePoint(l) ==
  {<<>>,
   <<Get(Field(l), 1), Get(Field(l), 1), Get(Field(l), 1), Get(Field(l), 1), Call("mul", l),
     Use(Field(l), 4), Put(Field(l), 4)>>}

(* IFMA code takes all it needs at once, here and below.                   *)
point_on_curve_avx512 == <<Get(Field(0), 3), Use(Field(0), 3), Put(Field(0), 3)>>

gfec_IsPointOnCurve(l) ==
  LET start  == <<Get(Field(l), 1), Get(Field(l), 1), Call("mul", l)>>
      finish == <<Call("mul", l), Use(Field(l), 2), Put(Field(l), 2)>>
  IN  {<<>>, start \o finish,
       start \o <<Get(Field(l), 1), Get(Field(l), 1), Call("mul", l), Use(Field(l), 4),
                  Put(Field(l), 2)>> \o finish}
        \cup (IF l = 0 THEN {point_on_curve_avx512} ELSE {})

(* The affine representation of infinity is recognised by its coordinates. *)
gfec_SetPoint(l) == {<<>>, <<Get(Field(l), 1), Use(Field(l), 1), Put(Field(l), 1)>>}

gfec_MakePoint == {<<Call("mul", 0), Call("Sqrt", 0)>>}

gfec_CheckPrivateKey(l) == {<<Get(Field(l), 1), Use(Field(l), 1), Put(Field(l), 1)>>}

-----------------------------------------------------------------------------
(* Elements of the prime field, for the functions of the library.          *)

F0(n)    == Get(Field(0), n)
Free0(n) == Put(Field(0), n)
Use0(n)  == Use(Field(0), n)

-----------------------------------------------------------------------------
(* Curves.                                                                 *)

cpGFpECSetStd ==
  {<<F0(1), F0(1), Call("Set", 0), Use0(2), Call("SetPoint", 0), Use0(2), Free0(2)>>}
BindGxyTbl == {<<GetPoints(1), UsePoints(1), PutPoints(1)>>}

ippsGFpECVerify(l) ==
  LET discriminant == <<Get(Field(l), 1), Get(Field(l), 1), Call("mul", l), Use(Field(l), 2),
                        Put(Field(l), 2)>>
  IN  {discriminant, discriminant \o <<Call("IsPointOnCurve", l)>>,
       discriminant \o <<Call("IsPointOnCurve", l), GetPoints(1), Call("MulBasePoint", l),
                         UsePoints(1), PutPoints(1)>>}

-----------------------------------------------------------------------------
(* Points.                                                                 *)

AddPoint_avx512 == <<F0(3), Use0(3), Free0(3)>>
MulPoint_avx512 == <<F0(5), Use0(5), Free0(5)>>

ippsGFpECAddPoint(l) == {<<Call(f, l)>> : f \in {"point_double", "point_add"}}
                          \cup (IF l = 0 THEN {AddPoint_avx512} ELSE {})
ippsGFpECMulPoint(l) == {<<Call("MulPoint", l)>>} \cup (IF l = 0 THEN {MulPoint_avx512} ELSE {})

ippsGFpECTstPointInSubgroup(l) ==
  {<<Call("IsPointOnCurve", l)>>,
   <<Call("IsPointOnCurve", l), GetPoints(1), Call("MulPoint", l), UsePoints(1), PutPoints(1)>>}

GetPointOctString(l) ==
  {<<Get(Field(l), 1), Get(Field(l), 1), Call("GetPoint", l), Use(Field(l), 2), Call("Get", 0),
     Use(Field(l), 2), Put(Field(l), 2)>>}
GetPointRegular(l) ==
  {<<Get(Field(l), 2), Call("GetPoint", l), Use(Field(l), 2), Put(Field(l), 2)>>}

(* Coordinates out of range end the call before the point is set.          *)
SetPointOctString(l) ==
  {<<Get(Field(l), 1), Get(Field(l), 1), Call("Set", 0)>> \o set
     \o <<Use(Field(l), 2), Put(Field(l), 2)>> : set \in {<<>>, <<Call("SetPoint", l)>>}}

(* Hashing to a point: no point has the abscissa, or the one found is      *)
(* moved to the subgroup.                                                  *)
SetPointHash_Mutant ==
  LET try == <<F0(1), Call("Set", 0), Use0(1), Call("MakePoint", 0)>>
  IN  {try, try \o <<Use0(1), Free0(1)>>, try \o <<Use0(1), Call("MulPoint", 0), Free0(1)>>}
SetPointHash ==
  LET try == <<F0(1), Call("Set", 0), Use0(1), Call("MakePoint", 0)>>
  IN  {try \o <<Free0(1)>>, try \o <<Use0(1), Free0(1)>>,
       try \o <<Use0(1), Call("MulPoint", 0), Free0(1)>>}

SetPointRandom(l) ==
  IF l = 0
  THEN {<<F0(1), Call("Rand", 0)>> \o made \o <<Free0(1)>> \o cofactor :
          made \in {<<>>, <<Use0(1), Call("MakePoint", 0)>>},
          cofactor \in {<<>>, <<Call("MulPoint", 0)>>}}
  ELSE {<<Get(Field(l), n)>> \o product \o <<Put(Field(l), n)>> :
          n \in 1..2, product \in {<<>>, <<Use(Field(l), 1), Call("MulPoint", l)>>}}

-----------------------------------------------------------------------------
(* Keys and shared secrets.                                                *)

PubKey_avx512 == <<Get(Order, 5), Use(Order, 5), Put(Order, 5)>>
ippsGFpECPublicKey(l) ==
  {<<Call("CheckPrivateKey", l)>>, <<Call("CheckPrivateKey", l), Call("MulBasePoint", l)>>}
    \cup (IF l = 0 THEN {<<Call("CheckPrivateKey", l)>> \o PubKey_avx512} ELSE {})

(* Public keys are tested until a test fails.                              *)
ippsGFpECTstKeyPair(l) ==
  {<<Call("CheckPrivateKey", l)>>}
    \cup {<<Call("CheckPrivateKey", l), GetPoints(1)>> \o tests \o <<PutPoints(1)>> :
            tests \in {<<>>, <<Call("MulPoint", l), UsePoints(1)>>,
                       <<Call("MulPoint", l), UsePoints(1), Call("MulBasePoint", l),
                         UsePoints(1), Call("ComparePoint", l)>>}}

SharedSecretDH_avx512 == <<F0(2), F0(3), Use0(5), Free0(5)>>
ippsGFpECSharedSecretDH(l) ==
  LET check == <<Call("CheckPrivateKey", l), Call("IsPointOnCurve", l)>>
      plain == <<Call("MulPoint", l), Get(Field(l), 1), UsePoints(1), Call("GetPoint", l),
                 Use(Field(l), 1), Put(Field(l), 1)>>
  IN  {check} \cup {check \o <<GetPoints(1)>> \o s \o <<PutPoints(1)>> :
                      s \in {plain} \cup IF l = 0 THEN {SharedSecretDH_avx512} ELSE {}}

ippsGFpECSharedSecretDHC(l) ==
  {<<Get(Field(l), 2), GetPoints(1), Call("MulPoint", l), UsePoints(1), Call("GetPoint", l),
     Use(Field(l), 2), Put(Field(l), 2), PutPoints(1)>>}

-----------------------------------------------------------------------------
(* Signatures.                                                             *)

SignDSA_avx512 == <<F0(2), F0(3), Use0(5), Free0(3), F0(1), Use0(3), Free0(3)>>

(* The ephemeral public key and its abscissa; then, unless that is zero,   *)
(* the second half of the signature, with an inverse for DSA and SM2.      *)
Ephemeral ==
  <<GetPoints(1), Call("MulBasePoint", 0), F0(1), UsePoints(1), Call("GetPoint", 0), Use0(1),
    Free0(1), PutPoints(1)>>
ippsGFpECSignDSA == {Ephemeral, Ephemeral \o <<Call("inv_order", 0)>>, SignDSA_avx512}
ippsGFpECSignNR  == {Ephemeral}
ippsGFpECSignSM2 == {Ephemeral, Ephemeral \o <<Call("inv_order", 0)>>}

VerifyDSA_avx512 ==
  <<F0(3), Use0(3), F0(2), F0(2), F0(1), F0(1), Use0(9), Free0(2), Use0(7), Free0(7)>>

(* A point at infinity has no abscissa to compare.                         *)
Abscissa == {<<>>, <<UsePoints(1), Call("GetPoint", 0)>>}
ippsGFpECVerifyDSA ==
  {<<F0(3), GetPoints(1), Call("inv_order", 0), Use0(3), Call("BasePointProduct", 0)>>
     \o a \o <<Use0(3), PutPoints(1), Free0(3)>> : a \in Abscissa}
    \cup {VerifyDSA_avx512}
ippsGFpECVerifyNR ==
  {<<F0(3), GetPoints(1), Use0(3), Call("BasePointProduct", 0)>>
     \o a \o <<Use0(3), PutPoints(1), Free0(3)>> : a \in Abscissa}
ippsGFpECVerifySM2 ==
  {<<F0(4), Use0(4)>> \o p \o <<Use0(4), Free0(4)>> :
     p \in {<<>>, <<GetPoints(1), Call("BasePointProduct", 0), UsePoints(1), Call("GetPoint", 0),
                    PutPoints(1)>>}}

-----------------------------------------------------------------------------
(* SM2 encryption, key exchange and the hash of a user's id.               *)

ippsGFpECESSetKey ==
  {<<GetPoints(1), Call("MulPoint", 0), F0(1), F0(1), UsePoints(1)>> \o xy
     \o <<Free0(2), PutPoints(1)>> : xy \in {<<>>, <<Call("GetPoint", 0), Use0(2)>>}}

(* The key pair given for one message must be one; the point that shows it *)
(* is released before the call may end there.                              *)
PairCheck(product) ==
  <<GetPoints(1)>> \o product \o <<UsePoints(1), Call("ComparePoint", 0), PutPoints(1)>>

ippsGFpECEncryptSM2_Ext ==
  LET pair == PairCheck(<<Call("PublicKey", 0)>>)
  IN  {pair, pair \o <<GetPoints(1), Call("GetPoint", 0), Call("ECMulPoint", 0), F0(2),
                       UsePoints(1), Call("GetPoint", 0), Use0(2), Free0(2), PutPoints(1)>>}

ippsGFpECDecryptSM2_Ext ==
  {<<GetPoints(1), F0(2), Use0(2), UsePoints(1), Call("SetPoint", 0)>> \o rest
     \o <<Free0(2), PutPoints(1)>> :
       rest \in {<<>>, <<Call("IsPointOnCurve", 0)>>,
                 <<Call("IsPointOnCurve", 0), Call("ECMulPoint", 0), UsePoints(1),
                   Call("GetPoint", 0), Use0(2)>>}}

KeyExchange_avx512 ==
  LET pair == PairCheck(<<Call("PublicKey", 0)>>)
  IN  {pair, pair \o <<F0(7), Call("GetPoint", 0), F0(3), Use0(10), Free0(3), Use0(7), Free0(7)>>}
KeyExchange_SharedKey ==
  LET pair == PairCheck(<<Call("MulBasePoint", 0)>>)
  IN  {pair, pair \o <<F0(7), GetPoints(1), Call("GetPoint", 0), Use0(7), UsePoints(1),
                       GetPoints(1), Call("point_mul", 0), Call("point_add", 0), UsePoints(2),
                       Call("GetPoint", 0), Use0(7), PutPoints(2), Free0(7)>>}
        \cup KeyExchange_avx512
KeyExchange_Confirm == {<<F0(3), Use0(3), Free0(3)>>}
UserIDHash == {<<F0(6), Call("GetPoint", 0), Use0(6), Free0(6)>>}
=============================================================================
