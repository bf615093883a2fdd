------------------------------ MODULE EcSchemes ------------------------------
(***************************************************************************)
(* Keys, signatures and shared secrets over an elliptic curve: each        *)
(* function of the library with the checks it makes, in their order.       *)
(* Products are those of the group: module ScalarMul shows that they are.  *)
(* A signature is <<r, s>>; a function that answers a status other than    *)
(* ippStsNoErr answers that status here.                                   *)
(***************************************************************************)
EXTENDS EllipticCurve, BigNumbers

CONSTANTS
  KeyCurves,    \* the curves keys are made on, cofactor h = 1
  VerifyCurves, \* those among them where every signature is verified
  SecretCurves, \* the curves secrets are shared on, with any cofactor h
  SignSchemes,  \* the signature schemes used
  SignMessages  \* messages as numbers

\* The order is prime: every number below it has an inverse.
ASSUME SchemeAssumption ==
  /\ KeyCurves \union SecretCurves \subseteq Curves /\ VerifyCurves \subseteq KeyCurves
  /\ \A E \in KeyCurves \union SecretCurves : IsGroup(E) /\ E.h \in Nat
  /\ \A E \in KeyCurves : \A x \in 1..(E.n - 1) : \E y \in 1..(E.n - 1) : (x * y) % E.n = 1
  /\ SignSchemes \subseteq {"DSA", "NR", "SM2"} /\ SignMessages \subseteq Nat

VARIABLES
  ecKey,  \* [E, d]: curve and private key of the user, NoEcKey before
  ecOut   \* the last call, its arguments and its result

ecVars == <<ecKey, ecOut>>

NoEcKey == [d |-> 0]
NoOut   == [fn |-> "none"]

\* Statuses: a signature has two numbers, a secret is none below 0.
EphemeralKeyErr == <<>>
MessageErr      == <<-1>>
ShareKeyErr     == -1
InvalidPoint    == -2

InvOrder == [n \in {E.n : E \in KeyCurves} |->
               [x \in 1..(n - 1) |-> CHOOSE y \in 1..(n - 1) : (x * y) % n = 1]]

ProductTable == [E \in KeyCurves |-> [i \in 0..(E.n - 1) |-> Multiples(E, BaseMultiples[E][i])]]

\* [k]G + [l]Q for Q = dG
BasePointProduct(E, k, l, d) ==
  Plus(E, BaseMultiples[E][k % E.n], ProductTable[E][d][l % E.n])

\* int(P.x) mod order
Abscissa(E, P) == P[1] % E.n

OrderBitSize(E) == MOD_BITSIZE(E.n)

\* Messages no longer than the order are reduced by one subtraction.
Reduced(E, msg) == cpModSub_BNU(msg, E.n, E.n)

-----------------------------------------------------------------------------
(* Signatures by the key d with the ephemeral key k, both in 1..n-1.       *)

ippsGFpECSignDSA(E, d, k, msg) ==
  LET r == Abscissa(E, TimesBase(E, k))
      x == cpModAdd_BNU((d * r) % E.n, Reduced(E, msg), E.n)
  IN  IF r = 0 \/ x = 0 THEN EphemeralKeyErr ELSE <<r, (x * InvOrder[E.n][k]) % E.n>>

ippsGFpECSignNR(E, d, k, msg) ==
  LET r == cpModAdd_BNU(Abscissa(E, TimesBase(E, k)), msg, E.n)
  IN  IF msg >= E.n THEN MessageErr
      ELSE IF r = 0 THEN EphemeralKeyErr
      ELSE <<r, cpModSub_BNU(k, (d * r) % E.n, E.n)>>

\* d+1 = n is refused before.
ippsGFpECSignSM2(E, d, k, msg) ==
  LET r == cpModAdd_BNU(Abscissa(E, TimesBase(E, k)), Reduced(E, msg), E.n)
      t == cpModAdd_BNU(k, r, E.n)
      s == (InvOrder[E.n][d + 1] * cpModSub_BNU(k, (d * r) % E.n, E.n)) % E.n
  IN  IF r = 0 \/ t = 0 \/ s = 0 THEN EphemeralKeyErr ELSE <<r, s>>

SignKeys(scheme, E) == IF scheme = "SM2" THEN 1..(E.n - 2) ELSE 1..(E.n - 1)

Sign(scheme, E, d, k, msg) ==
  CASE scheme = "DSA" -> ippsGFpECSignDSA(E, d, k, msg)
    [] scheme = "NR"  -> ippsGFpECSignNR(E, d, k, msg)
    [] scheme = "SM2" -> ippsGFpECSignSM2(E, d, k, msg)

-----------------------------------------------------------------------------
(* Verification with the public key dG.                                    *)

\* Mutant: r may be the order.
InRange_Mutant(E, sig) == sig[1] \in 1..E.n /\ sig[2] \in 1..(E.n - 1)

InRange(E, sig) == sig[1] \in 1..(E.n - 1) /\ sig[2] \in 1..(E.n - 1)

ippsGFpECVerifyDSA(E, d, msg, sig) ==
  LET h == InvOrder[E.n][sig[2]]
      P == BasePointProduct(E, Reduced(E, msg) * h, sig[1] * h, d)
  IN  InRange(E, sig) /\ P # AtInfinity /\ Abscissa(E, P) = sig[1]

ippsGFpECVerifyNR(E, d, msg, sig) ==
  LET P == BasePointProduct(E, sig[2], sig[1], d)
  IN  InRange(E, sig) /\ P # AtInfinity /\ cpModSub_BNU(sig[1], Abscissa(E, P), E.n) = msg

\* The abscissa replaces as many chunks of t as a field element has: a chunk of t beyond
\* stays.  For t = 0 there is no product, and t counts as the abscissa.
SM2Abscissa(E, d, s, t) ==
  LET P == BasePointProduct(E, s, t, d)
  IN  IF t = 0 THEN 0
      ELSE (t \div Cap(E.p)) * Cap(E.p) + IF MOD_LEN(E.n) > MOD_LEN(E.p) THEN P[1]
                                          ELSE Abscissa(E, P)

ippsGFpECVerifySM2(E, d, msg, sig) ==
  LET t == cpModAdd_BNU(sig[1], sig[2], E.n)
  IN  /\ InRange(E, sig)
      /\ cpModAdd_BNU(SM2Abscissa(E, d, sig[2], t), Reduced(E, msg), E.n) = sig[1]

\* The lengths of messages are checked by all, their value by NR alone.
Verify(scheme, E, d, msg, sig) ==
  CASE scheme = "DSA" -> ippsGFpECVerifyDSA(E, d, msg, sig)
    [] scheme = "NR"  -> msg < E.n /\ ippsGFpECVerifyNR(E, d, msg, sig)
    [] scheme = "SM2" -> ippsGFpECVerifySM2(E, d, msg, sig)

-----------------------------------------------------------------------------
(* Keys and secrets.  gfec_IsPointOnCurve is false for infinity.           *)

PointsOf(E) == {P \in (0..(E.p - 1)) \X (0..(E.p - 1)) : OnCurve(E, P)}

\* Mutant: the order is not asked for.
ippsGFpECTstPointInSubgroup_Mutant(E, Q) ==
  IF Q = AtInfinity THEN "ippECPointIsAtInfinite"
  ELSE IF ~OnCurve(E, Q) THEN "ippECPointIsNotValid" ELSE "ippECValid"

ippsGFpECTstPointInSubgroup(E, Q) ==
  IF Q = AtInfinity THEN "ippECPointIsAtInfinite"
  ELSE IF ~OnCurve(E, Q) THEN "ippECPointIsNotValid"
  ELSE IF Product(E, E.n, Q) = AtInfinity THEN "ippECValid" ELSE "ippECPointOutOfGroup"

\* d is any number, or -1 for a NULL private key.
ippsGFpECTstKeyPair(E, d, Q) ==
  IF d # -1 /\ d \notin 1..(E.n - 1) THEN "ippECInvalidPrivateKey"
  ELSE IF Q = AtInfinity THEN "ippECPointIsAtInfinite"
  ELSE IF Product(E, E.n, Q) # AtInfinity THEN "ippECInvalidPublicKey"
  ELSE IF d # -1 /\ TimesBase(E, d) # Q THEN "ippECInvalidKeyPair" ELSE "ippECValid"

Share(P) == IF P = AtInfinity THEN ShareKeyErr ELSE P[1]

ippsGFpECSharedSecretDH(E, d, Q) ==
  IF Q = AtInfinity \/ ~OnCurve(E, Q) THEN InvalidPoint ELSE Share(Product(E, d, Q))

\* Mutant: the private key alone.
ippsGFpECSharedSecretDHC_Mutant(E, d, Q) == ippsGFpECSharedSecretDH(E, d, Q)

\* F = cofactor*d in the engine of the order
ippsGFpECSharedSecretDHC(E, d, Q) ==
  IF E.h = 1 THEN ippsGFpECSharedSecretDH(E, d, Q)
  ELSE IF Q = AtInfinity \/ ~OnCurve(E, Q) THEN InvalidPoint
  ELSE Share(Product(E, (E.h * d) % E.n, Q))

-----------------------------------------------------------------------------
EcInit == ecKey = NoEcKey /\ ecOut = NoOut

\* ippsGFpECPrivateKey: numbers of the order's bits are drawn until one is in range.
DrawPrivateKey ==
  /\ ecKey = NoEcKey
  /\ \E E \in KeyCurves \union SecretCurves : \E x \in 0..(Power2[OrderBitSize(E)] - 1) :
       ecKey' = IF x \in 1..(E.n - 1) THEN [E |-> E, d |-> x] ELSE ecKey
  /\ UNCHANGED ecOut

Ready == ecKey # NoEcKey /\ ecOut = NoOut

CallSign ==
  /\ Ready /\ ecKey.E \in KeyCurves
  /\ \E scheme \in SignSchemes, msg \in SignMessages, k \in 1..(ecKey.E.n - 1) :
       /\ ecKey.d \in SignKeys(scheme, ecKey.E) /\ msg < Power2[OrderBitSize(ecKey.E)]
       /\ ecOut' = [fn |-> "Sign", scheme |-> scheme, msg |-> msg,
                    sig |-> Sign(scheme, ecKey.E, ecKey.d, k, msg)]
  /\ UNCHANGED ecKey

CallVerify ==
  /\ Ready /\ ecKey.E \in VerifyCurves
  /\ \E scheme \in SignSchemes, msg \in SignMessages, r, s \in 0..ecKey.E.n :
       /\ msg < Power2[OrderBitSize(ecKey.E)]
       /\ ecOut' = [fn |-> "Verify", scheme |-> scheme, msg |-> msg, sig |-> <<r, s>>,
                    valid |-> Verify(scheme, ecKey.E, ecKey.d, msg, <<r, s>>)]
  /\ UNCHANGED ecKey

CallShare ==
  /\ Ready /\ ecKey.E \in SecretCurves
  /\ \E fn \in {"DH", "DHC"}, Q \in PointsOf(ecKey.E) :
       ecOut' = [fn |-> fn, Q |-> Q,
                 share |-> IF fn = "DH" THEN ippsGFpECSharedSecretDH(ecKey.E, ecKey.d, Q)
                           ELSE ippsGFpECSharedSecretDHC(ecKey.E, ecKey.d, Q)]
  /\ UNCHANGED ecKey

\* Coordinates a user may set: no one checks then that they are on the curve.
AnyPoint(E) ==
  {P \in (0..(E.p - 1)) \X (0..(E.p - 1)) :
     P = AtInfinity \/ (P[2] * P[2]) % E.p # (P[1] * P[1] * P[1] + E.a * P[1]) % E.p}

CallTest ==
  /\ Ready /\ ecKey.E \in SecretCurves
  /\ \E Q \in AnyPoint(ecKey.E), d \in {-1, 0, ecKey.d, ecKey.E.n} :
       ecOut' = [fn |-> "Test", d |-> d, Q |-> Q,
                 inGroup |-> ippsGFpECTstPointInSubgroup(ecKey.E, Q),
                 pair |-> ippsGFpECTstKeyPair(ecKey.E, d, Q)]
  /\ UNCHANGED ecKey

Forget == ecKey # NoEcKey /\ ecKey' = NoEcKey /\ ecOut' = NoOut

EcNext == DrawPrivateKey \/ CallSign \/ CallVerify \/ CallShare \/ CallTest \/ Forget

EcSpec == EcInit /\ [][EcNext]_ecVars

-----------------------------------------------------------------------------
(* Properties.                                                             *)

SignedBy(E) == {BaseMultiples[E][i] : i \in 1..(E.n - 1)}

SM2T(E, sig) == cpModAdd_BNU(sig[1], sig[2], E.n)

\* VerifySM2 keeps a chunk of t if the order has more chunks than the modulus.
SM2ChunkKept(E, scheme, sig) == scheme = "SM2" /\ SM2T(E, sig) >= Cap(E.p)

Makable(E, d, scheme, msg, sig) ==
  d \in SignKeys(scheme, E) => \E k \in 1..(E.n - 1) : Sign(scheme, E, d, k, msg) = sig

\* What ippsGFpECVerifySM2 does not look at: t = 0, and a product at infinity.
SM2Unchecked(E, d, scheme, sig) ==
  LET t == SM2T(E, sig)
  IN  scheme = "SM2" /\ (t = 0 \/ BasePointProduct(E, sig[2], t, d) = AtInfinity)

\* A signature is accepted if and only if the owner of the key could have made it for this
\* message: what a Sign function lets out its Verify function accepts (a zero is no signature,
\* pcpgfpecsignnr.c: "(0==signR) || (0==signS)"), and what a Verify function accepts the Sign
\* function can make (pcpgfpecverifysm2.c: "check if t!=0", "t = P.x").
SignaturesExact ==
  /\ ecOut.fn = "Sign" /\ Len(ecOut.sig) = 2 =>
       Verify(ecOut.scheme, ecKey.E, ecKey.d, ecOut.msg, ecOut.sig)
  /\ ecOut.fn = "Verify" /\ ecOut.valid =>
       Makable(ecKey.E, ecKey.d, ecOut.scheme, ecOut.msg, ecOut.sig)

\* SignaturesExact, which the code does not keep, breaks in no other way than these three: s = 0
\* let out by SignNR, t = 0 or infinity not refused by VerifySM2, and a chunk of t kept there.
SignaturesMatch ==
  /\ ecOut.fn = "Sign" /\ Len(ecOut.sig) = 2 =>
       \/ Verify(ecOut.scheme, ecKey.E, ecKey.d, ecOut.msg, ecOut.sig)
       \/ ecOut.scheme = "NR" /\ ecOut.sig[2] = 0
       \/ SM2ChunkKept(ecKey.E, ecOut.scheme, ecOut.sig)
  /\ ecOut.fn = "Verify" /\ ecOut.valid =>
       \/ SM2Unchecked(ecKey.E, ecKey.d, ecOut.scheme, ecOut.sig)
       \/ SM2ChunkKept(ecKey.E, ecOut.scheme, ecOut.sig)
       \/ Makable(ecKey.E, ecKey.d, ecOut.scheme, ecOut.msg, ecOut.sig)

\* Both parties of a key agreement get the same secret, and it is the abscissa of h*d*Q,
\* though the factor h*d is reduced by the order, for every public key of the subgroup.
SecretsAgree ==
  /\ ecOut.fn = "DH" =>
       \A e \in 1..(ecKey.E.n - 1) : TimesBase(ecKey.E, e) = ecOut.Q =>
         ecOut.share = ippsGFpECSharedSecretDH(ecKey.E, e, TimesBase(ecKey.E, ecKey.d))
  /\ ecOut.fn = "DHC" /\ ecOut.Q \in SignedBy(ecKey.E) =>
       ecOut.share = Share(Product(ecKey.E, ecKey.E.h * ecKey.d, ecOut.Q))

\* The tests tell the multiples of the base point from all other points, and a pair of
\* keys from any other pair; ippsGFpECTstKeyPair without a private key is not asked about
\* points off the curve.
KeysTold ==
  ecOut.fn = "Test" =>
    LET E == ecKey.E IN
    /\ (ecOut.inGroup = "ippECValid") = (ecOut.Q \in SignedBy(E))
    /\ ecOut.d # -1 =>
         (ecOut.pair = "ippECValid")
           = (ecOut.d \in 1..(E.n - 1) /\ ecOut.Q = TimesBase(E, ecOut.d))
    /\ ecOut.d = -1 /\ (ecOut.Q = AtInfinity \/ OnCurve(E, ecOut.Q)) =>
         (ecOut.pair = "ippECValid") = (ecOut.Q \in SignedBy(E))
=============================================================================
