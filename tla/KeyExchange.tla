----------------------------- MODULE KeyExchange -----------------------------
(***************************************************************************)
(* The SM2 key exchange: the contexts of a requester A and a responder B,  *)
(* with their messages, ephemeral public keys and confirmations, delivered *)
(* at any time, again, or never.  A hash is the tuple of what it is of.    *)
(***************************************************************************)
EXTENDS EllipticCurve, BigNumbers

CONSTANTS
  KECurves,     \* curves, one per run of the protocol, with a cofactor h
  StaticKey,    \* the private key of each party
  EphemeralKeys \* the ephemeral private keys each party may draw on a curve, each once

Parties == {"A", "B"}
Peer(i) == IF i = "A" THEN "B" ELSE "A"

ASSUME KeyExchangeAssumption ==
  /\ KECurves \subseteq Curves
  /\ \A E \in KECurves : /\ IsGroup(E) /\ E.n % 2 = 1 /\ E.h \in Nat
                        /\ MOD_BITSIZE(E.n) <= MOD_BITSIZE(E.p)
  /\ \A E \in KECurves, i \in Parties :
       EphemeralKeys[E][i] \union {StaticKey[i]} \subseteq 1..(E.n - 1)

VARIABLES
  keCurve,  \* the curve, NoCurve before the first call
  keCtx,    \* the context of each party: ready, pEphPubKey, pPrecHash, pPointXY
  keEph,    \* its ephemeral private key, 0 if cleared
  keSentR,  \* ephemeral public keys it has sent
  keLog,    \* history: what each call of SharedKey computed
  keStatus  \* the status of its last confirmation

keVars == <<keCurve, keCtx, keEph, keSentR, keLog, keStatus>>

NoCurve == [n |-> 0]
NoKeys  == [A |-> AtInfinity, B |-> AtInfinity]
NoPoint == AtInfinity
ZeroHash == <<"zero">>

\* fresh is a history variable: SharedKey was called since Setup.
NoContext == [ready |-> FALSE, setup |-> FALSE, R |-> NoKeys, prec |-> ZeroHash, xy |-> NoPoint,
              fresh |-> FALSE]

KeInit ==
  /\ keCurve = NoCurve
  /\ keCtx = [i \in Parties |-> NoContext]
  /\ keEph = [i \in Parties |-> 0]
  /\ keSentR = [i \in Parties |-> {}]
  /\ keLog = {}
  /\ keStatus = [i \in Parties |-> -1]

PublicOf(i) == TimesBase(keCurve, StaticKey[i])

\* ippsGFpECKeyExchangeSM2_Init
KeStart(i) ==
  /\ keCurve # NoCurve
  /\ keCtx' = [keCtx EXCEPT ![i] = [NoContext EXCEPT !.ready = TRUE]]
  /\ keStatus' = [keStatus EXCEPT ![i] = -1]
  /\ UNCHANGED <<keCurve, keEph, keSentR, keLog>>

\* The user draws an ephemeral key pair and sends the public key.
DrawEphemeral(i) ==
  /\ keCurve # NoCurve
  /\ \E k \in EphemeralKeys[keCurve][i] :
       /\ TimesBase(keCurve, k) \notin keSentR[i]
       /\ keEph' = [keEph EXCEPT ![i] = k]
       /\ keSentR' = [keSentR EXCEPT ![i] = @ \union {TimesBase(keCurve, k)}]
  /\ UNCHANGED <<keCurve, keCtx, keLog, keStatus>>

\* ippsGFpECKeyExchangeSM2_Setup with any ephemeral public keys of both parties: points
\* are copied, hash and point of an earlier exchange stay.
KeSetup(i) ==
  /\ keCtx[i].ready
  /\ \E RA \in keSentR["A"], RB \in keSentR["B"] :
       keCtx' = [keCtx EXCEPT ![i].setup = TRUE, ![i].R = [A |-> RA, B |-> RB], ![i].fresh = FALSE]
  /\ keStatus' = [keStatus EXCEPT ![i] = -1]
  /\ UNCHANGED <<keCurve, keEph, keSentR, keLog>>

-----------------------------------------------------------------------------
\* w = [log2(n)/2 - 1], from the bits of the field; 2^w + (x & (2^w - 1))
ReductionBits(E) == (MOD_BITSIZE(E.p) + 1) \div 2 - 1
reduction_x2w(E, x) == Power2[ReductionBits(E)] + (x % Power2[ReductionBits(E)])

\* t = (d + x`*r) mod n
KeT(E, i, eph, R) == (StaticKey[i] + reduction_x2w(E, R[i][1]) * eph) % E.n

\* h*t: a cofactor takes t out of the Montgomery form, and the decoding that follows in
\* any case divides once more.
Cofactored(E, x) == IF E.h = 1 THEN x ELSE (((x * E.h) % E.n) * RadixInverse(E.n)) % E.n

\* U/V = [h*t](P + [x`]R) of the peer's keys
PeerPoint(E, i, R) ==
  LET j == Peer(i)
  IN  Plus(E, Product(E, reduction_x2w(E, R[j][1]), R[j]), TimesBase(E, StaticKey[j]))

\* Mutant: the confirmations of both roles start with the same number.
FirstNum_Mutant(i) == 2

FirstNum(i) == IF i = "A" THEN 3 ELSE 2

PrecHash(U, R) == <<U[1], "ZA", "ZB", R["A"], R["B"]>>
Confirmation(num, U, prec) == <<num, U[2], prec>>

\* Mutant: the ephemeral private key is left in place.
EphemeralAfter_Mutant(k) == k

EphemeralAfter(k) == 0

\* ippsGFpECKeyExchangeSM2_SharedKey: the ephemeral keys must be a pair.  At infinity the
\* status is an error and S is not written; the rest is done as ever.
KeSharedKey(i) ==
  /\ keCtx[i].setup /\ keEph[i] # 0
  /\ LET R == keCtx[i].R
         t == KeT(keCurve, i, keEph[i], R)
         U == Product(keCurve, Cofactored(keCurve, t), PeerPoint(keCurve, i, R))
     IN  /\ TimesBase(keCurve, keEph[i]) = R[i]
         /\ keCtx' = [keCtx EXCEPT ![i].xy = U, ![i].prec = PrecHash(U, R), ![i].fresh = TRUE]
         /\ keLog' = keLog \union {[by |-> i, eph |-> keEph[i], R |-> R, U |-> U,
                                    ok |-> U # AtInfinity, key |-> <<U, "ZA", "ZB">>,
                                    S |-> Confirmation(FirstNum(i), U, PrecHash(U, R))]}
  /\ keEph' = [keEph EXCEPT ![i] = EphemeralAfter(@)]
  /\ keStatus' = [keStatus EXCEPT ![i] = -1]
  /\ UNCHANGED <<keCurve, keSentR>>

\* ippsGFpECKeyExchangeSM2_Confirm with any confirmation that was sent, an own one that
\* came back among them.
KeConfirm(i) ==
  /\ keCtx[i].setup
  /\ \E sent \in {x \in keLog : x.ok} :
       keStatus' = [keStatus EXCEPT ![i] =
         IF Confirmation(FirstNum(Peer(i)), keCtx[i].xy, keCtx[i].prec) = sent.S THEN 1 ELSE 0]
  /\ UNCHANGED <<keCurve, keCtx, keEph, keSentR, keLog>>

KeChoose == keCurve = NoCurve /\ keCurve' \in KECurves
            /\ UNCHANGED <<keCtx, keEph, keSentR, keLog, keStatus>>

KeNext ==
  \/ KeChoose
  \/ \E i \in Parties : KeStart(i) \/ DrawEphemeral(i) \/ KeSetup(i) \/ KeSharedKey(i) \/ KeConfirm(i)

KeSpec == KeInit /\ [][KeNext]_keVars

-----------------------------------------------------------------------------
(* Properties.                                                             *)

\* Two parties that take the same ephemeral public keys for those of an exchange derive
\* the same shared key, in any order of the calls, and on a curve without cofactor from
\* the point [tA*tB]G; and no ephemeral private key goes into two shared keys.
KeysAgree ==
  \A x, y \in keLog :
    /\ x.by = y.by /\ x.eph = y.eph => x = y
    /\ x.R = y.R => x.key = y.key
    /\ x.R = y.R /\ x.by # y.by /\ keCurve.h = 1 =>
         x.U = TimesBase(keCurve, KeT(keCurve, x.by, x.eph, x.R) * KeT(keCurve, y.by, y.eph, y.R))

\* A confirmation that SharedKey has prepared succeeds only if the peer has derived the
\* same key from the same ephemeral public keys, whatever confirmations were sent in
\* other exchanges.
ConfirmedAgree ==
  \A i \in Parties : keStatus[i] = 1 /\ keCtx[i].fresh =>
    \E x, y \in keLog :
      /\ x.by = i /\ y.by = Peer(i) /\ x.R = keCtx[i].R
      /\ y.R = x.R /\ y.key = x.key
=============================================================================
