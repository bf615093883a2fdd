---------------------------- MODULE MC_PublicKey ----------------------------
(***************************************************************************)
(* The public-key part on small curves, moduli and trees.  Its components  *)
(* share no state, so each is explored with the others at rest.            *)
(***************************************************************************)
EXTENDS ECES_SM2, ModInverse, ScalarMul, MC_EcSchemes, KeyExchange

-----------------------------------------------------------------------------
(* The SM2 encryption scheme with a window of three bytes.                 *)

MCSM3 == [name |-> "SM3", mbs |-> 4, mrl |-> 1, hashLen |-> 3, maxLo |-> 127, maxHi |-> 0]
MCMethods == {MCSM3}

\* Points whose key stream has no zero byte, begins with a window and a byte of
\* zeros, and is zero as far as the messages of the model go.
MCSecrets == {"point", "late", "zero"}
Function == INSTANCE HashFunction
Stream(z, i) ==
  Function!Digest(MCSM3, Data(z, 0, 2 * ELEM_LEN) \o <<{<<"ctr", ((i - 1) \div 3) + 1>>}>>, 3)
    [((i - 1) % 3) + 1]
MCZeroBytes == {Stream("late", i) : i \in 1..4} \cup {Stream("zero", i) : i \in 1..9}

MCCallLens == {-1, 0, 1, 4}
MCTagLens == {-1, 2, 4}

-----------------------------------------------------------------------------
(* Curves of prime order with the three forms of a that the arithmetic     *)
(* tells apart, for products by windows.                                   *)

C31   == [p |-> 29, a |-> 26, b |-> 4, g |-> <<2, 8>>, n |-> 31]
C61   == [p |-> 47, a |-> 3, b |-> 5, g |-> <<1, 3>>, n |-> 61]
C127  == [p |-> 109, a |-> 0, b |-> 11, g |-> <<1, 11>>, n |-> 127]
C1021 == [p |-> 967, a |-> 964, b |-> 169, g |-> <<3, 253>>, n |-> 1021]
MCMulCurves  == {C31, C61, C127, C1021}
MCPairCurves == {C61}

\* B's ephemeral key 10 makes its exponent 0 on K13.
MCKECurves      == {K13, H13}
MCStaticKey     == [A |-> 3, B |-> 5]
MCEphemeralKeys == [E \in MCKECurves |-> IF E = K13 THEN [A |-> {2, 7}, B |-> {4, 10}]
                                         ELSE [A |-> {7}, B |-> {4}]]

MCCurves == MCMulCurves \union MCKeyCurves \union MCSecretCurves

-----------------------------------------------------------------------------
(* The scratch pools with the sizes the library gives them.                *)

VARIABLES degree, used, stack
poolVars == <<degree, used, stack>>

Pools == INSTANCE ScratchPools WITH
  MAX_LEVEL <- 3, GFP_POOL_SIZE <- 16, GFPX_POOL_SIZE <- 14, MONT_POOL_SIZE <- 6,
  EC_POOL_SIZE <- 10, DEGREES <- {2, 3}, CURVE_LEVELS <- {0, 1}, CURVE_DEGREES <- {2}

\* Quadratic extensions all through, and the tower of pairings in both orders.
MCTowers == {<<2, 2, 2>>, <<2, 3, 2>>, <<3, 2, 2>>}

\* No allocation is ever answered NULL and no point is put beyond the pool of points,
\* whatever the nesting of calls.
WithinPools == Pools!WithinPools

\* Every call, nested or not, gives back exactly what it took, on every way out.
CallsBalance == Pools!CallsBalance

\* A function uses only memory it has allocated and not yet given back.
HeldWhenUsed == Pools!HeldWhenUsed

-----------------------------------------------------------------------------
(* Signatures with hash functions.  Digests are a byte; each leaf,         *)
(* randomizer and message has another, with no order among them.           *)

VARIABLES lmsKey, lmsSigned, lmsCall, xmssKey, xmssSigned, xmssCall
lmsVars  == <<lmsKey, lmsSigned, lmsCall>>
xmssVars == <<xmssKey, xmssSigned, xmssCall>>

MCDigest(leaf, rnd, msg) == (((msg * 2 + (IF rnd = "r1" THEN 0 ELSE 1)) * 9 + leaf) * 37 + 11) % 256

LMSigs == INSTANCE LMS WITH
  LmsWidths <- {1, 2, 4}, LmsHeight <- 3, LmsMessages <- 0..2, DigestOf <- MCDigest

\* LMS answers "valid" exactly for what was signed.
LmsValidIffSigned == LMSigs!LmsValidIffSigned

XMSSigs == INSTANCE XMSS WITH
  XmssLog2W <- 2, XmssHeight <- 3, XmssMessages <- 0..2, XDigestOf <- MCDigest

\* XMSS answers "valid" exactly for what was signed.
XmssValidIffSigned == XMSSigs!XmssValidIffSigned

-----------------------------------------------------------------------------
Parts == {"pools", "exchange", "keys", "encryption", "product", "inverse", "LMS", "XMSS"}

Rests(part) ==
  CASE part = "pools"      -> stack = <<>> /\ \A i \in DOMAIN degree : degree[i] = 2
    [] part = "exchange"   -> keCurve = NoCurve
    [] part = "keys"       -> ecKey = NoEcKey
    [] part = "encryption" -> st.idCtx = "none" /\ out.ret = "ippStsNoErr"
    [] part = "product"    -> emTask = "idle"
    [] part = "inverse"    -> task = "idle"
    [] part = "LMS"        -> lmsKey = LMSigs!LmsNone
    [] part = "XMSS"       -> xmssKey = XMSSigs!NoTree

Only(part) == \A other \in Parts \ {part} : Rests(other)

MCInit ==
  /\ Init /\ InvInit /\ ScalarMulInit /\ EcInit /\ KeInit
  /\ Pools!Init /\ degree \in MCTowers /\ LMSigs!LmsInit /\ XMSSigs!XmssInit

MCNext ==
  \/ /\ Only("encryption") /\ Next
     /\ UNCHANGED <<invVars, emVars, ecVars, keVars, poolVars, lmsVars, xmssVars>>
  \/ /\ Only("inverse") /\ InvNext
     /\ UNCHANGED <<vars, emVars, ecVars, keVars, poolVars, lmsVars, xmssVars>>
  \/ /\ Only("product") /\ ScalarMulNext
     /\ UNCHANGED <<vars, invVars, ecVars, keVars, poolVars, lmsVars, xmssVars>>
  \/ /\ Only("keys") /\ EcNext
     /\ UNCHANGED <<vars, invVars, emVars, keVars, poolVars, lmsVars, xmssVars>>
  \/ /\ Only("exchange") /\ KeNext
     /\ UNCHANGED <<vars, invVars, emVars, ecVars, poolVars, lmsVars, xmssVars>>
  \/ /\ Only("pools") /\ Pools!Next
     /\ UNCHANGED <<vars, invVars, emVars, ecVars, keVars, lmsVars, xmssVars>>
  \/ /\ Only("LMS") /\ LMSigs!LmsNext
     /\ UNCHANGED <<vars, invVars, emVars, ecVars, keVars, poolVars, xmssVars>>
  \/ /\ Only("XMSS") /\ XMSSigs!XmssNext
     /\ UNCHANGED <<vars, invVars, emVars, ecVars, keVars, poolVars, lmsVars>>

MCSpec ==
  MCInit /\ [][MCNext]_<<vars, invVars, emVars, ecVars, keVars, poolVars, lmsVars, xmssVars>>
=============================================================================
