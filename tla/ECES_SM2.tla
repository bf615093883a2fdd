------------------------------ MODULE ECES_SM2 ------------------------------
(***************************************************************************)
(* The SM2 encryption scheme, ippsGFpECES..._SM2: a context of four states *)
(* with two SM3 contexts, one for the key stream and one for the tag, and  *)
(* a window of the key stream that the bytes of a message use up across    *)
(* calls.  The product of private and public point is external: SetKey     *)
(* gets a finite point, the point at infinity, or an error of the curve.   *)
(***************************************************************************)
EXTENDS HashContext

CONSTANTS
  SM3,        \* the method of both hash contexts
  ELEM_LEN,   \* bytes of a coordinate: half of sharedSecretLen
  CTR_MOD,    \* values of kdfCounter, 2^32
  Secrets,    \* finite points SetKey may compute
  ZeroBytes,  \* the bytes of digests that are zero
  CallLens,   \* the int data lengths a caller passes
  TagLens,    \* the int tag lengths
  MAX_MSG     \* bound of the model: bytes of a message

\* SM3 has one length word.  MAX_MSG is the most that GM/T 0003.4 lets one secret
\* encrypt: the code does not see kdfCounter wrap.
ASSUME ESAssumption ==
  /\ SM3 \in Methods /\ SM3.mrl = 1
  /\ ELEM_LEN \in Nat \ {0} /\ 2 * ELEM_LEN < LO_MOD /\ CTR_MOD \in Nat \ {0}
  /\ Secrets \subseteq STRING
  /\ CallLens \subseteq Int /\ \A len \in CallLens : len < LO_MOD
  /\ TagLens \subseteq Int
  /\ MAX_MSG \in Nat /\ MAX_MSG <= (CTR_MOD - 1) * SM3.hashLen

VARIABLES
  st,   \* the context: idCtx, pSharedSecret, state, the key stream fields, the hash contexts
  out   \* what the last call returned: status, bytes

vars == <<st, out>>

States == {"Init", "KeySet", "Processing", "Finished"}
HASH_LEN == SM3.hashLen

\* Memory that was never a context.
Init ==
  /\ st = [idCtx |-> "none", pSharedSecret |-> ZeroBlock(2 * ELEM_LEN), state |-> "Init",
           kdfCounter |-> 0, pKdfWindow |-> ZeroBlock(HASH_LEN), kdfIndex |-> 0,
           wasNonZero |-> FALSE, kdfHasher |-> HashInit("none", SM3),
           tagHasher |-> HashInit("none", SM3)]
  /\ out = [ret |-> "ippStsNoErr", data |-> <<>>]

Returns(status) == out' = [ret |-> status, data |-> <<>>]
Done(data) == out' = [ret |-> "ippStsNoErr", data |-> data]

-----------------------------------------------------------------------------
FirstHalf(z) == SubSeq(z, 1, ELEM_LEN)
SecondHalf(z) == SubSeq(z, ELEM_LEN + 1, 2 * ELEM_LEN)

\* The next window: the digest of the secret and the incremented counter.
NextWindow(s) ==
  LET counter == (s.kdfCounter + 1) % CTR_MOD
      hasher  == HashUpdate(HashUpdate(s.kdfHasher, s.pSharedSecret), <<{<<"ctr", counter>>}>>)
  IN  [s EXCEPT !.kdfCounter = counter, !.kdfIndex = 0,
                !.pKdfWindow = HashTag(hasher, HASH_LEN), !.kdfHasher = HashRestart(hasher)]

\* The context after one byte of the key stream was taken: the last byte behind kdfIndex.
KdfNextByte(s) ==
  LET t == IF s.kdfIndex = HASH_LEN THEN NextWindow(s) ELSE s
  IN  [t EXCEPT !.wasNonZero = @ \/ t.pKdfWindow[t.kdfIndex + 1] \notin ZeroBytes,
                !.kdfIndex = @ + 1]

\* The contexts after 0, 1, .. n bytes of the key stream.
KdfBytes(s, n) ==
  LET after[i \in 0..n] == IF i = 0 THEN s ELSE KdfNextByte(after[i - 1]) IN after

XorKdf(after, src) ==
  [i \in DOMAIN src |-> Xor(src[i], after[i].pKdfWindow[after[i].kdfIndex])]

-----------------------------------------------------------------------------
\* ippsGFpECESInit_SM2: the tag hasher is left to Start, the rest to SetKey.
Create(sizeOk) ==
  IF sizeOk
  THEN /\ st' = [st EXCEPT !.idCtx = "ECES", !.kdfHasher = HashInit("here", SM3), !.state = "Init"]
       /\ Done(<<>>)
  ELSE Returns("ippStsSizeErr") /\ UNCHANGED st

\* Mutant: the rest of the old window is still in use.
SetKey_Mutant(sameLen, product) ==
  IF st.idCtx # "ECES" THEN Returns("ippStsContextMatchErr") /\ UNCHANGED st
  ELSE IF ~sameLen THEN Returns("ippStsBadArgErr") /\ UNCHANGED st
  ELSE IF product \notin Secrets THEN Returns(product) /\ UNCHANGED st
  ELSE /\ st' = [st EXCEPT !.pSharedSecret = Data(product, 0, 2 * ELEM_LEN),
                           !.kdfCounter = 0, !.wasNonZero = FALSE, !.state = "KeySet"]
       /\ Done(<<>>)

\* In any state, a message under way included.  The key stream starts with an
\* exhausted window.  product is the point, or the status for want of one.
SetKey(sameLen, product) ==
  IF st.idCtx # "ECES" THEN Returns("ippStsContextMatchErr") /\ UNCHANGED st
  ELSE IF ~sameLen THEN Returns("ippStsBadArgErr") /\ UNCHANGED st
  ELSE IF product \notin Secrets THEN Returns(product) /\ UNCHANGED st
  ELSE /\ st' = [st EXCEPT !.pSharedSecret = Data(product, 0, 2 * ELEM_LEN),
                           !.kdfCounter = 0, !.kdfIndex = HASH_LEN,
                           !.wasNonZero = FALSE, !.state = "KeySet"]
       /\ Done(<<>>)

Start ==
  IF st.idCtx # "ECES" \/ st.state # "KeySet"
  THEN Returns("ippStsContextMatchErr") /\ UNCHANGED st
  ELSE /\ st' = [st EXCEPT !.tagHasher = HashUpdate(HashInit("here", SM3),
                                                    FirstHalf(st.pSharedSecret)),
                           !.state = "Processing"]
       /\ Done(<<>>)

\* The checks of Encrypt and Decrypt.
DataStatus(hasPtr, len) ==
  IF ~hasPtr THEN "ippStsNullPtrErr"
  ELSE IF st.idCtx # "ECES" THEN "ippStsContextMatchErr"
  ELSE IF st.state # "Processing" THEN "ippStsIncompleteContextErr"
  ELSE IF len < 0 THEN "ippStsSizeErr"
  ELSE "ippStsNoErr"

\* Bytes of message the tag hasher has absorbed.
MsgLen == Len(Absorbed(st.tagHasher)) - ELEM_LEN

\* The tag hasher takes the input and the key stream turns it into the output.
Encrypt(hasPtr, len) ==
  LET status == DataStatus(hasPtr, len)
      src    == Data("plain", MsgLen, len)
      after  == KdfBytes(st, len)
  IN  /\ MsgLen + len <= MAX_MSG
      /\ IF status = "ippStsNoErr"
         THEN /\ st' = [after[len] EXCEPT !.tagHasher = HashUpdate(@, src)]
              /\ Done(XorKdf(after, src))
         ELSE Returns(status) /\ UNCHANGED st

\* The tag hasher takes the output; in the mutant, the input.
Decrypt_Mutant(hasPtr, len) ==
  LET status == DataStatus(hasPtr, len)
      src    == Data("cipher", MsgLen, len)
      after  == KdfBytes(st, len)
  IN  /\ MsgLen + len <= MAX_MSG
      /\ IF status = "ippStsNoErr"
         THEN /\ st' = [after[len] EXCEPT !.tagHasher = HashUpdate(@, src)]
              /\ Done(XorKdf(after, src))
         ELSE Returns(status) /\ UNCHANGED st
Decrypt(hasPtr, len) ==
  LET status == DataStatus(hasPtr, len)
      after  == KdfBytes(st, len)
      dst    == XorKdf(after, Data("cipher", MsgLen, len))
  IN  /\ MsgLen + len <= MAX_MSG
      /\ IF status = "ippStsNoErr"
         THEN st' = [after[len] EXCEPT !.tagHasher = HashUpdate(@, dst)] /\ Done(dst)
         ELSE Returns(status) /\ UNCHANGED st

\* The operation is done in any case and the status tells of a zero key stream.
Final(tagLen) ==
  LET hasher == HashUpdate(st.tagHasher, SecondHalf(st.pSharedSecret))
  IN  IF st.idCtx # "ECES" THEN Returns("ippStsContextMatchErr") /\ UNCHANGED st
      ELSE IF st.state # "Processing" THEN Returns("ippStsIncompleteContextErr") /\ UNCHANGED st
      ELSE IF tagLen \notin 0..HASH_LEN THEN Returns("ippStsSizeErr") /\ UNCHANGED st
      ELSE /\ st' = [st EXCEPT !.tagHasher = HashRestart(hasher), !.state = "Finished"]
           /\ out' = [ret  |-> IF st.wasNonZero THEN "ippStsNoErr" ELSE "ippStsShareKeyErr",
                      data |-> SubSeq(HashTag(hasher, HASH_LEN), 1, tagLen)]

Next ==
  \/ \E ok \in BOOLEAN :
       \/ Create(ok)
       \/ \E product \in Secrets \cup {"ippStsPointAtInfinity", "ippStsContextMatchErr"} :
            SetKey(ok, product)
       \/ \E len \in CallLens : Encrypt(ok, len) \/ Decrypt(ok, len)
  \/ Start
  \/ \E tagLen \in TagLens : Final(tagLen)

Spec == Init /\ [][Next]_vars

-----------------------------------------------------------------------------
(* Properties.                                                             *)

\* Every field has its C type and range.
TypeOK ==
  /\ st.idCtx \in {"none", "ECES"} /\ st.state \in States
  /\ Len(st.pSharedSecret) = 2 * ELEM_LEN
  /\ st.kdfCounter \in 0..(CTR_MOD - 1) /\ st.kdfIndex \in 0..HASH_LEN
  /\ Len(st.pKdfWindow) = HASH_LEN /\ st.wasNonZero \in BOOLEAN

\* While a message is under way the counter and the index of the window stand
\* where the bytes that the tag hasher took say, however Encrypt and Decrypt were
\* called and whatever key was set in the middle of an earlier message: every byte of text
\* had one byte of the key stream, and the tag covers x and those bytes.
InStep ==
  /\ TypeOK
  /\ st.idCtx = "ECES" /\ st.state \in {"KeySet", "Processing"} =>
       /\ st.kdfCounter * HASH_LEN + st.kdfIndex - HASH_LEN
            = IF st.state = "KeySet" THEN 0 ELSE MsgLen
       /\ st.state = "Processing" =>
            /\ SubSeq(Absorbed(st.tagHasher), 1, ELEM_LEN) = FirstHalf(st.pSharedSecret)
            /\ LengthCounted(st.tagHasher)
       /\ Absorbed(st.kdfHasher) = <<>> /\ LengthCounted(st.kdfHasher)

Promise == INSTANCE SM2Encryption WITH
  phase  <- IF st.idCtx = "ECES" THEN st.state ELSE "none",
  secret <- IF st.idCtx = "ECES" /\ st.state # "Init" THEN st.pSharedSecret ELSE <<>>,
  msg    <- IF st.idCtx = "ECES" /\ st.state = "Processing"
            THEN SubSeq(Absorbed(st.tagHasher), ELEM_LEN + 1, Len(Absorbed(st.tagHasher)))
            ELSE <<>>

\* Any sequence of calls encrypts, decrypts and tags as SM2 defines for the whole
\* message, and reports a key stream of zeros and no other; a point that was set serves one message.
ImplementsSM2 == Promise!Spec
=============================================================================
