------------------------------ MODULE AES_CMAC ------------------------------
(***************************************************************************)
(* The AES-CMAC context: ippsAES_CMACInit, Update, GetTag and Final in any *)
(* order with any lengths.  The chained value mMAC is symbolic: it is      *)
(* determined by the blocks encrypted into it since it was zero, so it is  *)
(* that sequence of blocks.  The subkeys are computed from the key by Init *)
(* and known by it.  The bytes of the message are numbered from 1.         *)
(***************************************************************************)
EXTENDS Blocks

CONSTANTS
  BLOCK_SIZE,  \* MBS_RIJ128
  KeyLens,     \* the int key lengths a caller passes
  GoodKeyLens, \* 16, 24 and 32: a context is keyed by the last of them it was given
  CallLens,    \* the int lengths of the updates
  MdLens,      \* the int tag lengths asked for
  MAX_MSG      \* bound of the model: bytes of a message

ASSUME CmacAssumption ==
  /\ BLOCK_SIZE \in Nat /\ BLOCK_SIZE > 0
  /\ KeyLens \subseteq Int /\ GoodKeyLens \subseteq Nat \ {0}
  /\ CallLens \subseteq Int /\ MdLens \subseteq Int /\ MAX_MSG \in Nat

VARIABLES
  idCtx,    \* BOOLEAN: the id is that of a CMAC context at this address
  index,    \* bytes of mBuffer in use
  mBuffer,
  mMAC,     \* blocks encrypted into the intermediate digest
  key,      \* what mCipherCtx, k1 and k2 were set up for, 0 for memory as found
  len,      \* history: bytes of the message absorbed
  out       \* what the last call returned: status, tag and how much of it

vars == <<idCtx, index, mBuffer, mMAC, key, len, out>>

Returns(status) == [ret |-> status, tag |-> <<>>, mdLen |-> 0]

\* init() of pcpaes_cmac_stuff.h: the buffer keeps its bytes.
ClearedState == index' = 0 /\ mMAC' = <<>> /\ len' = 0 /\ UNCHANGED mBuffer

Init ==
  /\ idCtx = FALSE /\ index = 0 /\ mMAC = <<>>
  /\ mBuffer = [j \in 1..BLOCK_SIZE |-> {<<"found", j>>}]
  /\ key = 0 /\ len = 0 /\ out = Returns("ippStsNoErr")

Reject(status) == out' = Returns(status) /\ UNCHANGED <<idCtx, index, mBuffer, mMAC, key, len>>

\* A caller does not use a context that never had a key.
KEYED == idCtx => key # 0

-----------------------------------------------------------------------------
\* The id and the message are set up before the key length is looked at.
CMACInit(keyLen, sizeOk) ==
  IF ~sizeOk THEN Reject("ippStsMemAllocErr")
  ELSE /\ idCtx' = TRUE /\ ClearedState
       /\ key' = IF keyLen \in GoodKeyLens THEN keyLen ELSE key
       /\ out' = Returns(IF keyLen \in GoodKeyLens THEN "ippStsNoErr" ELSE "ippStsLengthErr")

\* Bytes of n that go into the buffer already begun.
ToBuffer(n) == IF index = 0 THEN 0 ELSE IPP_MIN(n, BLOCK_SIZE - index)

\* Mutant: a last full block is processed with the others.
Processed_Mutant(n) == n - (n % BLOCK_SIZE)

\* Bytes of n that are processed at once: whole blocks, but never the last.
Processed(n) ==
  LET whole == n - (n % BLOCK_SIZE)
  IN  IF n % BLOCK_SIZE = 0 THEN whole - BLOCK_SIZE ELSE whole

\* The first m bytes of src, whole blocks, encrypted into mac.
Processing(mac, src, m) ==
  mac \o [i \in 1..(m \div BLOCK_SIZE) |->
            [j \in 1..BLOCK_SIZE |-> src[(i - 1) * BLOCK_SIZE + j]]]

\* Fill the buffer; if that leaves bytes over, encrypt it, process them but
\* the last block and put that in the buffer.
Absorb(src) ==
  LET n      == Len(src)
      first  == ToBuffer(n)
      filled == CopyBlock(SubSeq(src, 1, first), mBuffer, index)
      rest   == SubSeq(src, first + 1, n)
      mac    == IF index + first = BLOCK_SIZE THEN Append(mMAC, filled) ELSE mMAC
      m      == Processed(Len(rest))
  IN  IF rest = <<>>
      THEN index' = index + first /\ mBuffer' = filled /\ UNCHANGED mMAC
      ELSE /\ mMAC' = Processing(mac, rest, m)
           /\ mBuffer' = CopyBlock(SubSeq(rest, m + 1, Len(rest)), filled, 0)
           /\ index' = Len(rest) - m

UpdateStatus(hasPtr, n) ==
  IF ~idCtx                  THEN "ippStsContextMatchErr"
  ELSE IF n < 0 /\ hasPtr    THEN "ippStsLengthErr"
  ELSE IF n # 0 /\ ~hasPtr   THEN "ippStsNullPtrErr"
  ELSE "ippStsNoErr"

CMACUpdate(hasPtr, n) ==
  LET status == UpdateStatus(hasPtr, n) IN
  IF status # "ippStsNoErr" THEN Reject(status)
  ELSE /\ len + n <= MAX_MSG /\ len' = len + n
       /\ IF n = 0 THEN UNCHANGED <<index, mBuffer, mMAC>> ELSE Absorb(Data("in", len, n))
       /\ out' = Returns("ippStsNoErr") /\ UNCHANGED <<idCtx, key>>

K(name) == [j \in 1..BLOCK_SIZE |-> {<<name, key, j>>}]

\* Mutant: the padding bit is left out.
LastBlock_Mutant ==
  IF index = BLOCK_SIZE
  THEN XorBlock(K("k1"), mBuffer, 0)
  ELSE XorBlock(K("k2"), [j \in 1..BLOCK_SIZE |-> IF j <= index THEN mBuffer[j] ELSE {}], 0)

\* The last block: k1 for a full buffer, else the padding and k2.
LastBlock ==
  IF index = BLOCK_SIZE
  THEN XorBlock(K("k1"), mBuffer, 0)
  ELSE XorBlock(K("k2"), [j \in 1..BLOCK_SIZE |-> IF j <= index THEN mBuffer[j]
                                                  ELSE IF j = index + 1 THEN {<<"pad">>}
                                                  ELSE {}], 0)

MacTag(mdLen) ==
  [ret |-> "ippStsNoErr", tag |-> [key |-> key, blocks |-> Append(mMAC, LastBlock)], mdLen |-> mdLen]

CMACGetTag(mdLen) ==
  IF ~idCtx                          THEN Reject("ippStsContextMatchErr")
  ELSE IF mdLen \notin 1..BLOCK_SIZE THEN Reject("ippStsLengthErr")
  ELSE out' = MacTag(mdLen) /\ UNCHANGED <<idCtx, index, mBuffer, mMAC, key, len>>

\* Looks at the length first and at the id in GetTag, then begins a new message.
CMACFinal(mdLen) ==
  IF mdLen \notin 1..BLOCK_SIZE THEN Reject("ippStsLengthErr")
  ELSE IF ~idCtx                THEN Reject("ippStsContextMatchErr")
  ELSE out' = MacTag(mdLen) /\ ClearedState /\ UNCHANGED <<idCtx, key>>

-----------------------------------------------------------------------------
Next ==
  \/ \E keyLen \in KeyLens, sizeOk \in BOOLEAN : CMACInit(keyLen, sizeOk)
  \/ KEYED /\ \E n \in CallLens, hasPtr \in BOOLEAN : CMACUpdate(hasPtr, n)
  \/ KEYED /\ \E mdLen \in MdLens : CMACGetTag(mdLen) \/ CMACFinal(mdLen)

Spec == Init /\ [][Next]_vars

-----------------------------------------------------------------------------
\* Types; the buffer is never overrun.
TypeOK ==
  /\ idCtx \in BOOLEAN /\ index \in 0..BLOCK_SIZE /\ DOMAIN mBuffer = 1..BLOCK_SIZE
  /\ key \in GoodKeyLens \cup {0} /\ len \in 0..MAX_MSG

\* The blocks encrypted and the bytes in the buffer are the message, none twice
\* and none missing, however Update was called; and the buffer is only empty if
\* the message is, so that the last block is there to take its subkey.
InStep ==
  /\ len = Len(mMAC) * BLOCK_SIZE + index
  /\ index = 0 => len = 0
  /\ \A i \in 1..Len(mMAC) : \A j \in 1..BLOCK_SIZE :
       mMAC[i][j] = {<<"in", (i - 1) * BLOCK_SIZE + j>>}
  /\ \A j \in 1..index : mBuffer[j] = {<<"in", Len(mMAC) * BLOCK_SIZE + j>>}

\* Every context implements CMAC: the tags are those of the message so far.
C == INSTANCE CMAC
ImplementsCMAC == C!Spec
=============================================================================
