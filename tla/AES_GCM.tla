------------------------------ MODULE AES_GCM -------------------------------
(***************************************************************************)
(* The streaming AES-GCM context of the ippsAES_GCM functions, in the C    *)
(* implementation used below the AVX-512 code path.  A caller owns the     *)
(* context and calls Init, then Reset, ProcessIV, ProcessAAD, Encrypt or   *)
(* Decrypt and GetTag, or Start in place of Reset, ProcessIV, ProcessAAD,  *)
(* cutting IV, AAD and text into chunks of any length.  One buffer length  *)
(* bufLen serves three accumulators in turn: counter absorbs the IV and    *)
(* then is the counter block, ghash absorbs the AAD and the ciphertext.    *)
(*                                                                         *)
(* GHASH is symbolic: an accumulator is the sequence of blocks already     *)
(* multiplied by the hash key and the block acc being XORed into.  The     *)
(* cipher is symbolic: E(counter) is a block of atoms of its own.          *)
(***************************************************************************)
EXTENDS Blocks

CONSTANTS
  BLOCK_SIZE,   \* bytes of an AES block, 16
  CTR_POS,      \* bytes before the 32-bit counter in the counter block, 12
  CTR_MOD,      \* values of that counter, 2^32
  LEN_MOD,      \* values of the Ipp64u length fields, 2^64
  BYTESIZE,     \* bits of a byte, 8
  Addrs,        \* the addresses a context may be moved to
  CallLens,     \* the int lengths a caller passes in one call
  MAX_IV,       \* bound of the model: IV bytes of a message
  MAX_AAD       \* bound of the model: AAD bytes of a message

\* Mutant: one block too many.
MAX_TXT_LEN_Mutant == (CTR_MOD - 1) * BLOCK_SIZE

\* According to NIST SP 800-38D; in the code 2^36 - 32 = (2^32 - 2) * 16.
MAX_TXT_LEN == (CTR_MOD - 2) * BLOCK_SIZE

ASSUME GcmAssumption ==
  /\ BLOCK_SIZE \in Nat /\ CTR_POS \in 1..(BLOCK_SIZE - 1)
  /\ CTR_MOD \in Nat /\ CTR_MOD > 2
  /\ LEN_MOD \in Nat /\ LEN_MOD > MAX_TXT_LEN
  /\ BYTESIZE \in Nat \ {0}
  /\ CallLens \subseteq Int /\ \A len \in CallLens : len <= MAX_TXT_LEN
  /\ MAX_IV \in Nat /\ MAX_AAD \in Nat

VARIABLES
  addr,   \* where the context lies in memory
  ctx,    \* the context, struct _cpAES_GCM
  ready,  \* the caller's last Init succeeded: it may use the context
  msg,    \* what the calls accepted since the last reset have passed
  out     \* what the last call returned: status, bytes of pDst, tag

vars == <<addr, ctx, ready, msg, out>>

-----------------------------------------------------------------------------
(* GHASH accumulators, counter blocks, the cipher.                         *)

EmptyHash == [done |-> <<>>, acc |-> ZeroBlock(BLOCK_SIZE)]

\* acc := acc * H
hashFun(g) == [done |-> Append(g.done, g.acc), acc |-> ZeroBlock(BLOCK_SIZE)]

\* acc := (acc ^ block) * H for each of the whole blocks of s
authFun(g, s) ==
  IF s = <<>> THEN g
  ELSE [done |-> g.done \o
          [k \in 1..(Len(s) \div BLOCK_SIZE) |->
             LET block == SubSeq(s, (k - 1) * BLOCK_SIZE + 1, k * BLOCK_SIZE)
             IN  IF k = 1 THEN XorBlock(block, g.acc, 0) ELSE block],
        acc |-> ZeroBlock(BLOCK_SIZE)]

\* The counter block: the block the IV left, its last 32 bits advanced n times.
IncrementCounter32(c, n) == [c EXCEPT !.inc = (@ + n) % CTR_MOD]

E(counter) == [j \in 1..BLOCK_SIZE |-> {<<"E", counter, j>>}]

\* len & (-BLOCK_SIZE)
WholeBlocks(len) == len - (len % BLOCK_SIZE)

\* Mutant: the bytes already pending are forgotten.
HeadLen_Mutant(bufLen, len) == IF bufLen = 0 THEN 0 ELSE IPP_MIN(len, BLOCK_SIZE - 1)

\* The part of a chunk that completes a pending block.
HeadLen(bufLen, len) == IF bufLen = 0 THEN 0 ELSE IPP_MIN(len, BLOCK_SIZE - bufLen)

\* XOR the chunk s into an accumulator that holds bufLen bytes of a block:
\* complete the pending block, hash the whole blocks, keep the rest.
Absorb(g, bufLen, s) ==
  LET head == HeadLen(bufLen, Len(s))
      full == bufLen + head = BLOCK_SIZE
      main == WholeBlocks(Len(s) - head)
      g1   == [g EXCEPT !.acc = XorBlock(SubSeq(s, 1, head), @, bufLen)]
      g2   == authFun(IF full THEN hashFun(g1) ELSE g1, SubSeq(s, head + 1, head + main))
      rest == SubSeq(s, head + main + 1, Len(s))
  IN  [hash   |-> [g2 EXCEPT !.acc = XorBlock(rest, @, 0)],
       bufLen |-> (IF full THEN 0 ELSE bufLen + head) + Len(rest)]

-----------------------------------------------------------------------------
(* What each call checks before it changes anything, in the code's order.  *)

VALID_ID == ctx.idCtx = addr

IVStatus(c, hasPtr, len) ==
  IF len # 0 /\ ~hasPtr                     THEN "ippStsNullPtrErr"
  ELSE IF len < 0                           THEN "ippStsLengthErr"
  ELSE IF c.idCtx # addr                    THEN "ippStsContextMatchErr"
  ELSE IF (c.ivLen + len) % LEN_MOD < len   THEN "ippStsScaleRangeErr"
  ELSE IF c.state \notin {"GcmInit", "GcmIVprocessing"} THEN "ippStsBadArgErr"
  ELSE "ippStsNoErr"

AADStatus(c, hasPtr, len) ==
  IF c.idCtx # addr                         THEN "ippStsContextMatchErr"
  ELSE IF len # 0 /\ ~hasPtr                THEN "ippStsNullPtrErr"
  ELSE IF len < 0                           THEN "ippStsLengthErr"
  ELSE IF (c.aadLen + len) % LEN_MOD < len  THEN "ippStsScaleRangeErr"
  ELSE IF c.state \notin {"GcmIVprocessing", "GcmAADprocessing"} THEN "ippStsBadArgErr"
  ELSE IF c.state = "GcmIVprocessing" /\ c.ivLen = 0 THEN "ippStsBadArgErr"
  ELSE "ippStsNoErr"

TextStatus(c, hasPtr, len) ==
  IF c.idCtx # addr                         THEN "ippStsContextMatchErr"
  ELSE IF c.state \notin {"GcmAADprocessing", "GcmTXTprocessing"} THEN "ippStsBadArgErr"
  ELSE IF ~hasPtr                           THEN "ippStsNullPtrErr"
  ELSE IF len < 0                           THEN "ippStsLengthErr"
  ELSE IF \/ c.txtLen > MAX_TXT_LEN - len
          \/ (c.txtLen + len) % LEN_MOD < len THEN "ippStsScaleRangeErr"
  ELSE "ippStsNoErr"

-----------------------------------------------------------------------------
(* What each accepted call does to the context.                            *)

Reset(c) ==
  [idCtx |-> c.idCtx, ptrs |-> c.ptrs, state |-> "GcmInit",
   ivLen |-> 0, aadLen |-> 0, txtLen |-> 0, bufLen |-> 0,
   counter |-> [hash |-> EmptyHash, inc |-> 0],
   ecounter |-> ZeroBlock(BLOCK_SIZE), ecounter0 |-> ZeroBlock(BLOCK_SIZE),
   ghash |-> EmptyHash]

ProcessIV(c, iv) ==
  LET a == Absorb(c.counter.hash, c.bufLen, iv)
  IN  [c EXCEPT !.state = "GcmIVprocessing", !.counter.hash = a.hash, !.bufLen = a.bufLen,
                !.ivLen = (@ + Len(iv)) % LEN_MOD]

\* The block whose encryption masks the tag: a 12-byte IV followed by the
\* 32-bit number 1, the hash of the IV and its bit length otherwise.
InitialCounter(c) ==
  IF c.ivLen = CTR_POS
  THEN [c.counter EXCEPT !.hash.acc =
          CopyBlock([j \in 1..(BLOCK_SIZE - CTR_POS) |->
                       IF j = BLOCK_SIZE - CTR_POS THEN {<<"one">>} ELSE {}], @, CTR_POS)]
  ELSE LET g == IF c.bufLen # 0 THEN hashFun(c.counter.hash) ELSE c.counter.hash
           ivBitLen == (c.ivLen * BYTESIZE) % LEN_MOD
       IN  [c.counter EXCEPT !.hash =
              hashFun([g EXCEPT !.acc = XorBlock(<<{<<"bits", ivBitLen>>}>>, @, BLOCK_SIZE - 1)])]

FinishIV(c) ==
  LET j0 == InitialCounter(c)
  IN  [c EXCEPT !.counter = j0, !.ecounter0 = E(j0),
                !.state = "GcmAADprocessing", !.aadLen = 0, !.bufLen = 0]

ProcessAAD(c, aad) ==
  LET c1 == IF c.state = "GcmIVprocessing" THEN FinishIV(c) ELSE c
      a  == Absorb(c1.ghash, c1.bufLen, aad)
  IN  [c1 EXCEPT !.ghash = a.hash, !.bufLen = a.bufLen, !.aadLen = (@ + Len(aad)) % LEN_MOD]

\* Mutant: the buffer length of the AAD is kept for the text.
FinishAAD_Mutant(c) ==
  [c EXCEPT !.ghash = IF c.bufLen # 0 THEN hashFun(@) ELSE @,
            !.counter = IncrementCounter32(@, 1),
            !.ecounter = E(IncrementCounter32(c.counter, 1)),
            !.state = "GcmTXTprocessing", !.txtLen = 0]

FinishAAD(c) ==
  [c EXCEPT !.ghash = IF c.bufLen # 0 THEN hashFun(@) ELSE @,
            !.counter = IncrementCounter32(@, 1),
            !.ecounter = E(IncrementCounter32(c.counter, 1)),
            !.state = "GcmTXTprocessing", !.txtLen = 0, !.bufLen = 0]

\* Counter mode over the chunk src.  ecounter always encrypts the block in use:
\* the counter is advanced and encrypted as soon as a block has been used up.
CtrMode(c, src) ==
  LET head  == HeadLen(c.bufLen, Len(src))
      full  == c.bufLen + head = BLOCK_SIZE
      main  == WholeBlocks(Len(src) - head)
      ctr1  == IF full THEN IncrementCounter32(c.counter, 1) ELSE c.counter
      ectr1 == IF full THEN E(ctr1) ELSE c.ecounter
      ctr2  == IncrementCounter32(ctr1, main \div BLOCK_SIZE)
      ectr2 == IF main > 0 THEN E(ctr2) ELSE ectr1
      keystream ==
        SubSeq(c.ecounter, c.bufLen + 1, c.bufLen + head)
        \o [i \in 1..main |->
              LET k == (i - 1) \div BLOCK_SIZE
                  block == IF k = 0 THEN ectr1 ELSE E(IncrementCounter32(ctr1, k))
              IN  block[((i - 1) % BLOCK_SIZE) + 1]]
        \o SubSeq(ectr2, 1, Len(src) - head - main)
  IN  [dst |-> [i \in DOMAIN src |-> Xor(src[i], keystream[i])],
       counter |-> ctr2, ecounter |-> ectr2]

\* ProcessText(c, src, "Encrypt") authenticates what it writes, "Decrypt" what it reads.
ProcessText(c, src, dir) ==
  LET c1 == IF c.state = "GcmAADprocessing" THEN FinishAAD(c) ELSE c
      t  == CtrMode(c1, src)
      a  == Absorb(c1.ghash, c1.bufLen, IF dir = "Encrypt" THEN t.dst ELSE src)
  IN  [ctx |-> [c1 EXCEPT !.ghash = a.hash, !.bufLen = a.bufLen,
                          !.counter = t.counter, !.ecounter = t.ecounter,
                          !.txtLen = (@ + Len(src)) % LEN_MOD],
       dst |-> t.dst]

\* Mutant: the last, incomplete block is hashed together with the lengths.
Tag_Mutant(c) ==
  LET lens == [j \in 1..BLOCK_SIZE |->
                 CASE j = 1 -> {<<"bits", (c.aadLen * BYTESIZE) % LEN_MOD>>}
                   [] j = BLOCK_SIZE -> {<<"bits", (c.txtLen * BYTESIZE) % LEN_MOD>>}
                   [] OTHER -> {}]
  IN  [ghash |-> hashFun([c.ghash EXCEPT !.acc = XorBlock(lens, @, 0)]), mask |-> c.ecounter0]

\* The tag, computed on a copy of ghash.
Tag(c) ==
  LET g == IF c.bufLen # 0 THEN hashFun(c.ghash) ELSE c.ghash
      lens == [j \in 1..BLOCK_SIZE |->
                 CASE j = 1 -> {<<"bits", (c.aadLen * BYTESIZE) % LEN_MOD>>}
                   [] j = BLOCK_SIZE -> {<<"bits", (c.txtLen * BYTESIZE) % LEN_MOD>>}
                   [] OTHER -> {}]
  IN  [ghash |-> hashFun([g EXCEPT !.acc = XorBlock(lens, @, 0)]), mask |-> c.ecounter0]

-----------------------------------------------------------------------------
(* The calls.                                                              *)

NoMsg == [iv |-> 0, aad |-> 0, txt |-> <<>>]
NoTag == [ghash |-> EmptyHash, mask |-> <<>>]
Returns(status) == [ret |-> status, dst |-> <<>>, tag |-> NoTag]

Init ==
  /\ addr \in Addrs
  /\ ctx = Reset([idCtx |-> "none", ptrs |-> "none"])
  /\ ready = FALSE
  /\ msg = NoMsg
  /\ out = Returns("ippStsNoErr")

\* The id is set and the context reset before the key length is looked at.
GCMInit(keyLenOk) ==
  /\ ctx' = LET c == Reset([ctx EXCEPT !.idCtx = addr])
            IN  IF keyLenOk THEN [c EXCEPT !.ptrs = addr] ELSE c
  /\ ready' = keyLenOk
  /\ msg' = NoMsg
  /\ out' = Returns(IF keyLenOk THEN "ippStsNoErr" ELSE "ippStsLengthErr")
  /\ UNCHANGED addr

GCMReset ==
  /\ IF VALID_ID
     THEN ctx' = Reset(ctx) /\ msg' = NoMsg /\ out' = Returns("ippStsNoErr")
     ELSE out' = Returns("ippStsContextMatchErr") /\ UNCHANGED <<ctx, msg>>
  /\ UNCHANGED <<addr, ready>>

GCMProcessIV(hasPtr, len) ==
  LET status == IVStatus(ctx, hasPtr, len)
  IN  /\ ready
      /\ msg.iv + len <= MAX_IV
      /\ out' = Returns(status)
      /\ IF status = "ippStsNoErr"
         THEN /\ ctx' = ProcessIV(ctx, Data("iv", msg.iv, len))
              /\ msg' = [msg EXCEPT !.iv = @ + len]
         ELSE UNCHANGED <<ctx, msg>>
      /\ UNCHANGED <<addr, ready>>

GCMProcessAAD(hasPtr, len) ==
  LET status == AADStatus(ctx, hasPtr, len)
  IN  /\ ready
      /\ msg.aad + len <= MAX_AAD
      /\ out' = Returns(status)
      /\ IF status = "ippStsNoErr"
         THEN /\ ctx' = ProcessAAD(ctx, Data("aad", msg.aad, len))
              /\ msg' = [msg EXCEPT !.aad = @ + len]
         ELSE UNCHANGED <<ctx, msg>>
      /\ UNCHANGED <<addr, ready>>

\* Reset, ProcessIV and ProcessAAD, up to the first that fails.
GCMStart(hasPtrs, ivLen, aadLen) ==
  /\ ready
  /\ ivLen <= MAX_IV /\ aadLen <= MAX_AAD
  /\ LET c0  == Reset(ctx)
         sIV == IVStatus(c0, hasPtrs, ivLen)
         c1  == ProcessIV(c0, Data("iv", 0, ivLen))
         sAAD == AADStatus(c1, hasPtrs, aadLen)
     IN  CASE ~VALID_ID ->
                out' = Returns("ippStsContextMatchErr") /\ UNCHANGED <<ctx, msg>>
           [] VALID_ID /\ sIV # "ippStsNoErr" ->
                out' = Returns(sIV) /\ ctx' = c0 /\ msg' = NoMsg
           [] VALID_ID /\ sIV = "ippStsNoErr" /\ sAAD # "ippStsNoErr" ->
                out' = Returns(sAAD) /\ ctx' = c1 /\ msg' = [NoMsg EXCEPT !.iv = ivLen]
           [] OTHER ->
                /\ out' = Returns("ippStsNoErr")
                /\ ctx' = ProcessAAD(c1, Data("aad", 0, aadLen))
                /\ msg' = [iv |-> ivLen, aad |-> aadLen, txt |-> <<>>]
  /\ UNCHANGED <<addr, ready>>

\* ippsAES_GCMEncrypt and ippsAES_GCMDecrypt.
GCMCrypt(dir, hasPtr, len) ==
  LET status == TextStatus(ctx, hasPtr, len)
      t == ProcessText(ctx, Data("txt", Len(msg.txt), len), dir)
  IN  /\ ready
      /\ IF status = "ippStsNoErr"
         THEN /\ ctx' = t.ctx
              /\ msg' = [msg EXCEPT !.txt = @ \o [i \in 1..len |-> dir]]
              /\ out' = [Returns(status) EXCEPT !.dst = t.dst]
         ELSE out' = Returns(status) /\ UNCHANGED <<ctx, msg>>
      /\ UNCHANGED <<addr, ready>>

GCMGetTag(tagLenOk) ==
  /\ ready
  /\ out' = IF ~VALID_ID THEN Returns("ippStsContextMatchErr")
            ELSE IF ~tagLenOk THEN Returns("ippStsLengthErr")
            ELSE [Returns("ippStsNoErr") EXCEPT !.tag = Tag(ctx)]
  /\ UNCHANGED <<addr, ctx, ready, msg>>

\* The context's virtual address changes under the same contents.
Move(a) ==
  /\ ready /\ a # addr
  /\ addr' = a
  /\ UNCHANGED <<ctx, ready, msg, out>>

\* Mutant: only the id is set again.
GCMReinit_Mutant ==
  /\ ready
  /\ ctx' = [ctx EXCEPT !.idCtx = addr]
  /\ out' = Returns("ippStsNoErr")
  /\ UNCHANGED <<addr, ready, msg>>

\* The id and the pointers inside the cipher and the context are set again.
GCMReinit ==
  /\ ready
  /\ ctx' = [ctx EXCEPT !.idCtx = addr, !.ptrs = addr]
  /\ out' = Returns("ippStsNoErr")
  /\ UNCHANGED <<addr, ready, msg>>

Next ==
  \/ \E keyLenOk \in BOOLEAN : GCMInit(keyLenOk)
  \/ GCMReset
  \/ \E hasPtr \in BOOLEAN, len \in CallLens :
       \/ GCMProcessIV(hasPtr, len)
       \/ GCMProcessAAD(hasPtr, len)
       \/ \E dir \in {"Encrypt", "Decrypt"} : GCMCrypt(dir, hasPtr, len)
  \/ \E hasPtrs \in BOOLEAN, ivLen, aadLen \in CallLens : GCMStart(hasPtrs, ivLen, aadLen)
  \/ \E tagLenOk \in BOOLEAN : GCMGetTag(tagLenOk)
  \/ \E a \in Addrs : Move(a)
  \/ GCMReinit

Spec == Init /\ [][Next]_vars

-----------------------------------------------------------------------------
(* Properties.                                                             *)

\* Every field has its C type and the buffer never holds a whole block.
TypeOK ==
  /\ addr \in Addrs /\ ready \in BOOLEAN
  /\ ctx.idCtx \in Addrs \union {"none"} /\ ctx.ptrs \in Addrs \union {"none"}
  /\ ctx.state \in {"GcmInit", "GcmIVprocessing", "GcmAADprocessing", "GcmTXTprocessing"}
  /\ ctx.ivLen \in 0..(LEN_MOD - 1) /\ ctx.aadLen \in 0..(LEN_MOD - 1)
  /\ ctx.txtLen \in 0..MAX_TXT_LEN
  /\ ctx.bufLen \in 0..(BLOCK_SIZE - 1)
  /\ ctx.counter.inc \in 0..(CTR_MOD - 1)
  /\ msg.iv \in Nat /\ msg.aad \in Nat /\ msg.txt \in Seq({"Encrypt", "Decrypt"})

\* The context's own length fields and its one buffer length, which changes
\* its meaning at every phase, always agree with what the caller has passed:
\* GetTag and ProcessAAD hash these fields as the bit lengths of the message.
LengthsAgree ==
  /\ ctx.ivLen = msg.iv % LEN_MOD
  /\ ctx.aadLen = msg.aad % LEN_MOD
  /\ ctx.txtLen = Len(msg.txt)
  /\ ctx.bufLen = CASE ctx.state = "GcmInit" -> 0
                    [] ctx.state = "GcmIVprocessing" -> msg.iv % BLOCK_SIZE
                    [] ctx.state = "GcmAADprocessing" -> msg.aad % BLOCK_SIZE
                    [] ctx.state = "GcmTXTprocessing" -> Len(msg.txt) % BLOCK_SIZE

\* The limit on the text length keeps the 32-bit counter from wrapping: the
\* counter block in use is the one numbered 1 + (bytes before it) / 16, so no
\* two blocks of a message share a counter block, and none of them, nor the
\* one encrypted ahead after the last whole block, is the tag's own (number 0).
CounterNeverRepeats ==
  ctx.state = "GcmTXTprocessing" =>
    /\ ctx.counter.inc = 1 + Len(msg.txt) \div BLOCK_SIZE
    /\ ctx.counter.inc < CTR_MOD

\* A context that a call accepts has its internal pointers set for the address
\* it lies at, also after it was moved and Reinit was called in mid-message.
PointersCurrent == ready /\ VALID_ID => ctx.ptrs = addr

Message == INSTANCE GCM WITH
  phase <- ctx.state, iv <- msg.iv, aad <- msg.aad, txt <- msg.txt, out <- out

\* However the IV, the AAD and the text are cut into calls, whatever calls are
\* rejected on the way and wherever the tag is asked for, the ProcessIV,
\* ProcessAAD, Encrypt, Decrypt, Start and GetTag handlers give the output
\* bytes and the tag of the whole message.
ImplementsGCM == Message!Spec
=============================================================================
