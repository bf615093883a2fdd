------------------------------- MODULE SM3_mb -------------------------------
(***************************************************************************)
(* SM3 over several messages at once: one context with a lane for each,    *)
(* updated and finished by masked vector instructions.  mbx_sm3_..._mb16   *)
(* has 16 lanes; sm3_..._mb8, with 8, is what the SM2 signatures of        *)
(* crypto_mb hash identities and messages with.                            *)
(*                                                                         *)
(* A cell is a byte: <<lane, position>> of a lane's message, Zero, or a    *)
(* byte of the padding.  The intermediate hash of a lane is the cells that *)
(* were compressed into it.  A lane without a message has length 0.        *)
(***************************************************************************)
EXTENDS Blocks

CONSTANTS
  MB16,                \* the form of the code: ..._mb16, or ..._mb8
  LANES,               \* 16 or 8
  SM3_MSG_BLOCK_SIZE,  \* 64
  SM3_MSG_LEN_REPR,    \* 8, bytes of the length in the padding
  Lens,                \* the lengths a caller passes in one call
  Takings,             \* sets of lanes a caller takes digests of in one call
  MAX_LANE             \* bound of the model: bytes of a message

VARIABLES
  mbCtx,    \* of every lane: buffer index, message length, buffer, hash
  mbGiven,  \* how many bytes of its message each lane was passed
  mbOut     \* of the last call: whether it returned, the lanes with an OK status, the digests

mbVars == <<mbCtx, mbGiven, mbOut>>

Lanes == 1..LANES

ASSUME MbAssumption ==
  /\ MB16 \in BOOLEAN /\ LANES \in Nat
  /\ SM3_MSG_BLOCK_SIZE \in Nat /\ SM3_MSG_LEN_REPR \in Nat /\ SM3_MSG_LEN_REPR < SM3_MSG_BLOCK_SIZE
  /\ Lens \subseteq Nat /\ Takings \subseteq SUBSET Lanes /\ MAX_LANE \in Nat

Zero  == <<0, 0>>
Zeros(n) == [k \in 1..n |-> Zero]
Message(i, first, n) == [k \in 1..n |-> <<i, first + k>>]
LengthField(n) == [k \in 1..SM3_MSG_LEN_REPR |-> <<-1, n>>]

\* The cells of the standard's message with its padding.
Standard(msg) ==
  LET body  == Len(msg) + 1 + SM3_MSG_LEN_REPR
      whole == ((body + SM3_MSG_BLOCK_SIZE - 1) \div SM3_MSG_BLOCK_SIZE) * SM3_MSG_BLOCK_SIZE
  IN  msg \o << <<-1, -1>> >> \o Zeros(whole - body) \o LengthField(Len(msg))

NewLane == [idx |-> 0, len |-> 0, buff |-> Zeros(SM3_MSG_BLOCK_SIZE), hash |-> <<>>]
Did(ok, digests) == [returned |-> TRUE, ok |-> ok, digests |-> digests]

-----------------------------------------------------------------------------
(* The compression function: as many blocks of each lane as its length     *)
(* says.  In the mb8 form a lane's length has to be met exactly, and the   *)
(* pointer of a lane that has no block left becomes NULL after one more    *)
(* round; all lanes are read in every round.                               *)

Completes(lens) ==
  \/ MB16
  \/ /\ \A i \in Lanes : lens[i] % SM3_MSG_BLOCK_SIZE = 0
     /\ \A i, j \in Lanes : lens[i] <= lens[j] + SM3_MSG_BLOCK_SIZE

Compressed(ctx, data, lens) ==
  [i \in Lanes |-> [ctx[i] EXCEPT !.hash = @ \o SubSeq(data[i], 1, lens[i])]]

-----------------------------------------------------------------------------
(* An update: fill the buffers if any lane has begun one, compress those   *)
(* that are full, then the whole blocks of the messages, and keep the      *)
(* rest.                                                                   *)

\* Mutant: what a lane that is not full was given is compressed as well.
FillLens_Mutant(full, n) ==
  [i \in Lanes |-> IF i \in full THEN SM3_MSG_BLOCK_SIZE ELSE n[i]]

\* The lengths the buffers are compressed with.
FillLens(full, n) ==
  [i \in Lanes |-> IF i \in full THEN SM3_MSG_BLOCK_SIZE ELSE IF MB16 THEN 0 ELSE n[i]]

\* How many bytes each lane puts into its buffer.
FillTakes(ctx, len) ==
  [i \in Lanes |-> IF \A j \in Lanes : ctx[j].idx = 0 THEN 0
                   ELSE IPP_MIN(len[i], SM3_MSG_BLOCK_SIZE - ctx[i].idx)]

\* The buffers with those bytes; lost are lanes for which the mb8 form shifts
\* its mask by the 64 bits it has and copies none.
Buffered(ctx, src, n, lost) ==
  [i \in Lanes |->
     [ctx[i] EXCEPT !.idx = @ + n[i],
                    !.buff = IF i \in lost THEN @
                             ELSE CopyBlock(SubSeq(src[i], 1, n[i]), @, ctx[i].idx)]]

\* Lanes of which the end of the message is written to the buffer.
Stores(rest) ==
  LET some == {i \in Lanes : rest[i] > 0}
  IN  IF MB16 \/ some = {} THEN some ELSE Lanes

Update(ctx, src, len, lost) ==
  LET mask == {i \in Lanes : len[i] # 0}
      n    == FillTakes(ctx, len)
      c1   == Buffered(ctx, src, n, lost)
      full == {i \in Lanes : c1[i].idx = SM3_MSG_BLOCK_SIZE}
      fill == IF full = {} THEN [i \in Lanes |-> 0] ELSE FillLens(full, n)
      c2   == Compressed(c1, [i \in Lanes |-> c1[i].buff], fill)
      c3   == [i \in Lanes |-> [c2[i] EXCEPT !.idx = IF fill[i] > 0 THEN 0 ELSE @]]
      rest == [i \in Lanes |-> (len[i] - n[i]) % SM3_MSG_BLOCK_SIZE]
      main == [i \in Lanes |-> len[i] - n[i] - rest[i]]
      c4   == Compressed(c3, [i \in Lanes |-> SubSeq(src[i], n[i] + 1, len[i])], main)
      end(i) == SubSeq(src[i], len[i] - rest[i] + 1, len[i])
  IN  [returned |-> mask = {} \/ (Completes(fill) /\ Completes(main)),
       ctx |-> IF mask = {} THEN ctx
               ELSE [i \in Lanes |->
                       [idx  |-> IF i \in mask THEN c4[i].idx + rest[i] ELSE ctx[i].idx,
                        len  |-> IF i \in mask THEN ctx[i].len + len[i] ELSE ctx[i].len,
                        buff |-> IF i \in Stores(rest)
                                 THEN CopyBlock(end(i), Zeros(SM3_MSG_BLOCK_SIZE), 0)
                                 ELSE c4[i].buff,
                        hash |-> c4[i].hash]]]

\* Lanes whose copying mask the mb8 form shifts by 64: undefined, nothing or all is copied.
ShiftedOut(ctx, len) ==
  {i \in Lanes : ~MB16 /\ FillTakes(ctx, len)[i] = SM3_MSG_BLOCK_SIZE}

-----------------------------------------------------------------------------
(* Final: the lanes taken are padded in a buffer of two blocks and         *)
(* compressed, and start anew.  The mb8 form pads the others as well, at   *)
(* length 0: the length field goes before the lane's buffer, to the end of *)
(* the one before it.                                                      *)

FinalLens(ctx, taken) ==
  [i \in Lanes |-> IF i \notin taken THEN 0
                   ELSE IF ctx[i].idx < SM3_MSG_BLOCK_SIZE - SM3_MSG_LEN_REPR
                        THEN SM3_MSG_BLOCK_SIZE ELSE 2 * SM3_MSG_BLOCK_SIZE]

\* The padded end of lane i's message, n bytes.
PaddedEnd(ctx, taken, i, n) ==
  LET c == ctx[i]
      overwritten == ~MB16 /\ i + 1 \in Lanes \ taken /\ n = 2 * SM3_MSG_BLOCK_SIZE
  IN  SubSeq(c.buff, 1, c.idx) \o << <<-1, -1>> >>
        \o Zeros(n - c.idx - 1 - SM3_MSG_LEN_REPR) \o LengthField(IF overwritten THEN 0 ELSE c.len)

Final(ctx, taken) ==
  LET lens == FinalLens(ctx, taken)
      ends == [i \in Lanes |-> IF i \in taken THEN PaddedEnd(ctx, taken, i, lens[i]) ELSE <<>>]
      done == Compressed(ctx, ends, lens)
  IN  [returned |-> Completes(lens),
       digests |-> [i \in taken |-> done[i].hash],
       ctx |-> [i \in Lanes |-> IF i \in taken THEN NewLane ELSE ctx[i]]]

-----------------------------------------------------------------------------
MbInit ==
  /\ mbCtx = [i \in Lanes |-> NewLane]
  /\ mbGiven = [i \in Lanes |-> 0]
  /\ mbOut = Did({}, <<>>)

sm3_init ==
  /\ mbCtx' = [i \in Lanes |-> NewLane]
  /\ mbGiven' = [i \in Lanes |-> 0]
  /\ mbOut' = Did(Lanes, <<>>)

sm3_update(len) ==
  /\ \A i \in Lanes : mbGiven[i] + len[i] <= MAX_LANE
  /\ \E lost \in SUBSET ShiftedOut(mbCtx, len) :
       LET u == Update(mbCtx, [i \in Lanes |-> Message(i, mbGiven[i], len[i])], len, lost)
       IN  /\ mbCtx' = u.ctx
           /\ mbOut' = [Did(Lanes, <<>>) EXCEPT !.returned = u.returned]
  /\ mbGiven' = [i \in Lanes |-> mbGiven[i] + len[i]]

sm3_final(taken) ==
  LET f == Final(mbCtx, taken)
  IN  /\ mbCtx' = f.ctx
      /\ mbOut' = [returned |-> f.returned, ok |-> Lanes,
                   digests |-> [i \in taken |-> [of |-> mbGiven[i], cells |-> f.digests[i]]]]
      /\ mbGiven' = [i \in Lanes |-> IF i \in taken THEN 0 ELSE mbGiven[i]]

\* In one call: the first lane with a message and no place for its digest has the
\* whole batch returned, the other lanes with an OK status.  The context is the call's
\* own; bound of the model: explored while the other is unused.
sm3_msg_digest(len, taken) ==
  LET bad == {i \in Lanes : len[i] # 0 /\ i \notin taken}
      u   == Update([i \in Lanes |-> NewLane], [i \in Lanes |-> Message(i, 0, len[i])], len, {})
      f   == Final(u.ctx, taken)
  IN  /\ mbCtx = [i \in Lanes |-> NewLane]
      /\ mbOut' = IF bad # {}
                  THEN Did(Lanes \ {CHOOSE i \in bad : \A j \in bad : i <= j}, <<>>)
                  ELSE [returned |-> u.returned /\ f.returned, ok |-> Lanes,
                        digests |-> [i \in taken |-> [of |-> len[i], cells |-> f.digests[i]]]]
      /\ UNCHANGED <<mbCtx, mbGiven>>

MbNext ==
  /\ mbOut.returned
  /\ \/ sm3_init
     \/ \E len \in [Lanes -> Lens] : sm3_update(len)
     \/ \E taken \in Takings : sm3_final(taken)
     \/ \E len \in [Lanes -> Lens], taken \in Takings : sm3_msg_digest(len, taken)

MbSpec == MbInit /\ [][MbNext]_mbVars

-----------------------------------------------------------------------------
(* Properties                                                              *)

\* Whatever is in the other lanes, every call returns, a lane holds the bytes it was
\* passed, none lost and none of another lane, and its digest is that of its message.
LanesIndependent ==
  /\ mbOut.returned
  /\ \A i \in Lanes :
       /\ mbCtx[i].hash \o SubSeq(mbCtx[i].buff, 1, mbCtx[i].idx) = Message(i, 0, mbGiven[i])
       /\ mbCtx[i].len = mbGiven[i]
  /\ \A i \in DOMAIN mbOut.digests :
       mbOut.digests[i].cells = Standard(Message(i, 0, mbOut.digests[i].of))
=============================================================================
