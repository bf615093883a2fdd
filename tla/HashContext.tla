---------------------------- MODULE HashContext -----------------------------
(***************************************************************************)
(* The hash context of ippsHash...  and ippsHash..._rmf and what the       *)
(* functions do to one, as operators on a record.  The two interfaces      *)
(* differ in where a context finds its attributes, here a record.          *)
(*                                                                         *)
(* The chaining value is symbolic: it is determined by the sequence of     *)
(* bytes compressed so far, so it is that sequence, always whole blocks.   *)
(* A digest is a block of atoms of its own.  The 64-bit words of the       *)
(* length are one symbolic byte each.                                      *)
(***************************************************************************)
EXTENDS Blocks

CONSTANTS
  Methods,   \* the hash algorithms: see IsMethod
  LO_MOD,    \* values of one of the two Ipp64u length words, 2^64
  BUFF_SIZE  \* MBS_HASH_MAX, bytes of the context's buffer

\* Attributes of an algorithm: bytes of a block, words of the length field,
\* bytes of the digest, and the largest message length in two words.
IsMethod(m) ==
  /\ m = [name |-> m.name, mbs |-> m.mbs, mrl |-> m.mrl, hashLen |-> m.hashLen,
          maxLo |-> m.maxLo, maxHi |-> m.maxHi]
  /\ m.mrl \in {1, 2} /\ m.mbs \in (m.mrl + 1)..BUFF_SIZE
  /\ m.hashLen \in 1..BUFF_SIZE
  /\ m.maxLo \in 0..(LO_MOD - 1) /\ m.maxHi \in 0..(LO_MOD - 1)

ASSUME HashAssumption ==
  /\ LO_MOD \in Nat /\ LO_MOD >= 16 /\ LO_MOD % 16 = 0
  /\ BUFF_SIZE \in Nat
  /\ \A m \in Methods : IsMethod(m)

-----------------------------------------------------------------------------
\* The digest of a chaining value, the first n bytes of it.
hashOctStr(m, hash, n) == [j \in 1..n |-> {<<"md", m.name, hash, j>>}]

\* LSL64(lenHi,3) | LSR64(lenLo,63-3): the OR of a multiple of 8 and a number below 16.
HiBits(lenLo, lenHi) ==
  LET hi == (lenHi * 8) % LO_MOD
      lo == lenLo \div (LO_MOD \div 16)
  IN  IF lo >= 8 /\ (hi \div 8) % 2 = 1 THEN hi + lo - 8 ELSE hi + lo

\* The length in bits that ends a padded message.
msgLenRep(m, lenLo, lenHi) ==
  LET lo == {<<"len", (lenLo * 8) % LO_MOD>>}
  IN  IF m.mrl = 1 THEN <<lo>> ELSE << {<<"len", HiBits(lenLo, lenHi)>>}, lo >>

\* Mutant: a rest that leaves no room for the 0x80 byte is padded in one block.
BufferLen_Mutant(m, inpLen) == IF inpLen <= m.mbs - m.mrl THEN m.mbs ELSE 2 * m.mbs

\* The local buffer takes one block, or two if the rest leaves no room.
BufferLen(m, inpLen) == IF inpLen < m.mbs - m.mrl THEN m.mbs ELSE 2 * m.mbs

\* Pad the rest inp of the message and complete the hash computation.
Finalize(m, hash, inp, lenLo, lenHi) ==
  LET zeros == BufferLen(m, Len(inp)) - (Len(inp) + 1) - m.mrl
  IN  hash \o inp \o <<{<<"0x80">>}>> \o ZeroBlock(IF zeros < 0 THEN 0 ELSE zeros)
           \o msgLenRep(m, lenLo, lenHi)

-----------------------------------------------------------------------------
(* A context [idCtx, method, idx, buff, lenLo, lenHi, hash].               *)

HashInit(id, m) ==
  [idCtx |-> id, method |-> m, idx |-> 0, buff |-> ZeroBlock(BUFF_SIZE),
   lenLo |-> 0, lenHi |-> 0, hash |-> <<>>]

\* The message length after len more bytes; lenHi counts the wraps of lenLo.
AddLength(c, len) ==
  LET lo == (c.lenLo + len) % LO_MOD
  IN  [lo |-> lo, hi |-> IF lo < c.lenLo THEN (c.lenHi + 1) % LO_MOD ELSE c.lenHi]

\* Mutant: the low word is compared only when the high word is at its limit.
IsExceedMsgLen_Mutant(m, l) == l.hi > m.maxHi

IsExceedMsgLen(m, l) ==
  (l.hi + (IF l.lo > m.maxLo THEN 1 ELSE 0)) % LO_MOD > m.maxHi

\* Mutant: the buffer index is not reset when the block is complete.
HashUpdate_Mutant(c, src) ==
  LET mbs  == c.method.mbs
      head == IF c.idx # 0 THEN IPP_MIN(Len(src), mbs - c.idx) ELSE 0
      full == c.idx + head = mbs
      main == (Len(src) - head) - ((Len(src) - head) % mbs)
      rest == SubSeq(src, head + main + 1, Len(src))
      buff == CopyBlock(SubSeq(src, 1, head), c.buff, c.idx)
      l    == AddLength(c, Len(src))
  IN  [c EXCEPT !.hash = @ \o (IF full THEN SubSeq(buff, 1, mbs) ELSE <<>>)
                           \o SubSeq(src, head + 1, head + main),
                !.idx = c.idx + head + Len(rest),
                !.buff = CopyBlock(rest, buff, 0),
                !.lenLo = l.lo, !.lenHi = l.hi]

\* Complete a pending block, compress the whole blocks, keep the rest.
HashUpdate(c, src) ==
  LET mbs  == c.method.mbs
      head == IF c.idx # 0 THEN IPP_MIN(Len(src), mbs - c.idx) ELSE 0
      full == c.idx + head = mbs
      main == (Len(src) - head) - ((Len(src) - head) % mbs)
      rest == SubSeq(src, head + main + 1, Len(src))
      buff == CopyBlock(SubSeq(src, 1, head), c.buff, c.idx)
      l    == AddLength(c, Len(src))
  IN  [c EXCEPT !.hash = @ \o (IF full THEN SubSeq(buff, 1, mbs) ELSE <<>>)
                           \o SubSeq(src, head + 1, head + main),
                !.idx = (IF full THEN 0 ELSE c.idx + head) + Len(rest),
                !.buff = CopyBlock(rest, buff, 0),
                !.lenLo = l.lo, !.lenHi = l.hi]

\* The digest of what the context has absorbed, n bytes of it; the context is not changed.
HashTag(c, n) ==
  hashOctStr(c.method,
             Finalize(c.method, c.hash, SubSeq(c.buff, 1, c.idx), c.lenLo, c.lenHi), n)

\* What Final leaves: the context ready for the next message, the old bytes still in the buffer.
HashRestart(c) == [c EXCEPT !.idx = 0, !.lenLo = 0, !.lenHi = 0, !.hash = <<>>]

\* One-shot: the whole blocks and the padded rest, no context.
HashMessage(m, src) ==
  LET main == Len(src) - (Len(src) % m.mbs)
  IN  hashOctStr(m, Finalize(m, SubSeq(src, 1, main), SubSeq(src, main + 1, Len(src)),
                             Len(src) % LO_MOD, 0), m.hashLen)

-----------------------------------------------------------------------------
(* What a context stands for.                                              *)

\* The message: what was compressed and what waits in the buffer.
Absorbed(c) == c.hash \o SubSeq(c.buff, 1, c.idx)

\* The two words count the bytes of the message.
LengthCounted(c) == c.lenHi * LO_MOD + c.lenLo = Len(Absorbed(c)) % (LO_MOD * LO_MOD)
=============================================================================
