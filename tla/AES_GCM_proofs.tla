--------------------------- MODULE AES_GCM_proofs ---------------------------
(***************************************************************************)
(* Proofs about the AES-GCM context, for every block size, counter width,  *)
(* width of the length fields and set of call lengths.                     *)
(***************************************************************************)
EXTENDS AES_GCM, BlockLemmas, SequenceTheorems

-----------------------------------------------------------------------------
(* The constants.                                                          *)

\* What the assumption says of the sizes.
LEMMA Constants ==
  /\ BLOCK_SIZE \in Nat \ {0} /\ BLOCK_SIZE > 1
  /\ CTR_MOD \in Nat \ {0} /\ CTR_MOD > 2
  /\ MAX_TXT_LEN \in Nat
  /\ LEN_MOD \in Nat \ {0} /\ LEN_MOD > MAX_TXT_LEN
  /\ CallLens \subseteq Int
<1>1. CTR_MOD - 2 \in Nat /\ BLOCK_SIZE \in Nat
  BY GcmAssumption
<1>2. MAX_TXT_LEN \in Nat
  BY <1>1, SMT DEF MAX_TXT_LEN
<1> QED BY <1>2, GcmAssumption

-----------------------------------------------------------------------------
(* The lengths of the parts a chunk is cut into.                           *)

\* Head, whole blocks and rest: how much of the chunk each of them takes.
LEMMA ChunkParts ==
  ASSUME NEW b \in 0..(BLOCK_SIZE - 1), NEW n \in Nat
  PROVE  LET head == HeadLen(b, n)
             full == b + head = BLOCK_SIZE
             main == WholeBlocks(n - head)
             rest == n - head - main
         IN  /\ head \in 0..n /\ main \in 0..(n - head) /\ rest \in 0..(BLOCK_SIZE - 1)
             /\ main \div BLOCK_SIZE \in Nat
             /\ main = BLOCK_SIZE * (main \div BLOCK_SIZE)
             /\ main % BLOCK_SIZE = 0
             /\ (IF full THEN 0 ELSE b + head) + rest = (b + n) % BLOCK_SIZE
             /\ (IF full THEN 1 ELSE 0) + (main \div BLOCK_SIZE) = (b + n) \div BLOCK_SIZE
<1> USE Constants
<1> DEFINE head == HeadLen(b, n)
           full == b + head = BLOCK_SIZE
           main == WholeBlocks(n - head)
           rest == n - head - main
           q == main \div BLOCK_SIZE
           b2 == (IF full THEN 0 ELSE b + head) + rest
           q2 == (IF full THEN 1 ELSE 0) + q
<1>1. head \in 0..n
  BY DEF HeadLen, IPP_MIN
<1>2. /\ n - head \in Nat
      /\ (n - head) % BLOCK_SIZE \in 0..(BLOCK_SIZE - 1)
      /\ (n - head) \div BLOCK_SIZE \in Nat
  BY <1>1, DivMod, SMTT(60)
<1>3. /\ main \in Nat
      /\ main = BLOCK_SIZE * ((n - head) \div BLOCK_SIZE)
      /\ q = (n - head) \div BLOCK_SIZE
  BY <1>2, WholeBlocksDivide DEF WholeBlocks
<1>4. rest = (n - head) % BLOCK_SIZE /\ rest \in 0..(BLOCK_SIZE - 1) /\ main \in 0..(n - head)
  BY <1>2, <1>3 DEF WholeBlocks
<1>5. main % BLOCK_SIZE = 0
  <2>1. main = BLOCK_SIZE * q + 0 /\ q \in Nat /\ 0 \in 0..(BLOCK_SIZE - 1)
    BY <1>2, <1>3
  <2> QED BY <2>1, DivModOfSplit
<1>6. q2 \in Nat /\ b2 \in 0..(BLOCK_SIZE - 1) /\ b + n = BLOCK_SIZE * q2 + b2
  <2>1. q \in Nat /\ main = BLOCK_SIZE * q
    BY <1>2, <1>3
  <2>2. CASE b = 0
    <3>1. head = 0 /\ ~full
      BY <2>2 DEF HeadLen
    <3> QED BY <2>1, <2>2, <3>1, <1>4
  <2>3. CASE b # 0 /\ n < BLOCK_SIZE - b
    <3>1. head = n /\ ~full
      BY <2>3 DEF HeadLen, IPP_MIN
    <3>2. main = 0 /\ rest = 0
      BY <3>1, <1>4
    <3>3. q = 0
      BY <2>1, <3>2, OneBlock
    <3> HIDE DEF main, rest, head, q
    <3> QED BY <2>3, <3>1, <3>2, <3>3
  <2>4. CASE b # 0 /\ ~(n < BLOCK_SIZE - b)
    <3>1. head = BLOCK_SIZE - b /\ full
      BY <2>4 DEF HeadLen, IPP_MIN
    <3>2. n = (BLOCK_SIZE - b) + BLOCK_SIZE * q + rest
      BY <2>1, <3>1
    <3>3. BLOCK_SIZE * (1 + q) = BLOCK_SIZE + BLOCK_SIZE * q
      BY <2>1, SMT
    <3>4. q2 = 1 + q /\ b2 = rest
      BY <3>1, <1>4, <2>1
    <3> HIDE DEF main, rest, head, q, q2, b2
    <3> QED BY <2>1, <3>2, <3>3, <3>4, <1>4
  <2> QED BY <2>2, <2>3, <2>4
<1>7. (b + n) \div BLOCK_SIZE = q2 /\ (b + n) % BLOCK_SIZE = b2
  <2> HIDE DEF q2, b2
  <2> QED BY <1>6, DivModOfSplit
<1> QED BY <1>1, <1>2, <1>3, <1>4, <1>5, <1>6, <1>7

\* The new buffer length of Absorb depends on the lengths alone.
LEMMA AbsorbBufLen ==
  ASSUME NEW g, NEW b \in 0..(BLOCK_SIZE - 1), NEW S, NEW s \in Seq(S)
  PROVE  Absorb(g, b, s).bufLen = (b + Len(s)) % BLOCK_SIZE
<1> DEFINE n == Len(s)
           head == HeadLen(b, n)
           main == WholeBlocks(n - head)
           rest == SubSeq(s, head + main + 1, n)
<1>1. /\ head \in 0..n /\ main \in 0..(n - head) /\ n \in Nat
      /\ (IF b + head = BLOCK_SIZE THEN 0 ELSE b + head) + (n - head - main)
           = (b + n) % BLOCK_SIZE
  BY ChunkParts
<1>2. Len(rest) = n - head - main
  <2> HIDE DEF head, main
  <2>1. head + main + 1 \in 1..(n + 1)
    BY <1>1
  <2> QED BY <1>1, <2>1, SubSeqProperties DEF rest
<1>3. Absorb(g, b, s).bufLen = (IF b + head = BLOCK_SIZE THEN 0 ELSE b + head) + Len(rest)
  BY DEF Absorb
<1> QED BY <1>1, <1>2, <1>3

\* Counter mode moves the counter on by the number of blocks completed.
LEMMA CtrModeCounter ==
  ASSUME NEW c, c.bufLen \in 0..(BLOCK_SIZE - 1),
         c.counter = [hash |-> c.counter.hash, inc |-> c.counter.inc],
         c.counter.inc \in 0..(CTR_MOD - 1),
         NEW S, NEW s \in Seq(S)
  PROVE  CtrMode(c, s).counter
           = [hash |-> c.counter.hash,
              inc  |-> (c.counter.inc + ((c.bufLen + Len(s)) \div BLOCK_SIZE)) % CTR_MOD]
<1> DEFINE n == Len(s)
           head == HeadLen(c.bufLen, n)
           full == c.bufLen + head = BLOCK_SIZE
           k == WholeBlocks(n - head) \div BLOCK_SIZE
           ctr1 == IF full THEN IncrementCounter32(c.counter, 1) ELSE c.counter
<1>1. n \in Nat /\ k \in Nat
      /\ (IF full THEN 1 ELSE 0) + k = (c.bufLen + n) \div BLOCK_SIZE
  <2>1. n \in Nat
    OBVIOUS
  <2>2. \A b \in 0..(BLOCK_SIZE - 1), l \in Nat :
          LET h == HeadLen(b, l)
              j == WholeBlocks(l - h) \div BLOCK_SIZE
          IN  j \in Nat /\ (IF b + h = BLOCK_SIZE THEN 1 ELSE 0) + j = (b + l) \div BLOCK_SIZE
    BY ChunkParts
  <2> HIDE DEF n
  <2> QED BY <2>1, <2>2
<1>2. CtrMode(c, s).counter = IncrementCounter32(ctr1, k)
  BY DEF CtrMode
<1> HIDE DEF n, head, k, full
<1>3. CASE full
  <2>1. ctr1 = [hash |-> c.counter.hash, inc |-> (c.counter.inc + 1) % CTR_MOD]
    BY <1>3 DEF IncrementCounter32
  <2>2. IncrementCounter32(ctr1, k)
          = [hash |-> c.counter.hash, inc |-> (((c.counter.inc + 1) % CTR_MOD) + k) % CTR_MOD]
    BY <2>1 DEF IncrementCounter32
  <2>3. (((c.counter.inc + 1) % CTR_MOD) + k) % CTR_MOD = ((c.counter.inc + 1) + k) % CTR_MOD
    BY <1>1, Constants, ModOfSum, c.counter.inc + 1 \in Nat
  <2>4. (c.counter.inc + 1) + k = c.counter.inc + ((c.bufLen + n) \div BLOCK_SIZE)
    BY <1>1, <1>3, SMTT(60)
  <2> QED BY <1>2, <2>2, <2>3, <2>4 DEF n
<1>4. CASE ~full
  <2>1. IncrementCounter32(c.counter, k)
          = [hash |-> c.counter.hash, inc |-> (c.counter.inc + k) % CTR_MOD]
    BY DEF IncrementCounter32
  <2>2. k = (c.bufLen + n) \div BLOCK_SIZE
    BY <1>1, <1>4
  <2> QED BY <1>2, <1>4, <2>1, <2>2 DEF n
<1> QED BY <1>3, <1>4

-----------------------------------------------------------------------------
(* The inductive invariant.                                                *)

\* The records have the fields of the C structure and nothing else.
Fields(c) ==
  c = [idCtx |-> c.idCtx, ptrs |-> c.ptrs, state |-> c.state, ivLen |-> c.ivLen,
       aadLen |-> c.aadLen, txtLen |-> c.txtLen, bufLen |-> c.bufLen,
       counter |-> c.counter, ecounter |-> c.ecounter, ecounter0 |-> c.ecounter0,
       ghash |-> c.ghash]

Shape(c, m) ==
  /\ Fields(c)
  /\ c.counter = [hash |-> c.counter.hash, inc |-> c.counter.inc]
  /\ m = [iv |-> m.iv, aad |-> m.aad, txt |-> m.txt]
  /\ m.iv \in Nat /\ m.aad \in Nat /\ m.txt \in Seq({"Encrypt", "Decrypt"})

\* A phase that has not begun has seen no data: what the phase changes, which
\* set the length of the next phase to zero, rely on.
Phases(c, m) ==
  \/ c.state = "GcmInit" /\ m.iv = 0 /\ m.aad = 0 /\ m.txt = <<>>
  \/ c.state = "GcmIVprocessing" /\ m.aad = 0 /\ m.txt = <<>>
  \/ c.state = "GcmAADprocessing" /\ m.txt = <<>>
  \/ c.state = "GcmTXTprocessing"

\* The buffered bytes are those of the current phase.
Buffered(c, m) ==
  c.bufLen = CASE c.state = "GcmInit" -> 0
               [] c.state = "GcmIVprocessing" -> m.iv % BLOCK_SIZE
               [] c.state = "GcmAADprocessing" -> m.aad % BLOCK_SIZE
               [] c.state = "GcmTXTprocessing" -> Len(m.txt) % BLOCK_SIZE

Lengths(c, m) ==
  /\ c.ivLen = m.iv % LEN_MOD
  /\ c.aadLen = m.aad % LEN_MOD
  /\ c.txtLen = Len(m.txt)
  /\ Len(m.txt) <= MAX_TXT_LEN

\* The counter is at block 0 until the text begins, then at the block in use.
Counter(c, m) ==
  c.counter.inc = IF c.state = "GcmTXTprocessing"
                  THEN 1 + (Len(m.txt) \div BLOCK_SIZE) ELSE 0

Good(c, m) ==
  Shape(c, m) /\ Phases(c, m) /\ Buffered(c, m) /\ Lengths(c, m) /\ Counter(c, m)

IInv ==
  /\ Good(ctx, msg)
  /\ addr \in Addrs /\ ready \in BOOLEAN
  /\ ctx.idCtx \in Addrs \union {"none"} /\ ctx.ptrs \in Addrs \union {"none"}
  /\ ready => ctx.ptrs = ctx.idCtx

\* The text never has so many blocks that the block in use is numbered CTR_MOD.
LEMMA BlocksBelowCounter ==
  ASSUME NEW n \in 0..MAX_TXT_LEN
  PROVE  n \div BLOCK_SIZE \in 0..(CTR_MOD - 2)
<1>1. n \in Nat /\ MAX_TXT_LEN = BLOCK_SIZE * (CTR_MOD - 2) /\ CTR_MOD - 2 \in Nat
  BY Constants, SMT DEF MAX_TXT_LEN
<1>2. n \div BLOCK_SIZE \in Nat /\ n = BLOCK_SIZE * (n \div BLOCK_SIZE) + (n % BLOCK_SIZE)
      /\ n % BLOCK_SIZE \in Nat
  BY <1>1, Constants, DivMod
<1>3. ASSUME n \div BLOCK_SIZE > CTR_MOD - 2
      PROVE  FALSE
  <2> DEFINE d == (n \div BLOCK_SIZE) - (CTR_MOD - 2)
  <2>1. d \in Nat \ {0}
    BY <1>1, <1>2, <1>3
  <2>2. BLOCK_SIZE * d >= BLOCK_SIZE
    BY <2>1, Constants, OneBlock
  <2>3. BLOCK_SIZE * d = BLOCK_SIZE * (n \div BLOCK_SIZE) - BLOCK_SIZE * (CTR_MOD - 2)
    BY <1>1, <1>2, Constants, SMT
  <2> HIDE DEF d
  <2> QED BY <1>1, <1>2, <2>2, <2>3, Constants
<1> QED BY <1>1, <1>2, <1>3

\* Remainders of Nat by the two moduli are in range.
LEMMA Remainders ==
  ASSUME NEW n \in Nat
  PROVE  n % LEN_MOD \in 0..(LEN_MOD - 1) /\ n % BLOCK_SIZE \in 0..(BLOCK_SIZE - 1)
  BY Constants, DivMod

\* In every phase the buffer holds less than a block, the counter is in range.
LEMMA GoodBounds ==
  ASSUME NEW c, NEW m, Good(c, m)
  PROVE  /\ c.bufLen \in 0..(BLOCK_SIZE - 1)
         /\ c.counter.inc \in 0..(CTR_MOD - 1)
         /\ Len(m.txt) \in 0..MAX_TXT_LEN
<1>1. m.iv \in Nat /\ m.aad \in Nat /\ Len(m.txt) \in 0..MAX_TXT_LEN
  BY Constants DEF Good, Shape, Lengths
<1>2. c.bufLen \in 0..(BLOCK_SIZE - 1)
  <2>1. /\ m.iv % BLOCK_SIZE \in 0..(BLOCK_SIZE - 1) /\ m.aad % BLOCK_SIZE \in 0..(BLOCK_SIZE - 1)
        /\ Len(m.txt) % BLOCK_SIZE \in 0..(BLOCK_SIZE - 1)
    <3>1. Len(m.txt) \in Nat
      BY <1>1
    <3> QED BY <1>1, <3>1, Remainders
  <2>2. \/ c.bufLen = 0 \/ c.bufLen = m.iv % BLOCK_SIZE
        \/ c.bufLen = m.aad % BLOCK_SIZE \/ c.bufLen = Len(m.txt) % BLOCK_SIZE
    BY DEF Good, Buffered, Phases
  <2>3. 0 \in 0..(BLOCK_SIZE - 1)
    BY Constants
  <2> QED BY <2>1, <2>2, <2>3
<1>3. c.counter.inc \in 0..(CTR_MOD - 1)
  <2> DEFINE q == Len(m.txt) \div BLOCK_SIZE
  <2>1. q \in 0..(CTR_MOD - 2)
    BY <1>1, BlocksBelowCounter
  <2>2. c.counter.inc = 1 + q \/ c.counter.inc = 0
    BY DEF Good, Counter
  <2> HIDE DEF q
  <2> QED BY <2>1, <2>2, Constants
<1> QED BY <1>1, <1>2, <1>3

\* The invariant gives the properties the runs check.
LEMMA InvariantImplies ==
  ASSUME IInv
  PROVE  TypeOK /\ LengthsAgree /\ CounterNeverRepeats /\ PointersCurrent
<1>1. /\ ctx.bufLen \in 0..(BLOCK_SIZE - 1) /\ ctx.counter.inc \in 0..(CTR_MOD - 1)
      /\ Len(msg.txt) \in 0..MAX_TXT_LEN
  BY GoodBounds DEF IInv
<1>2. /\ ctx.ivLen \in 0..(LEN_MOD - 1) /\ ctx.aadLen \in 0..(LEN_MOD - 1)
      /\ ctx.txtLen \in 0..MAX_TXT_LEN
  <2>1. msg.iv \in Nat /\ msg.aad \in Nat
    BY DEF IInv, Good, Shape
  <2>2. msg.iv % LEN_MOD \in 0..(LEN_MOD - 1) /\ msg.aad % LEN_MOD \in 0..(LEN_MOD - 1)
    BY <2>1, Remainders
  <2> QED BY <1>1, <2>2 DEF IInv, Good, Lengths
<1>4. TypeOK
  <2>1. ctx.state \in {"GcmInit", "GcmIVprocessing", "GcmAADprocessing", "GcmTXTprocessing"}
    BY DEF IInv, Good, Phases
  <2>2. msg.iv \in Nat /\ msg.aad \in Nat /\ msg.txt \in Seq({"Encrypt", "Decrypt"})
    BY DEF IInv, Good, Shape
  <2> QED BY <1>1, <1>2, <2>1, <2>2 DEF IInv, TypeOK
<1>5. LengthsAgree
  BY DEF IInv, Good, Buffered, Lengths, LengthsAgree
<1>6. CounterNeverRepeats
  <2> DEFINE q == Len(msg.txt) \div BLOCK_SIZE
  <2>1. q \in 0..(CTR_MOD - 2)
    BY <1>1, BlocksBelowCounter
  <2>2. ctx.state = "GcmTXTprocessing" => ctx.counter.inc = 1 + q
    BY DEF IInv, Good, Counter
  <2>3. (ctx.state = "GcmTXTprocessing" => ctx.counter.inc = 1 + q /\ ctx.counter.inc < CTR_MOD)
        => CounterNeverRepeats
    BY DEF CounterNeverRepeats
  <2> HIDE DEF q
  <2> QED BY <2>1, <2>2, <2>3, Constants
<1>7. PointersCurrent
  BY DEF IInv, PointersCurrent, VALID_ID
<1> QED BY <1>4, <1>5, <1>6, <1>7

-----------------------------------------------------------------------------
(* Each operation keeps the context in step with the message.              *)

\* The caller's bytes are a sequence of as many bytes as were passed.
LEMMA DataIsSeq ==
  ASSUME NEW kind, NEW first, NEW n \in Nat
  PROVE  \E S : Data(kind, first, n) \in Seq(S) /\ Len(Data(kind, first, n)) = n
<1> DEFINE S == {{<<kind, first + i>>} : i \in 1..n}
<1>1. Data(kind, first, n) \in [1..n -> S]
  BY DEF Data
<1>2. Data(kind, first, n) \in Seq(S) /\ Len(Data(kind, first, n)) = n
  BY <1>1
<1> QED BY <1>2

\* Reset: a context with nothing in it, at the address it had.
LEMMA ResetGood ==
  ASSUME NEW c
  PROVE  /\ Good(Reset(c), NoMsg)
         /\ Reset(c).idCtx = c.idCtx /\ Reset(c).ptrs = c.ptrs
<1> DEFINE r == Reset(c)
<1>1. /\ Fields(r) /\ r.idCtx = c.idCtx /\ r.ptrs = c.ptrs
      /\ r.state = "GcmInit" /\ r.ivLen = 0 /\ r.aadLen = 0 /\ r.txtLen = 0 /\ r.bufLen = 0
      /\ r.counter = [hash |-> EmptyHash, inc |-> 0]
  BY DEF Fields, Reset
<1>2. NoMsg.iv = 0 /\ NoMsg.aad = 0 /\ NoMsg.txt = <<>>
      /\ NoMsg = [iv |-> NoMsg.iv, aad |-> NoMsg.aad, txt |-> NoMsg.txt]
  BY DEF NoMsg
<1>3. Len(<<>>) = 0 /\ <<>> \in Seq({"Encrypt", "Decrypt"})
  OBVIOUS
<1>4. 0 % LEN_MOD = 0
  BY Constants, ModOfSmall
<1> HIDE DEF r
<1>5. Shape(r, NoMsg)
  BY <1>1, <1>2, <1>3 DEF Shape
<1>6. Phases(r, NoMsg) /\ Buffered(r, NoMsg) /\ Counter(r, NoMsg)
  BY <1>1, <1>2 DEF Phases, Buffered, Counter
<1>7. Lengths(r, NoMsg)
  BY <1>1, <1>2, <1>3, <1>4, Constants DEF Lengths
<1> QED BY <1>1, <1>5, <1>6, <1>7 DEF Good, r

\* ProcessIV: the IV grows by the bytes passed.
LEMMA IVGood ==
  ASSUME NEW c, NEW m, NEW n \in Nat, Good(c, m),
         c.state \in {"GcmInit", "GcmIVprocessing"}
  PROVE  LET r == ProcessIV(c, Data("iv", m.iv, n))
         IN  /\ Good(r, [m EXCEPT !.iv = @ + n])
             /\ r.idCtx = c.idCtx /\ r.ptrs = c.ptrs /\ r.state = "GcmIVprocessing"
<1> DEFINE s == Data("iv", m.iv, n)
           a == Absorb(c.counter.hash, c.bufLen, s)
           r == ProcessIV(c, s)
           m2 == [m EXCEPT !.iv = @ + n]
<1>1. Len(s) = n /\ \E S : s \in Seq(S)
  BY DataIsSeq
<1>2. a.bufLen = (c.bufLen + n) % BLOCK_SIZE
  BY <1>1, GoodBounds, AbsorbBufLen
<1>3. /\ Fields(c) /\ c.counter = [hash |-> c.counter.hash, inc |-> c.counter.inc]
      /\ m = [iv |-> m.iv, aad |-> m.aad, txt |-> m.txt]
      /\ m.iv \in Nat /\ m.txt \in Seq({"Encrypt", "Decrypt"})
      /\ m.aad = 0 /\ m.txt = <<>>
      /\ c.counter.inc = 0
  BY DEF Good, Shape, Phases, Counter
<1>4. /\ Fields(r) /\ r.idCtx = c.idCtx /\ r.ptrs = c.ptrs /\ r.state = "GcmIVprocessing"
      /\ r.ivLen = (c.ivLen + n) % LEN_MOD /\ r.aadLen = c.aadLen /\ r.txtLen = c.txtLen
      /\ r.bufLen = (c.bufLen + n) % BLOCK_SIZE
      /\ r.counter = [hash |-> a.hash, inc |-> 0]
  <2>1. r = [c EXCEPT !.state = "GcmIVprocessing", !.counter.hash = a.hash,
                      !.bufLen = a.bufLen, !.ivLen = (@ + Len(s)) % LEN_MOD]
    BY DEF ProcessIV
  <2> HIDE DEF s, a, r
  <2>2. Fields(r)
    BY <1>3, <2>1 DEF Fields
  <2> QED BY <2>1, <2>2, <1>1, <1>2, <1>3 DEF Fields
<1>5. m2 = [iv |-> m.iv + n, aad |-> 0, txt |-> <<>>]
  BY <1>3
<1>6. (c.bufLen + n) % BLOCK_SIZE = (m.iv + n) % BLOCK_SIZE
  <2>1. CASE c.state = "GcmInit"
    <3>1. c.bufLen = m.iv
      BY <2>1 DEF Good, Buffered, Phases
    <3> QED BY <3>1
  <2>2. CASE c.state = "GcmIVprocessing"
    <3>1. c.bufLen = m.iv % BLOCK_SIZE
      BY <2>2 DEF Good, Buffered
    <3> QED BY <1>3, <3>1, Constants, ModOfSum
  <2> QED BY <2>1, <2>2
<1>7. (c.ivLen + n) % LEN_MOD = (m.iv + n) % LEN_MOD
  <2>1. c.ivLen = m.iv % LEN_MOD
    BY DEF Good, Lengths
  <2> QED BY <1>3, <2>1, Constants, ModOfSum
<1>8. m.iv + n \in Nat
  BY <1>3
<1> HIDE DEF r, m2
<1>9. Shape(r, m2)
  BY <1>3, <1>4, <1>5, <1>8 DEF Shape
<1>10. Phases(r, m2) /\ Buffered(r, m2) /\ Counter(r, m2)
  BY <1>4, <1>5, <1>6 DEF Phases, Buffered, Counter
<1>11. Lengths(r, m2)
  <2>1. c.aadLen = m.aad % LEN_MOD /\ c.txtLen = Len(m.txt) /\ Len(m.txt) <= MAX_TXT_LEN
    BY DEF Good, Lengths
  <2> QED BY <2>1, <1>3, <1>4, <1>5, <1>7 DEF Lengths
<1> QED BY <1>4, <1>9, <1>10, <1>11 DEF Good, r, m2, s

\* The end of the IV: the AAD phase begins with an empty buffer at block 0.
LEMMA FinishIVGood ==
  ASSUME NEW c, NEW m, Good(c, m), c.state = "GcmIVprocessing"
  PROVE  LET r == FinishIV(c)
         IN  /\ Good(r, m)
             /\ r.idCtx = c.idCtx /\ r.ptrs = c.ptrs /\ r.state = "GcmAADprocessing"
<1> DEFINE j0 == InitialCounter(c)
           r == FinishIV(c)
<1>1. /\ Fields(c) /\ c.counter = [hash |-> c.counter.hash, inc |-> c.counter.inc]
      /\ m.aad = 0 /\ m.txt = <<>> /\ c.counter.inc = 0
  BY DEF Good, Shape, Phases, Counter
<1>2. j0 = [hash |-> j0.hash, inc |-> j0.inc] /\ j0.inc = 0
  <2>1. \A h, e : [c.counter EXCEPT !.hash.acc = e] = [hash |-> [c.counter.hash EXCEPT !.acc = e], inc |-> 0]
                  /\ [c.counter EXCEPT !.hash = h] = [hash |-> h, inc |-> 0]
    BY <1>1
  <2>2. \/ \E e : j0 = [c.counter EXCEPT !.hash.acc = e]
        \/ \E h : j0 = [c.counter EXCEPT !.hash = h]
    <3>1. CASE c.ivLen = CTR_POS
      <4>1. j0 = [c.counter EXCEPT !.hash.acc =
                    CopyBlock([j \in 1..(BLOCK_SIZE - CTR_POS) |->
                      IF j = BLOCK_SIZE - CTR_POS THEN {<<"one">>} ELSE {}], @, CTR_POS)]
        BY <3>1 DEF InitialCounter
      <4> QED BY <4>1
    <3>2. CASE c.ivLen # CTR_POS
      <4>1. \E g : j0 = [c.counter EXCEPT !.hash =
                    hashFun([g EXCEPT !.acc = XorBlock(<<{<<"bits", (c.ivLen * BYTESIZE) % LEN_MOD>>}>>, @, BLOCK_SIZE - 1)])]
        BY <3>2, Zenon DEF InitialCounter
      <4> QED BY <4>1
    <3> QED BY <3>1, <3>2
  <2> HIDE DEF j0
  <2> QED BY <2>1, <2>2
<1>3. /\ Fields(r) /\ r.idCtx = c.idCtx /\ r.ptrs = c.ptrs /\ r.state = "GcmAADprocessing"
      /\ r.ivLen = c.ivLen /\ r.aadLen = 0 /\ r.txtLen = c.txtLen
      /\ r.bufLen = 0 /\ r.counter = j0
  <2>1. r = [c EXCEPT !.counter = j0, !.ecounter0 = E(j0),
                      !.state = "GcmAADprocessing", !.aadLen = 0, !.bufLen = 0]
    BY DEF FinishIV
  <2> HIDE DEF j0, r
  <2>2. Fields(r)
    BY <1>1, <2>1 DEF Fields
  <2> QED BY <1>1, <2>1, <2>2 DEF Fields
<1>4. 0 % LEN_MOD = 0 /\ 0 % BLOCK_SIZE = 0
  BY Constants, ModOfSmall
<1> HIDE DEF r, j0
<1>5. Shape(r, m)
  BY <1>2, <1>3 DEF Good, Shape
<1>6. Phases(r, m) /\ Buffered(r, m) /\ Counter(r, m)
  BY <1>1, <1>2, <1>3, <1>4 DEF Phases, Buffered, Counter
<1>7. Lengths(r, m)
  BY <1>1, <1>3, <1>4 DEF Good, Lengths
<1> QED BY <1>3, <1>5, <1>6, <1>7 DEF Good, r

\* ProcessAAD: the IV is finished if need be, the AAD grows by the bytes passed.
LEMMA AADGood ==
  ASSUME NEW c, NEW m, NEW n \in Nat, Good(c, m),
         c.state \in {"GcmIVprocessing", "GcmAADprocessing"}
  PROVE  LET r == ProcessAAD(c, Data("aad", m.aad, n))
         IN  /\ Good(r, [m EXCEPT !.aad = @ + n])
             /\ r.idCtx = c.idCtx /\ r.ptrs = c.ptrs
<1> DEFINE s == Data("aad", m.aad, n)
           c1 == IF c.state = "GcmIVprocessing" THEN FinishIV(c) ELSE c
           a == Absorb(c1.ghash, c1.bufLen, s)
           r == ProcessAAD(c, s)
           m2 == [m EXCEPT !.aad = @ + n]
<1>1. Len(s) = n /\ \E S : s \in Seq(S)
  BY DataIsSeq
<1>2. /\ Good(c1, m) /\ c1.idCtx = c.idCtx /\ c1.ptrs = c.ptrs
      /\ c1.state = "GcmAADprocessing"
  BY FinishIVGood
<1>3. r = [c1 EXCEPT !.ghash = a.hash, !.bufLen = a.bufLen, !.aadLen = (@ + Len(s)) % LEN_MOD]
  BY DEF ProcessAAD
<1> HIDE DEF s, c1, r
<1>4. a.bufLen = (c1.bufLen + n) % BLOCK_SIZE
  BY <1>1, <1>2, GoodBounds, AbsorbBufLen
<1> HIDE DEF a
<1>5. /\ Fields(c1) /\ c1.counter = [hash |-> c1.counter.hash, inc |-> c1.counter.inc]
      /\ m = [iv |-> m.iv, aad |-> m.aad, txt |-> m.txt]
      /\ m.iv \in Nat /\ m.aad \in Nat /\ m.txt \in Seq({"Encrypt", "Decrypt"})
      /\ m.txt = <<>> /\ c1.counter.inc = 0
  BY <1>2 DEF Good, Shape, Phases, Counter
<1>6. /\ Fields(r) /\ r.idCtx = c.idCtx /\ r.ptrs = c.ptrs /\ r.state = "GcmAADprocessing"
      /\ r.ivLen = c1.ivLen /\ r.aadLen = (c1.aadLen + n) % LEN_MOD /\ r.txtLen = c1.txtLen
      /\ r.bufLen = (c1.bufLen + n) % BLOCK_SIZE /\ r.counter = c1.counter
  <2>1. Fields(r)
    BY <1>3, <1>5 DEF Fields
  <2> QED BY <1>1, <1>2, <1>3, <1>4, <1>5, <2>1 DEF Fields
<1>7. m2 = [iv |-> m.iv, aad |-> m.aad + n, txt |-> <<>>]
  BY <1>5
<1>8. (c1.bufLen + n) % BLOCK_SIZE = (m.aad + n) % BLOCK_SIZE
  <2>1. c1.bufLen = m.aad % BLOCK_SIZE
    BY <1>2 DEF Good, Buffered
  <2> QED BY <1>5, <2>1, Constants, ModOfSum
<1>9. (c1.aadLen + n) % LEN_MOD = (m.aad + n) % LEN_MOD
  <2>1. c1.aadLen = m.aad % LEN_MOD
    BY <1>2 DEF Good, Lengths
  <2> QED BY <1>5, <2>1, Constants, ModOfSum
<1>10. m.aad + n \in Nat
  BY <1>5
<1> HIDE DEF m2
<1>11. Shape(r, m2)
  BY <1>5, <1>6, <1>7, <1>10 DEF Shape
<1>12. Phases(r, m2) /\ Buffered(r, m2) /\ Counter(r, m2)
  BY <1>5, <1>6, <1>7, <1>8 DEF Phases, Buffered, Counter
<1>13. Lengths(r, m2)
  <2>1. c1.ivLen = m.iv % LEN_MOD /\ c1.txtLen = Len(m.txt) /\ Len(m.txt) <= MAX_TXT_LEN
    BY <1>2 DEF Good, Lengths
  <2> QED BY <2>1, <1>5, <1>6, <1>7, <1>9 DEF Lengths
<1> QED BY <1>6, <1>11, <1>12, <1>13 DEF Good, r, m2, s

\* The end of the AAD: the text begins with an empty buffer at block 1.
LEMMA FinishAADGood ==
  ASSUME NEW c, NEW m, Good(c, m), c.state = "GcmAADprocessing"
  PROVE  LET r == FinishAAD(c)
         IN  /\ Good(r, m)
             /\ r.idCtx = c.idCtx /\ r.ptrs = c.ptrs /\ r.state = "GcmTXTprocessing"
<1> DEFINE r == FinishAAD(c)
<1>1. /\ Fields(c) /\ c.counter = [hash |-> c.counter.hash, inc |-> c.counter.inc]
      /\ m.txt = <<>> /\ c.counter.inc = 0
  BY DEF Good, Shape, Phases, Counter
<1>2. IncrementCounter32(c.counter, 1) = [hash |-> c.counter.hash, inc |-> 1]
  <2>1. (0 + 1) % CTR_MOD = 1
    BY Constants, ModOfSmall
  <2> QED BY <1>1, <2>1 DEF IncrementCounter32
<1>3. /\ Fields(r) /\ r.idCtx = c.idCtx /\ r.ptrs = c.ptrs /\ r.state = "GcmTXTprocessing"
      /\ r.ivLen = c.ivLen /\ r.aadLen = c.aadLen /\ r.txtLen = 0 /\ r.bufLen = 0
      /\ r.counter = [hash |-> c.counter.hash, inc |-> 1]
  <2>1. PICK g, e : r = [c EXCEPT !.ghash = g, !.counter = [hash |-> c.counter.hash, inc |-> 1],
                                  !.ecounter = e, !.state = "GcmTXTprocessing",
                                  !.txtLen = 0, !.bufLen = 0]
    BY <1>2 DEF FinishAAD
  <2> HIDE DEF r
  <2>2. Fields(r)
    BY <1>1, <2>1 DEF Fields
  <2> QED BY <1>1, <2>1, <2>2 DEF Fields
<1>4. Len(m.txt) = 0 /\ 0 % BLOCK_SIZE = 0 /\ 0 \div BLOCK_SIZE = 0
  <2>1. 0 = BLOCK_SIZE * 0 + 0 /\ 0 \in 0..(BLOCK_SIZE - 1)
    BY Constants
  <2> QED BY <1>1, <2>1, Constants, DivModOfSplit
<1> HIDE DEF r
<1>5. Shape(r, m)
  BY <1>3 DEF Good, Shape
<1>6. Phases(r, m) /\ Buffered(r, m) /\ Counter(r, m)
  BY <1>3, <1>4 DEF Phases, Buffered, Counter
<1>7. Lengths(r, m)
  BY <1>3, <1>4 DEF Good, Lengths
<1> QED BY <1>3, <1>5, <1>6, <1>7 DEF Good, r

\* Encrypt and Decrypt: the AAD is finished if need be, the text grows by the
\* bytes passed, the counter by the blocks they complete, and never wraps.
LEMMA TextGood ==
  ASSUME NEW c, NEW m, NEW n \in Nat, NEW dir \in {"Encrypt", "Decrypt"}, Good(c, m),
         c.state \in {"GcmAADprocessing", "GcmTXTprocessing"},
         Len(m.txt) + n <= MAX_TXT_LEN
  PROVE  LET r == ProcessText(c, Data("txt", Len(m.txt), n), dir).ctx
         IN  /\ Good(r, [m EXCEPT !.txt = @ \o [i \in 1..n |-> dir]])
             /\ r.idCtx = c.idCtx /\ r.ptrs = c.ptrs
<1> DEFINE s == Data("txt", Len(m.txt), n)
           c1 == IF c.state = "GcmAADprocessing" THEN FinishAAD(c) ELSE c
           t == CtrMode(c1, s)
           a == Absorb(c1.ghash, c1.bufLen, IF dir = "Encrypt" THEN t.dst ELSE s)
           r == ProcessText(c, s, dir).ctx
           f == [i \in 1..n |-> dir]
           m2 == [m EXCEPT !.txt = @ \o f]
           l == Len(m.txt)
<1>1. s \in Seq({s[i] : i \in 1..n}) /\ Len(s) = n
  <2>1. \E S : s \in Seq(S) /\ Len(s) = n
    BY DataIsSeq
  <2> HIDE DEF s
  <2> QED BY <2>1
<1>2. t.dst \in Seq({t.dst[i] : i \in 1..n}) /\ Len(t.dst) = n
  <2>1. t.dst = [i \in DOMAIN s |-> t.dst[i]] /\ DOMAIN s = 1..n
    <3>1. DOMAIN s = 1..n
      <4> HIDE DEF s
      <4> QED BY <1>1
    <3>2. \E ks : t.dst = [i \in DOMAIN s |-> Xor(s[i], ks[i])]
      BY ZenonT(60) DEF CtrMode
    <3> HIDE DEF t, s
    <3> QED BY <3>1, <3>2
  <2> HIDE DEF t, s
  <2> QED BY <2>1
<1>3. /\ Good(c1, m) /\ c1.idCtx = c.idCtx /\ c1.ptrs = c.ptrs
      /\ c1.state = "GcmTXTprocessing"
  BY FinishAADGood
<1>4. r = [c1 EXCEPT !.ghash = a.hash, !.bufLen = a.bufLen, !.counter = t.counter,
                     !.ecounter = t.ecounter, !.txtLen = (@ + Len(s)) % LEN_MOD]
  BY DEF ProcessText
<1>5. /\ Fields(c1) /\ c1.counter = [hash |-> c1.counter.hash, inc |-> c1.counter.inc]
      /\ m = [iv |-> m.iv, aad |-> m.aad, txt |-> m.txt]
      /\ m.iv \in Nat /\ m.aad \in Nat /\ m.txt \in Seq({"Encrypt", "Decrypt"})
      /\ c1.txtLen = l /\ l \in Nat /\ l + n \in 0..MAX_TXT_LEN
  <2> HIDE DEF c1
  <2> QED BY <1>3 DEF Good, Shape, Lengths
<1>6. /\ c1.bufLen \in 0..(BLOCK_SIZE - 1) /\ c1.counter.inc \in 0..(CTR_MOD - 1)
  BY <1>3, GoodBounds
<1> HIDE DEF s, c1, r, l, m2
<1>7. a.bufLen = (c1.bufLen + n) % BLOCK_SIZE
  <2> DEFINE x == IF dir = "Encrypt" THEN t.dst ELSE s
  <2>1. \E S : x \in Seq(S) /\ Len(x) = n
    <3>1. \E S : t.dst \in Seq(S) /\ Len(t.dst) = n
      <4> HIDE DEF t
      <4> QED BY <1>2
    <3>2. \E S : s \in Seq(S) /\ Len(s) = n
      BY <1>1
    <3> HIDE DEF t
    <3> QED BY <3>1, <3>2
  <2>2. a = Absorb(c1.ghash, c1.bufLen, x)
    OBVIOUS
  <2> HIDE DEF x, a
  <2> QED BY <2>1, <2>2, <1>6, AbsorbBufLen
<1>8. t.counter = [hash |-> c1.counter.hash,
                   inc |-> (c1.counter.inc + ((c1.bufLen + n) \div BLOCK_SIZE)) % CTR_MOD]
  BY <1>1, <1>5, <1>6, CtrModeCounter
<1> HIDE DEF a, t
<1>9. /\ c1.bufLen = l % BLOCK_SIZE /\ c1.counter.inc = 1 + (l \div BLOCK_SIZE)
  BY <1>3 DEF Good, Buffered, Counter, l
<1>10. (c1.bufLen + n) % BLOCK_SIZE = (l + n) % BLOCK_SIZE
  BY <1>5, <1>9, Constants, ModOfSum
<1>11. (c1.counter.inc + ((c1.bufLen + n) \div BLOCK_SIZE)) % CTR_MOD
         = 1 + ((l + n) \div BLOCK_SIZE)
  <2> DEFINE q == l \div BLOCK_SIZE
             k == (c1.bufLen + n) \div BLOCK_SIZE
             rest == (c1.bufLen + n) % BLOCK_SIZE
  <2>1. q \in Nat /\ l = BLOCK_SIZE * q + c1.bufLen
    BY <1>5, <1>9, Constants, DivMod
  <2>2. c1.bufLen + n \in Nat
    BY <1>6, Constants
  <2>3. k \in Nat /\ rest \in 0..(BLOCK_SIZE - 1) /\ c1.bufLen + n = BLOCK_SIZE * k + rest
    BY <2>2, Constants, DivMod
  <2> HIDE DEF q, k, rest
  <2>4. l + n = BLOCK_SIZE * (q + k) + rest /\ q + k \in Nat
    <3>1. BLOCK_SIZE * (q + k) = BLOCK_SIZE * q + BLOCK_SIZE * k
      BY <2>1, <2>3, Constants, SMT
    <3> DEFINE u == BLOCK_SIZE * q
               v == BLOCK_SIZE * k
               w == BLOCK_SIZE * (q + k)
    <3>2. u \in Int /\ v \in Int /\ w = u + v
      BY <2>1, <2>3, <3>1, Constants, SMT
    <3>3. l = u + c1.bufLen /\ c1.bufLen + n = v + rest
      BY <2>1, <2>3
    <3>4. c1.bufLen \in Nat /\ rest \in Nat
      BY <1>6, <2>3, Constants
    <3> HIDE DEF u, v, w
    <3>5. l + n = w + rest
      BY <3>2, <3>3, <3>4
    <3> QED BY <3>5, <2>1, <2>3 DEF w
  <2>5. (l + n) \div BLOCK_SIZE = q + k
    BY <2>3, <2>4, Constants, DivModOfSplit
  <2>6. q + k \in 0..(CTR_MOD - 2)
    BY <2>5, <1>5, BlocksBelowCounter
  <2>7. c1.counter.inc + k = 1 + (q + k)
    BY <1>9, <2>1, <2>3 DEF q
  <2>8. 1 + (q + k) \in 0..(CTR_MOD - 1)
    BY <2>6, Constants
  <2>9. (1 + (q + k)) % CTR_MOD = 1 + (q + k)
    BY <2>8, Constants, ModOfSmall
  <2> QED BY <2>5, <2>7, <2>9 DEF k
<1>12. (l + n) % LEN_MOD = l + n
  <2> DEFINE x == l + n
  <2>1. x \in 0..(LEN_MOD - 1) /\ LEN_MOD \in Nat \ {0}
    <3>1. x \in 0..MAX_TXT_LEN
      BY <1>5
    <3>2. MAX_TXT_LEN \in Nat /\ LEN_MOD \in Nat \ {0} /\ LEN_MOD > MAX_TXT_LEN
      BY Constants
    <3> HIDE DEF x
    <3> QED BY <3>1, <3>2
  <2> HIDE DEF x
  <2>2. x % LEN_MOD = x
    BY <2>1, ModOfSmall
  <2> QED BY <2>2 DEF x
<1>13. /\ Fields(r) /\ r.idCtx = c.idCtx /\ r.ptrs = c.ptrs /\ r.state = "GcmTXTprocessing"
       /\ r.ivLen = c1.ivLen /\ r.aadLen = c1.aadLen /\ r.txtLen = l + n
       /\ r.bufLen = (l + n) % BLOCK_SIZE
       /\ r.counter = [hash |-> c1.counter.hash, inc |-> 1 + ((l + n) \div BLOCK_SIZE)]
  <2>1. Fields(r)
    BY <1>4, <1>5 DEF Fields
  <2> QED BY <1>1, <1>3, <1>4, <1>5, <1>7, <1>8, <1>10, <1>11, <1>12, <2>1 DEF Fields
<1>14. f \in Seq({"Encrypt", "Decrypt"}) /\ Len(f) = n
  OBVIOUS
<1> HIDE DEF f
<1>15. /\ m2 = [iv |-> m.iv, aad |-> m.aad, txt |-> m.txt \o f]
       /\ m.txt \o f \in Seq({"Encrypt", "Decrypt"})
       /\ Len(m.txt \o f) = l + n
  <2>1. m2 = [iv |-> m.iv, aad |-> m.aad, txt |-> m.txt \o f]
    <3>1. ASSUME NEW iv, NEW aad, NEW txt, NEW new
          PROVE  [[iv |-> iv, aad |-> aad, txt |-> txt] EXCEPT !.txt = new]
                   = [iv |-> iv, aad |-> aad, txt |-> new]
      OBVIOUS
    <3>2. m2 = [m EXCEPT !.txt = m.txt \o f]
      BY DEF m2
    <3>3. m = [iv |-> m.iv, aad |-> m.aad, txt |-> m.txt]
      BY <1>5
    <3> QED BY <3>1, <3>2, <3>3
  <2> QED BY <1>5, <1>14, <2>1, ConcatProperties DEF l
<1>16. Shape(r, m2)
  BY <1>5, <1>13, <1>15 DEF Shape
<1>17. Phases(r, m2) /\ Buffered(r, m2) /\ Counter(r, m2)
  BY <1>13, <1>15 DEF Phases, Buffered, Counter
<1>18. Lengths(r, m2)
  BY <1>3, <1>5, <1>13, <1>15 DEF Good, Lengths
<1> QED BY <1>13, <1>16, <1>17, <1>18 DEF Good, r, m2, s, f

-----------------------------------------------------------------------------
(* The theorems.                                                           *)

\* The invariant holds at first.
LEMMA InitInvariant == Init => IInv
<1> SUFFICES ASSUME Init PROVE IInv
  OBVIOUS
<1> DEFINE c == [idCtx |-> "none", ptrs |-> "none"]
<1>1. ctx = Reset(c) /\ msg = NoMsg /\ addr \in Addrs /\ ready = FALSE
  BY DEF Init
<1>2. c.idCtx = "none" /\ c.ptrs = "none"
  OBVIOUS
<1> HIDE DEF c
<1>3. Good(ctx, msg) /\ ctx.idCtx = "none" /\ ctx.ptrs = "none"
  BY <1>1, <1>2, ResetGood
<1> QED BY <1>1, <1>3 DEF IInv

\* A step that leaves the two addresses inside the context alone.
LEMMA SameAddresses ==
  ASSUME IInv, Good(ctx', msg'), UNCHANGED <<addr, ready>>,
         ctx'.idCtx = ctx.idCtx, ctx'.ptrs = ctx.ptrs
  PROVE  IInv'
  BY DEF IInv

\* What the parameter checks guarantee to the code behind them.
LEMMA Accepted ==
  ASSUME NEW c, NEW hasPtr \in BOOLEAN, NEW len \in Int
  PROVE  /\ IVStatus(c, hasPtr, len) = "ippStsNoErr" =>
              /\ c.state \in {"GcmInit", "GcmIVprocessing"}
              /\ len \in Nat
         /\ AADStatus(c, hasPtr, len) = "ippStsNoErr" =>
              /\ c.state \in {"GcmIVprocessing", "GcmAADprocessing"}
              /\ len \in Nat
         /\ TextStatus(c, hasPtr, len) = "ippStsNoErr" =>
              /\ c.state \in {"GcmAADprocessing", "GcmTXTprocessing"}
              /\ len \in Nat
              /\ ~(c.txtLen > MAX_TXT_LEN - len)
<1>1. IVStatus(c, hasPtr, len) = "ippStsNoErr" =>
        c.state \in {"GcmInit", "GcmIVprocessing"} /\ ~(len < 0)
  BY DEF IVStatus
<1>2. AADStatus(c, hasPtr, len) = "ippStsNoErr" =>
        c.state \in {"GcmIVprocessing", "GcmAADprocessing"} /\ ~(len < 0)
  BY DEF AADStatus
<1>3. TextStatus(c, hasPtr, len) = "ippStsNoErr" =>
        /\ c.state \in {"GcmAADprocessing", "GcmTXTprocessing"}
        /\ ~(len < 0) /\ ~(c.txtLen > MAX_TXT_LEN - len)
  BY DEF TextStatus
<1>4. ~(len < 0) => len \in Nat
  OBVIOUS
<1> QED BY <1>1, <1>2, <1>3, <1>4

\* Init begins a new context, or leaves one that is not ready.
LEMMA InitCallInvariant ==
  ASSUME IInv, NEW keyLenOk \in BOOLEAN, GCMInit(keyLenOk)
  PROVE  IInv'
<1> DEFINE c0 == [ctx EXCEPT !.idCtx = addr]
           c == Reset(c0)
           c2 == [c EXCEPT !.ptrs = addr]
<1>1. c0.idCtx = addr /\ c0.ptrs = ctx.ptrs
  BY DEF IInv, Good, Shape, Fields
<1>2. Good(c, NoMsg) /\ c.idCtx = addr /\ c.ptrs = ctx.ptrs
  <2> HIDE DEF c0
  <2> QED BY <1>1, ResetGood
<1>3. /\ ctx' = IF keyLenOk THEN c2 ELSE c
      /\ msg' = NoMsg /\ ready' = keyLenOk /\ addr' = addr
  BY DEF GCMInit
<1> HIDE DEF c
<1>4. /\ Fields(c2) /\ c2.idCtx = addr /\ c2.ptrs = addr /\ c2.state = c.state
      /\ c2.ivLen = c.ivLen /\ c2.aadLen = c.aadLen /\ c2.txtLen = c.txtLen
      /\ c2.bufLen = c.bufLen /\ c2.counter = c.counter
  BY <1>2 DEF Good, Shape, Fields
<1> HIDE DEF c2
<1>5. Good(c2, NoMsg)
  BY <1>2, <1>4 DEF Good, Shape, Phases, Buffered, Lengths, Counter
<1> QED BY <1>2, <1>3, <1>4, <1>5 DEF IInv

\* A context that was moved and set up at its new address keeps it.
LEMMA ReinitInvariant ==
  ASSUME IInv, GCMReinit
  PROVE  IInv'
<1>1. /\ ctx' = [ctx EXCEPT !.idCtx = addr, !.ptrs = addr]
      /\ msg' = msg /\ ready' = ready /\ addr' = addr
  BY DEF GCMReinit
<1>2. /\ Fields(ctx') /\ ctx'.idCtx = addr /\ ctx'.ptrs = addr /\ ctx'.state = ctx.state
      /\ ctx'.ivLen = ctx.ivLen /\ ctx'.aadLen = ctx.aadLen /\ ctx'.txtLen = ctx.txtLen
      /\ ctx'.bufLen = ctx.bufLen /\ ctx'.counter = ctx.counter
  BY <1>1 DEF IInv, Good, Shape, Fields
<1>3. Good(ctx', msg')
  BY <1>1, <1>2 DEF IInv, Good, Shape, Phases, Buffered, Lengths, Counter
<1> QED BY <1>1, <1>2, <1>3 DEF IInv

\* A piece of the IV keeps it.
LEMMA IVInvariant ==
  ASSUME IInv, NEW hasPtr \in BOOLEAN, NEW len \in CallLens, GCMProcessIV(hasPtr, len)
  PROVE  IInv'
<1>1. len \in Int
  BY Constants
<1>2. CASE IVStatus(ctx, hasPtr, len) = "ippStsNoErr"
  <2>1. /\ ctx' = ProcessIV(ctx, Data("iv", msg.iv, len))
        /\ msg' = [msg EXCEPT !.iv = @ + len]
        /\ UNCHANGED <<addr, ready>>
    BY <1>2 DEF GCMProcessIV
  <2>2. len \in Nat /\ ctx.state \in {"GcmInit", "GcmIVprocessing"}
    BY <1>1, <1>2, Accepted
  <2>3. Good(ctx', msg') /\ ctx'.idCtx = ctx.idCtx /\ ctx'.ptrs = ctx.ptrs
    BY <2>1, <2>2, IVGood DEF IInv
  <2> QED BY <2>1, <2>3, SameAddresses
<1>3. CASE IVStatus(ctx, hasPtr, len) # "ippStsNoErr"
  BY <1>3 DEF GCMProcessIV, IInv
<1> QED BY <1>2, <1>3

\* A piece of the associated data keeps it.
LEMMA AADInvariant ==
  ASSUME IInv, NEW hasPtr \in BOOLEAN, NEW len \in CallLens, GCMProcessAAD(hasPtr, len)
  PROVE  IInv'
<1>1. len \in Int
  BY Constants
<1>2. CASE AADStatus(ctx, hasPtr, len) = "ippStsNoErr"
  <2>1. /\ ctx' = ProcessAAD(ctx, Data("aad", msg.aad, len))
        /\ msg' = [msg EXCEPT !.aad = @ + len]
        /\ UNCHANGED <<addr, ready>>
    BY <1>2 DEF GCMProcessAAD
  <2>2. len \in Nat /\ ctx.state \in {"GcmIVprocessing", "GcmAADprocessing"}
    BY <1>1, <1>2, Accepted
  <2>3. Good(ctx', msg') /\ ctx'.idCtx = ctx.idCtx /\ ctx'.ptrs = ctx.ptrs
    BY <2>1, <2>2, AADGood DEF IInv
  <2> QED BY <2>1, <2>3, SameAddresses
<1>3. CASE AADStatus(ctx, hasPtr, len) # "ippStsNoErr"
  BY <1>3 DEF GCMProcessAAD, IInv
<1> QED BY <1>2, <1>3

\* A piece of the text keeps it, and no counter comes round.
LEMMA CryptInvariant ==
  ASSUME IInv, NEW dir \in {"Encrypt", "Decrypt"}, NEW hasPtr \in BOOLEAN,
         NEW len \in CallLens, GCMCrypt(dir, hasPtr, len)
  PROVE  IInv'
<1>1. len \in Int
  BY Constants
<1>2. CASE TextStatus(ctx, hasPtr, len) = "ippStsNoErr"
  <2>1. /\ ctx' = ProcessText(ctx, Data("txt", Len(msg.txt), len), dir).ctx
        /\ msg' = [msg EXCEPT !.txt = @ \o [i \in 1..len |-> dir]]
        /\ UNCHANGED <<addr, ready>>
    BY <1>2 DEF GCMCrypt
  <2>2. /\ len \in Nat /\ ctx.state \in {"GcmAADprocessing", "GcmTXTprocessing"}
        /\ ~(ctx.txtLen > MAX_TXT_LEN - len)
    BY <1>1, <1>2, Accepted
  <2>3. ctx.txtLen = Len(msg.txt) /\ Len(msg.txt) \in 0..MAX_TXT_LEN
    BY GoodBounds DEF IInv, Good, Lengths
  <2>4. Len(msg.txt) + len <= MAX_TXT_LEN
    BY <2>2, <2>3, Constants
  <2>5. Good(ctx', msg') /\ ctx'.idCtx = ctx.idCtx /\ ctx'.ptrs = ctx.ptrs
    BY <2>1, <2>2, <2>4, TextGood, ZenonT(60) DEF IInv
  <2> QED BY <2>1, <2>5, SameAddresses
<1>3. CASE TextStatus(ctx, hasPtr, len) # "ippStsNoErr"
  BY <1>3 DEF GCMCrypt, IInv
<1> QED BY <1>2, <1>3

\* Start, which turns the IV into the first counter, keeps it.
LEMMA StartInvariant ==
  ASSUME IInv, NEW hasPtrs \in BOOLEAN, NEW ivLen \in CallLens, NEW aadLen \in CallLens,
         GCMStart(hasPtrs, ivLen, aadLen)
  PROVE  IInv'
<1> DEFINE c0 == Reset(ctx)
           sIV == IVStatus(c0, hasPtrs, ivLen)
           c1 == ProcessIV(c0, Data("iv", 0, ivLen))
           sAAD == AADStatus(c1, hasPtrs, aadLen)
           m1 == [NoMsg EXCEPT !.iv = ivLen]
           m2 == [iv |-> ivLen, aad |-> aadLen, txt |-> <<>>]
<1>1. ivLen \in Int /\ aadLen \in Int
  BY Constants
<1>2. Good(c0, NoMsg) /\ c0.idCtx = ctx.idCtx /\ c0.ptrs = ctx.ptrs
  BY ResetGood
<1>3. /\ UNCHANGED <<addr, ready>>
      /\ \/ ctx' = ctx /\ msg' = msg
         \/ ctx' = c0 /\ msg' = NoMsg
         \/ sIV = "ippStsNoErr" /\ ctx' = c1 /\ msg' = m1
         \/ /\ sIV = "ippStsNoErr" /\ sAAD = "ippStsNoErr"
            /\ ctx' = ProcessAAD(c1, Data("aad", 0, aadLen)) /\ msg' = m2
  <2>1. CASE ~VALID_ID
    BY <2>1 DEF GCMStart
  <2>2. CASE VALID_ID /\ sIV # "ippStsNoErr"
    BY <2>2 DEF GCMStart
  <2>3. CASE VALID_ID /\ sIV = "ippStsNoErr" /\ sAAD # "ippStsNoErr"
    BY <2>3 DEF GCMStart
  <2>4. CASE VALID_ID /\ sIV = "ippStsNoErr" /\ sAAD = "ippStsNoErr"
    BY <2>4 DEF GCMStart
  <2> QED BY <2>1, <2>2, <2>3, <2>4
<1>4. ASSUME sIV = "ippStsNoErr"
      PROVE  /\ Good(c1, m1) /\ c1.idCtx = ctx.idCtx /\ c1.ptrs = ctx.ptrs
             /\ m1.iv = ivLen /\ m1.aad = 0
  <2>1. ivLen \in Nat /\ c0.state \in {"GcmInit", "GcmIVprocessing"}
    BY <1>1, <1>4, Accepted
  <2>2. NoMsg.iv = 0 /\ [NoMsg EXCEPT !.iv = @ + ivLen] = m1
    BY <2>1 DEF NoMsg
  <2>3. m1.iv = ivLen /\ m1.aad = 0
    BY DEF NoMsg
  <2> HIDE DEF c0, m1
  <2> QED BY <1>2, <2>1, <2>2, <2>3, IVGood
<1>5. ASSUME sIV = "ippStsNoErr", sAAD = "ippStsNoErr"
      PROVE  LET c2 == ProcessAAD(c1, Data("aad", 0, aadLen))
             IN  Good(c2, m2) /\ c2.idCtx = ctx.idCtx /\ c2.ptrs = ctx.ptrs
  <2>1. aadLen \in Nat /\ c1.state \in {"GcmIVprocessing", "GcmAADprocessing"}
    BY <1>1, <1>5, Accepted
  <2>2. [m1 EXCEPT !.aad = @ + aadLen] = m2
    <3>1. m1 = [iv |-> ivLen, aad |-> 0, txt |-> <<>>]
      BY DEF NoMsg
    <3>2. m2 = [iv |-> ivLen, aad |-> aadLen, txt |-> <<>>]
      BY DEF NoMsg
    <3>3. m1.aad + aadLen = aadLen
      BY <2>1, <3>1
    <3> HIDE DEF m1, m2
    <3> QED BY <3>1, <3>2, <3>3
  <2>3. Good(c1, m1) /\ c1.idCtx = ctx.idCtx /\ c1.ptrs = ctx.ptrs /\ m1.aad = 0
    BY <1>4, <1>5
  <2> HIDE DEF c1, m1, m2
  <2> QED BY <2>1, <2>2, <2>3, AADGood
<1>6. CASE ctx' = ctx /\ msg' = msg
  BY <1>3, <1>6 DEF IInv
<1>7. CASE ctx' # ctx \/ msg' # msg
  <2> HIDE DEF c0, c1, m1, m2, sIV, sAAD
  <2>1. Good(ctx', msg') /\ ctx'.idCtx = ctx.idCtx /\ ctx'.ptrs = ctx.ptrs
    BY <1>2, <1>3, <1>4, <1>5, <1>7
  <2> QED BY <1>3, <2>1, SameAddresses
<1> QED BY <1>6, <1>7

\* Every step keeps it.
LEMMA NextInvariant == IInv /\ [Next]_vars => IInv'
<1> SUFFICES ASSUME IInv, [Next]_vars PROVE IInv'
  OBVIOUS
<1>1. ASSUME NEW keyLenOk \in BOOLEAN, GCMInit(keyLenOk) PROVE IInv'
  BY <1>1, InitCallInvariant
<1>2. CASE GCMReset
  <2>1. CASE VALID_ID
    <3>1. ctx' = Reset(ctx) /\ msg' = NoMsg /\ UNCHANGED <<addr, ready>>
      BY <1>2, <2>1 DEF GCMReset
    <3>2. Good(ctx', msg') /\ ctx'.idCtx = ctx.idCtx /\ ctx'.ptrs = ctx.ptrs
      BY <3>1, ResetGood
    <3> QED BY <3>1, <3>2, SameAddresses
  <2>2. CASE ~VALID_ID
    BY <1>2, <2>2 DEF GCMReset, IInv
  <2> QED BY <2>1, <2>2
<1>3. ASSUME NEW hasPtr \in BOOLEAN, NEW len \in CallLens, GCMProcessIV(hasPtr, len)
      PROVE  IInv'
  BY <1>3, IVInvariant
<1>4. ASSUME NEW hasPtr \in BOOLEAN, NEW len \in CallLens, GCMProcessAAD(hasPtr, len)
      PROVE  IInv'
  BY <1>4, AADInvariant
<1>5. ASSUME NEW dir \in {"Encrypt", "Decrypt"}, NEW hasPtr \in BOOLEAN, NEW len \in CallLens,
             GCMCrypt(dir, hasPtr, len)
      PROVE  IInv'
  BY <1>5, CryptInvariant
<1>6. ASSUME NEW hasPtrs \in BOOLEAN, NEW ivLen \in CallLens, NEW aadLen \in CallLens,
             GCMStart(hasPtrs, ivLen, aadLen)
      PROVE  IInv'
  BY <1>6, StartInvariant
<1>7. ASSUME NEW tagLenOk \in BOOLEAN, GCMGetTag(tagLenOk) PROVE IInv'
  BY <1>7 DEF GCMGetTag, IInv
<1>8. ASSUME NEW a \in Addrs, Move(a) PROVE IInv'
  BY <1>8 DEF Move, IInv
<1>9. CASE GCMReinit
  BY <1>9, ReinitInvariant
<1>10. CASE UNCHANGED vars
  BY <1>10 DEF vars, IInv
<1> QED BY <1>1, <1>2, <1>3, <1>4, <1>5, <1>6, <1>7, <1>8, <1>9, <1>10 DEF Next

\* So it always holds.
LEMMA Invariant == Spec => []IInv
  BY InitInvariant, NextInvariant, PTL DEF Spec

\* Every field of the context keeps its C type and the buffer never holds a
\* whole block, whatever calls are made of the ippsAES_GCM functions.
THEOREM TypeCorrect == Spec => []TypeOK
<1>1. IInv => TypeOK
  BY InvariantImplies
<1> QED BY <1>1, Invariant, PTL

\* ippsAES_GCMProcessIV, ProcessAAD, Encrypt and Decrypt keep the length
\* fields and the shared buffer length in agreement with the bytes passed.
THEOREM LengthsCorrect == Spec => []LengthsAgree
<1>1. IInv => LengthsAgree
  BY InvariantImplies
<1> QED BY <1>1, Invariant, PTL

\* ippsAES_GCMEncrypt and Decrypt accept no text that would make the block
\* counter repeat or return to the block that masks the tag.
THEOREM CounterSafe == Spec => []CounterNeverRepeats
<1>1. IInv => CounterNeverRepeats
  BY InvariantImplies
<1> QED BY <1>1, Invariant, PTL

\* A context the id check accepts has pointers to where it lies, also after
\* ippsAES_GCMReinit.
THEOREM PointersSafe == Spec => []PointersCurrent
<1>1. IInv => PointersCurrent
  BY InvariantImplies
<1> QED BY <1>1, Invariant, PTL

-----------------------------------------------------------------------------
(* Blocks that are filled byte by byte.                                    *)

\* The initial counter of a message whose IV has n bytes.
LengthBits(n) == {<<"bits", (n * BYTESIZE) % LEN_MOD>>}
J0Hash(n) ==
  IF n = CTR_POS
  THEN [done |-> <<>>, acc |-> Data("iv", 0, n) \o ZeroBlock(BLOCK_SIZE - CTR_POS - 1) \o <<{<<"one">>}>>]
  ELSE [done |-> ZeroPadded(Data("iv", 0, n), BLOCK_SIZE)
                   \o << ZeroBlock(BLOCK_SIZE - 1) \o <<LengthBits(n)>> >>,
        acc  |-> ZeroBlock(BLOCK_SIZE)]
CounterAt(n, k) == [hash |-> J0Hash(n), inc |-> k]

\* Bytes of what a caller passes, of what the key stream hides and of hidden ones.
Atom == ({"iv", "aad", "txt"} \X Nat) \cup ({"E"} \X {CounterAt(n, k) : n \in Nat, k \in Nat} \X Nat)
Byte == SUBSET Atom
Block == SizedBlocks(BLOCK_SIZE, Byte)

\* A block that holds the bytes r and zeros behind them.
Filled(r) == CopyBlock(r, ZeroBlock(BLOCK_SIZE), 0)

\* Its bytes.
LEMMA FilledBytes ==
  ASSUME NEW r \in Seq(Byte)
  PROVE  /\ Filled(r) = [j \in 1..BLOCK_SIZE |-> IF j <= Len(r) THEN r[j] ELSE {}]
         /\ Filled(r) \in Block
<1> DEFINE z == [j \in 1..BLOCK_SIZE |-> IF j <= Len(r) THEN r[j] ELSE {}]
<1>1. Filled(r) = [j \in 1..BLOCK_SIZE |-> IF j \in (0 + 1)..(0 + Len(r)) THEN r[j - 0] ELSE {}]
  BY DEF Filled, CopyBlock, ZeroBlock
<1>2. ASSUME NEW j \in 1..BLOCK_SIZE
      PROVE  /\ (IF j \in (0 + 1)..(0 + Len(r)) THEN r[j - 0] ELSE {}) = IF j <= Len(r) THEN r[j] ELSE {}
             /\ (IF j <= Len(r) THEN r[j] ELSE {}) \in Byte
  <2>1. j \in Nat \ {0} /\ Len(r) \in Nat /\ j - 0 = j
    BY Constants
  <2>2. j \in (0 + 1)..(0 + Len(r)) <=> j <= Len(r)
    BY <2>1
  <2>3. j <= Len(r) => r[j] \in Byte
    BY <2>1
  <2>4. {} \in Byte
    BY DEF Byte
  <2> QED BY <2>1, <2>2, <2>3, <2>4, Zenon
<1>3. Filled(r) = z
  BY <1>1, <1>2, Zenon
<1>4. z \in [1..BLOCK_SIZE -> Byte]
  BY <1>2
<1> QED BY <1>3, <1>4 DEF Block, SizedBlocks

\* Without bytes it is the block of zeros.
LEMMA FilledNone == Filled(<<>>) = ZeroBlock(BLOCK_SIZE)
<1>1. <<>> \in Seq(Byte) /\ Len(<<>>) = 0
  OBVIOUS
<1>2. Filled(<<>>) = [j \in 1..BLOCK_SIZE |-> IF j <= Len(<<>>) THEN <<>>[j] ELSE {}]
  BY <1>1, FilledBytes
<1>3. \A j \in 1..BLOCK_SIZE : (IF j <= Len(<<>>) THEN <<>>[j] ELSE {}) = {}
  BY <1>1, Constants
<1> QED BY <1>2, <1>3, Zenon DEF ZeroBlock

\* XORing bytes behind those it holds adds them.
LEMMA FilledFurther ==
  ASSUME NEW r \in Seq(Byte), NEW t \in Seq(Byte), Len(r) + Len(t) <= BLOCK_SIZE
  PROVE  XorBlock(t, Filled(r), Len(r)) = Filled(r \o t)
<1> DEFINE f == Len(r)
           n == Len(t)
           x == r \o t
           y == Filled(r)
<1>1. /\ f \in Nat /\ n \in Nat /\ x \in Seq(Byte) /\ Len(x) = f + n
      /\ (\A i \in 1..f : x[i] = r[i]) /\ \A i \in 1..n : x[f + i] = t[i]
  BY Joined
<1>2. y = [j \in 1..BLOCK_SIZE |-> IF j <= f THEN r[j] ELSE {}]
  BY FilledBytes
<1> HIDE DEF x
<1>3. Filled(x) = [j \in 1..BLOCK_SIZE |-> IF j <= Len(x) THEN x[j] ELSE {}]
  BY <1>1, FilledBytes
<1> HIDE DEF f, n, y
<1>4. XorBlock(t, y, f) = [j \in 1..BLOCK_SIZE |-> IF j \in (f + 1)..(f + n) THEN Xor(y[j], t[j - f]) ELSE y[j]]
  <2>1. DOMAIN y = 1..BLOCK_SIZE
    BY <1>2
  <2> QED BY <2>1, Zenon DEF XorBlock, n
<1>5. ASSUME NEW j \in 1..BLOCK_SIZE
      PROVE  (IF j \in (f + 1)..(f + n) THEN Xor(y[j], t[j - f]) ELSE y[j]) = IF j <= Len(x) THEN x[j] ELSE {}
  <2>1. j \in Nat \ {0}
    BY Constants
  <2>2. CASE j <= f
    <3>1. j \in 1..f /\ j \notin (f + 1)..(f + n) /\ j <= Len(x)
      BY <1>1, <2>1, <2>2
    <3>2. y[j] = r[j] /\ x[j] = r[j]
      BY <1>1, <1>2, <2>2, <3>1
    <3> QED BY <3>1, <3>2, Zenon
  <2>3. CASE j > f /\ j <= f + n
    <3> DEFINE i == j - f
    <3>1. i \in 1..n /\ f + i = j /\ j \in (f + 1)..(f + n) /\ j <= Len(x) /\ ~(j <= f)
      BY <1>1, <2>1, <2>3
    <3>2. y[j] = {}
      BY <1>2, <3>1
    <3>3. x[j] = t[i]
      BY <1>1, <3>1
    <3>4. Xor({}, t[i]) = t[i]
      BY DEF Xor
    <3> QED BY <3>1, <3>2, <3>3, <3>4, Zenon
  <2>4. CASE j > f + n
    <3>1. j \notin (f + 1)..(f + n) /\ ~(j <= Len(x)) /\ ~(j <= f)
      BY <1>1, <2>1, <2>4
    <3>2. y[j] = {}
      BY <1>2, <3>1
    <3> QED BY <3>1, <3>2, Zenon
  <2> QED BY <1>1, <2>1, <2>2, <2>3, <2>4
<1>6. XorBlock(t, y, f) = Filled(x)
  BY <1>3, <1>4, <1>5, Zenon
<1> QED BY <1>6 DEF y, f, x

\* XORing nothing changes nothing.
LEMMA FilledAsBefore ==
  ASSUME NEW r \in Seq(Byte), Len(r) <= BLOCK_SIZE, NEW off \in Nat
  PROVE  XorBlock(<<>>, Filled(r), off) = Filled(r)
<1> DEFINE y == Filled(r)
<1>1. y = [j \in 1..BLOCK_SIZE |-> y[j]]
  BY FilledBytes DEF Block, SizedBlocks
<1> HIDE DEF y
<1>2. XorBlock(<<>>, y, off)
        = [j \in 1..BLOCK_SIZE |-> IF j \in (off + 1)..(off + Len(<<>>)) THEN Xor(y[j], <<>>[j - off]) ELSE y[j]]
  <2>1. DOMAIN y = 1..BLOCK_SIZE
    BY <1>1
  <2> QED BY <2>1, Zenon DEF XorBlock
<1>3. \A j \in 1..BLOCK_SIZE : j \notin (off + 1)..(off + Len(<<>>))
  <2>1. Len(<<>>) = 0
    OBVIOUS
  <2> QED BY <2>1
<1>4. XorBlock(<<>>, y, off) = y
  BY <1>1, <1>2, <1>3, Zenon
<1> QED BY <1>4 DEF y

\* XORing bytes into zeros puts them there.
LEMMA FilledFirst ==
  ASSUME NEW t \in Seq(Byte), Len(t) <= BLOCK_SIZE
  PROVE  XorBlock(t, ZeroBlock(BLOCK_SIZE), 0) = Filled(t)
<1> DEFINE r == <<>>
<1>1. r \in Seq(Byte) /\ Len(r) = 0 /\ Len(r) + Len(t) <= BLOCK_SIZE
  OBVIOUS
<1>2. r \o t = t
  BY SMT
<1>3. Filled(r) = ZeroBlock(BLOCK_SIZE)
  BY FilledNone
<1> HIDE DEF r
<1>4. XorBlock(t, Filled(r), Len(r)) = Filled(r \o t)
  BY <1>1, FilledFurther
<1> QED BY <1>1, <1>2, <1>3, <1>4, Zenon

-----------------------------------------------------------------------------
(* An accumulator that hashes byte by byte.                                *)

\* The bytes s have been hashed behind the blocks front, len of them wait.
Hashing(g, len, front, s) ==
  \E w \in Seq(Byte), r \in Seq(Byte), q \in Nat :
    /\ s = w \o r /\ Len(w) = BLOCK_SIZE * q
    /\ Len(r) = len /\ len \in 0..(BLOCK_SIZE - 1)
    /\ g = [done |-> front \o ZeroPadded(w, BLOCK_SIZE), acc |-> Filled(r)]

Sets == {} \in Byte /\ BLOCK_SIZE \in Nat \ {0} /\ Block = SizedBlocks(BLOCK_SIZE, Byte)

\* What the lemmas about cutting bytes into blocks ask of them.
LEMMA BytesAndBlocks == Sets
  BY Constants DEF Sets, Byte, Block

\* Whole blocks hashed into an empty accumulator follow those it has.
LEMMA WholeAuth ==
  ASSUME NEW d, d \in Seq(Block), NEW m \in Seq(Byte), NEW k \in Nat, Len(m) = BLOCK_SIZE * k
  PROVE  authFun([done |-> d, acc |-> ZeroBlock(BLOCK_SIZE)], m)
           = [done |-> d \o ZeroPadded(m, BLOCK_SIZE), acc |-> ZeroBlock(BLOCK_SIZE)]
<1> DEFINE zero == ZeroBlock(BLOCK_SIZE)
           g == [done |-> d, acc |-> zero]
           z == ZeroPadded(m, BLOCK_SIZE)
           part(j) == SubSeq(m, (j - 1) * BLOCK_SIZE + 1, j * BLOCK_SIZE)
           blk(j) == IF j = 1 THEN XorBlock(part(j), g.acc, 0) ELSE part(j)
           all == [j \in 1..(Len(m) \div BLOCK_SIZE) |-> blk(j)]
<1>1. CASE m = <<>>
  <2>1. z = <<>>
    BY <1>1, CutNone, Constants
  <2>2. d \o <<>> = d
    BY SMT
  <2> HIDE DEF z
  <2>3. authFun(g, m) = g
    BY <1>1 DEF authFun
  <2> QED BY <2>1, <2>2, <2>3 DEF z
<1>2. CASE m # <<>>
  <2>1. authFun(g, m) = [done |-> d \o all, acc |-> zero]
    BY <1>2, Zenon DEF authFun
  <2>2. Len(m) \div BLOCK_SIZE = k /\ BlocksIn(BLOCK_SIZE, Len(m)) = k
    <3> DEFINE r0 == 0
               x == BLOCK_SIZE * k + r0
    <3>1. r0 \in 0..(BLOCK_SIZE - 1) /\ ~(r0 > 0) /\ x = Len(m)
      <4>1. BLOCK_SIZE * k \in Nat
        BY Constants, SMT
      <4> QED BY <4>1, Constants
    <3> HIDE DEF r0
    <3>2. x \div BLOCK_SIZE = k
      BY <3>1, Constants, DivModOfSplit
    <3>3. BlocksIn(BLOCK_SIZE, x) = k + (IF r0 > 0 THEN 1 ELSE 0)
      BY <3>1, Constants, BlocksInSplit
    <3> QED BY <3>1, <3>2, <3>3
  <2>3. z \in Seq(Block) /\ Len(z) = k /\ \A j \in 1..k : z[j] = CutBlock(BLOCK_SIZE, m, j)
    BY <2>2, BytesAndBlocks, CutBlocks DEF Sets
  <2>4. ASSUME NEW j \in 1..k
        PROVE  blk(j) = z[j]
    <3>1. j \in Nat \ {0}
      OBVIOUS
    <3>2. /\ (j - 1) * BLOCK_SIZE \in Nat /\ j * BLOCK_SIZE \in Nat
          /\ j * BLOCK_SIZE - (j - 1) * BLOCK_SIZE = BLOCK_SIZE
          /\ (j - 1) * BLOCK_SIZE <= j * BLOCK_SIZE
      BY <3>1, Constants, SMT
    <3>3. j * BLOCK_SIZE <= Len(m)
      <4>1. (j - 1) * BLOCK_SIZE + BLOCK_SIZE <= BLOCK_SIZE * k
        <5>1. BLOCK_SIZE \in Nat \ {0} /\ BLOCK_SIZE \in 1..BLOCK_SIZE /\ j <= k
          BY Constants
        <5> DEFINE last == BLOCK_SIZE
        <5>2. last \in 1..BLOCK_SIZE
          BY <5>1
        <5> HIDE DEF last
        <5>3. (j - 1) * BLOCK_SIZE + last <= BLOCK_SIZE * k
          BY ONLY <3>1, <5>1, <5>2, k \in Nat, PlaceOfByte
        <5> QED BY <5>3 DEF last
      <4> QED BY <3>2, <4>1, Constants
    <3> DEFINE lo == (j - 1) * BLOCK_SIZE
               hi == j * BLOCK_SIZE
               p == part(j)
    <3>4. p \in Seq(Byte) /\ Len(p) = BLOCK_SIZE /\ \A i \in 1..BLOCK_SIZE : p[i] = m[lo + i]
      <4>1. p = SubSeq(m, lo + 1, hi)
        OBVIOUS
      <4>2. lo \in Nat /\ hi \in Nat /\ lo <= hi /\ hi <= Len(m) /\ hi - lo = BLOCK_SIZE
        BY <3>2, <3>3
      <4> HIDE DEF lo, hi, p
      <4>3. /\ SubSeq(m, lo + 1, hi) \in Seq(Byte) /\ Len(SubSeq(m, lo + 1, hi)) = hi - lo
            /\ \A i \in 1..(hi - lo) : SubSeq(m, lo + 1, hi)[i] = m[lo + i]
        BY ONLY <4>2, m \in Seq(Byte), Part
      <4> QED BY <4>1, <4>2, <4>3
    <3>5. CutBlock(BLOCK_SIZE, m, j) = Filled(p)
      <4>1. Filled(p) = [i \in 1..BLOCK_SIZE |-> IF i <= Len(p) THEN p[i] ELSE {}]
        BY <3>4, FilledBytes
      <4>2. CutBlock(BLOCK_SIZE, m, j) = [i \in 1..BLOCK_SIZE |-> IF lo + i <= Len(m) THEN m[lo + i] ELSE {}]
        BY DEF CutBlock
      <4>3. ASSUME NEW i \in 1..BLOCK_SIZE
            PROVE  (IF lo + i <= Len(m) THEN m[lo + i] ELSE {}) = IF i <= Len(p) THEN p[i] ELSE {}
        <5>1. i <= Len(p)
          BY <3>4
        <5>2. lo + i <= Len(m)
          <6> HIDE DEF lo, hi
          <6> QED BY <3>2, <3>3, Constants DEF lo, hi
        <5> HIDE DEF lo, hi, p
        <5> QED BY <3>4, <5>1, <5>2
      <4> HIDE DEF lo, hi, p
      <4> QED BY <4>1, <4>2, <4>3, Zenon
    <3>6. p = Filled(p)
      <4>1. Filled(p) = [i \in 1..BLOCK_SIZE |-> IF i <= Len(p) THEN p[i] ELSE {}]
        BY <3>4, FilledBytes
      <4> HIDE DEF p
      <4>2. p = [i \in 1..BLOCK_SIZE |-> p[i]]
        BY <3>4
      <4>3. \A i \in 1..BLOCK_SIZE : i <= Len(p)
        BY <3>4
      <4> QED BY <4>1, <4>2, <4>3, Zenon
    <3>7. XorBlock(p, zero, 0) = Filled(p)
      <4> HIDE DEF p
      <4> QED BY <3>4, FilledFirst, Constants
    <3> HIDE DEF p
    <3>8. blk(j) = IF j = 1 THEN XorBlock(p, zero, 0) ELSE p
      BY DEF p
    <3> QED BY <2>3, <3>5, <3>6, <3>7, <3>8, Zenon
  <2>5. z = [j \in 1..k |-> z[j]]
    BY <2>3
  <2>6. all = [j \in 1..k |-> blk(j)]
    BY <2>2
  <2> HIDE DEF z, blk
  <2>7. all = z
    BY <2>4, <2>5, <2>6, Zenon
  <2> QED BY <2>1, <2>7, Zenon DEF z
<1> QED BY <1>1, <1>2

\* How bytes are joined does not depend on the order.
LEMMA JoinedInAnyOrder == \A r, s, t \in Seq(Byte) : (r \o s) \o t = r \o (s \o t)
  BY ConcatAssociative

\* What Absorb leaves: whole blocks m hashed, the rest e kept.
AuthAndKeep(g, m, e) ==
  [authFun(g, m) EXCEPT !.acc = XorBlock(e, @, 0)]

\* Whole blocks w behind the blocks front, nothing waiting.
HashedWhole(front, w) ==
  [done |-> front \o ZeroPadded(w, BLOCK_SIZE), acc |-> ZeroBlock(BLOCK_SIZE)]

\* Whole blocks hashed and a rest kept continue what has been hashed.
LEMMA AuthGoesOn ==
  ASSUME NEW front \in Seq(Block), NEW w \in Seq(Byte), NEW q \in Nat, Len(w) = BLOCK_SIZE * q,
         NEW m \in Seq(Byte), NEW k \in Nat, Len(m) = BLOCK_SIZE * k,
         NEW e \in Seq(Byte), Len(e) \in 0..(BLOCK_SIZE - 1)
  PROVE  Hashing(AuthAndKeep(HashedWhole(front, w), m, e), Len(e), front, w \o (m \o e))
<1> DEFINE b == BLOCK_SIZE
           zw == ZeroPadded(w, b)
           zm == ZeroPadded(m, b)
           zero == ZeroBlock(b)
           x == w \o m
<1>1. zw \in Seq(Block) /\ zm \in Seq(Block)
  BY BytesAndBlocks, CutBlocks DEF Sets
<1>2. ZeroPadded(x, b) = zw \o zm
  BY BytesAndBlocks, CutParts DEF Sets
<1>3. x \in Seq(Byte) /\ Len(x) = b * (q + k)
  <2>1. b * (q + k) = b * q + b * k
    BY Constants, SMT
  <2> QED BY <2>1, Joined
<1>4. (front \o zw) \o zm = front \o (zw \o zm) /\ front \o zw \in Seq(Block)
  <2> HIDE DEF zw, zm
  <2>1. (front \o zw) \o zm = front \o (zw \o zm)
    BY ONLY <1>1, front \in Seq(Block), ConcatAssociative, SMTT(60)
  <2>2. front \o zw \in Seq(Block)
    BY ONLY <1>1, front \in Seq(Block), ConcatProperties, ZenonT(60)
  <2> QED BY <2>1, <2>2
<1> DEFINE d == front \o zw
<1>5. authFun(HashedWhole(front, w), m) = [done |-> d \o zm, acc |-> zero]
  <2>1. HashedWhole(front, w) = [done |-> d, acc |-> zero]
    BY DEF HashedWhole
  <2>2. d \in Seq(Block)
    BY <1>4
  <2> HIDE DEF d
  <2> QED BY <2>1, <2>2, WholeAuth
<1>6. XorBlock(e, zero, 0) = Filled(e)
  BY FilledFirst, Constants
<1>7. AuthAndKeep(HashedWhole(front, w), m, e) = [done |-> front \o ZeroPadded(x, b), acc |-> Filled(e)]
  <2>1. front \o ZeroPadded(x, b) = d \o zm
    BY <1>2, <1>4, Zenon
  <2> HIDE DEF d, zm, zero, x
  <2>2. AuthAndKeep(HashedWhole(front, w), m, e) = [done |-> d \o zm, acc |-> XorBlock(e, zero, 0)]
    <3> DEFINE a == authFun(HashedWhole(front, w), m)
    <3>1. a = [done |-> d \o zm, acc |-> zero]
      BY <1>5
    <3>2. AuthAndKeep(HashedWhole(front, w), m, e) = [a EXCEPT !.acc = XorBlock(e, @, 0)]
      BY DEF AuthAndKeep
    <3> HIDE DEF a
    <3> QED BY <3>1, <3>2
  <2> QED BY <1>6, <2>1, <2>2, Zenon
<1>8. w \o (m \o e) = x \o e
  BY ONLY w \in Seq(Byte), m \in Seq(Byte), e \in Seq(Byte), ConcatAssociative, SMTT(60)
<1> HIDE DEF x
<1> QED BY <1>3, <1>7, <1>8, q + k \in Nat, Zenon DEF Hashing, b

\* A chunk absorbed continues what has been hashed, wherever it is cut.
LEMMA AbsorbGoesOn ==
  ASSUME NEW g, NEW len, NEW front \in Seq(Block), NEW s, Hashing(g, len, front, s),
         NEW t \in Seq(Byte)
  PROVE  Hashing(Absorb(g, len, t).hash, Absorb(g, len, t).bufLen, front, s \o t)
<1> DEFINE b == BLOCK_SIZE
           n == Len(t)
           head == HeadLen(len, n)
           full == len + head = b
           main == WholeBlocks(n - head)
           cut == head + main
           h == SubSeq(t, 1, head)
           m == SubSeq(t, head + 1, cut)
           e == SubSeq(t, cut + 1, n)
           k == main \div b
           g1 == [g EXCEPT !.acc = XorBlock(h, @, len)]
           after == Absorb(g, len, t)
<1>1. PICK w \in Seq(Byte), r \in Seq(Byte), q \in Nat :
        /\ s = w \o r /\ Len(w) = b * q
        /\ Len(r) = len /\ len \in 0..(b - 1)
        /\ g = [done |-> front \o ZeroPadded(w, b), acc |-> Filled(r)]
  BY Zenon DEF Hashing
<1>2. /\ n \in Nat /\ len \in Nat /\ head \in 0..n /\ main \in 0..(n - head) /\ (n - head) - main \in 0..(b - 1)
      /\ k \in Nat /\ main = b * k
      /\ (IF full THEN 0 ELSE len + head) + ((n - head) - main) = (len + n) % b
  <2>1. n \in Nat /\ len \in 0..(b - 1)
    BY <1>1
  <2> HIDE DEF n
  <2>2. ASSUME NEW l \in 0..(BLOCK_SIZE - 1), NEW j \in Nat
        PROVE  LET hd == HeadLen(l, j)
                   mn == WholeBlocks(j - hd)
               IN  /\ hd \in 0..j /\ mn \in 0..(j - hd) /\ (j - hd) - mn \in 0..(BLOCK_SIZE - 1)
                   /\ mn \div BLOCK_SIZE \in Nat /\ mn = BLOCK_SIZE * (mn \div BLOCK_SIZE)
                   /\ (IF l + hd = BLOCK_SIZE THEN 0 ELSE l + hd) + ((j - hd) - mn) = (l + j) % BLOCK_SIZE
    BY ChunkParts
  <2>3. len \in Nat
    BY <2>1, Constants
  <2> QED BY <2>1, <2>2, <2>3
<1>3. /\ after.hash = AuthAndKeep(IF full THEN hashFun(g1) ELSE g1, m, e)
      /\ after.bufLen = (IF full THEN 0 ELSE len + head) + Len(e)
  BY Zenon DEF Absorb, AuthAndKeep
<1> HIDE DEF after
<1>4. /\ h \in Seq(Byte) /\ Len(h) = head /\ m \in Seq(Byte) /\ Len(m) = main
      /\ e \in Seq(Byte) /\ Len(e) = (n - head) - main
      /\ t = h \o (m \o e)
  <2>1. n \in Nat /\ head \in 0..n /\ main \in 0..(n - head) /\ cut = head + main
    BY <1>2
  <2> HIDE DEF head, main, cut, n
  <2>2. head \in Nat /\ cut \in Nat /\ head <= cut /\ cut <= n /\ cut - head = main /\ n - cut = (n - head) - main
    BY <2>1
  <2>3. /\ h \in Seq(Byte) /\ Len(h) = head /\ m \in Seq(Byte) /\ Len(m) = cut - head
        /\ e \in Seq(Byte) /\ Len(e) = n - cut
        /\ t = h \o (m \o e)
    <3>1. n = Len(t)
      BY DEF n
    <3> DEFINE z == SubSeq(t, cut + 1, Len(t))
    <3>2. head \in Nat /\ cut \in Nat /\ head <= cut /\ cut <= Len(t)
      BY <2>2, <3>1
    <3>3. InThreeParts(Byte, t, head, cut)
      BY ONLY <3>2, t \in Seq(Byte), ThreeParts
    <3>4. e = SubSeq(t, cut + 1, Len(t))
      BY <3>1
    <3> HIDE DEF e
    <3> QED BY <3>1, <3>3, <3>4, ZenonT(60) DEF InThreeParts
  <2> QED BY <2>2, <2>3
<1>5. g1 = [done |-> front \o ZeroPadded(w, b), acc |-> XorBlock(h, Filled(r), len)]
  <2> DEFINE d == front \o ZeroPadded(w, b)
             a == Filled(r)
  <2> HIDE DEF h, d, a
  <2>1. g = [done |-> d, acc |-> a]
    BY <1>1 DEF d, a
  <2>2. g1 = [done |-> d, acc |-> XorBlock(h, a, len)]
    BY <2>1
  <2> QED BY <2>2 DEF d, a
<1> HIDE DEF head, main, cut, n, h, m, e, g1, k
<1>6. CASE len = 0
  <2>1. head = 0 /\ ~full
    BY <1>6, Constants DEF head, HeadLen
  <2>2. h = <<>> /\ r = <<>>
    BY <1>1, <1>4, <1>6, <2>1
  <2>3. g1 = HashedWhole(front, w)
    <3>1. XorBlock(<<>>, Filled(r), len) = Filled(r)
      <4>1. Len(r) <= b /\ len \in Nat
        BY <1>1, Constants
      <4> QED BY ONLY <4>1, r \in Seq(Byte), FilledAsBefore, ZenonT(60)
    <3>2. Filled(r) = ZeroBlock(b)
      BY <2>2, FilledNone
    <3> QED BY <1>5, <2>2, <3>1, <3>2, Zenon DEF HashedWhole
  <2>4. s = w /\ t = m \o e
    BY <1>1, <1>4, <2>2, ConcatEmptySeq, ConcatProperties
  <2>5. Hashing(AuthAndKeep(g1, m, e), Len(e), front, w \o (m \o e))
    BY <1>1, <1>2, <1>4, <2>3, AuthGoesOn
  <2>6. after.bufLen = Len(e)
    BY <1>2, <1>3, <1>4, <1>6, <2>1
  <2> QED BY <1>3, <2>1, <2>4, <2>5, <2>6, Zenon DEF after
<1>7. CASE len # 0 /\ ~full
  <2>1. head = n /\ main = 0 /\ len + n \in 0..(b - 1)
    BY <1>1, <1>2, <1>7, Constants DEF head, HeadLen, IPP_MIN
  <2>2. m = <<>> /\ e = <<>> /\ h = t
    <3>1. m = <<>> /\ e = <<>>
      BY <1>2, <1>4, <2>1
    <3> QED BY <3>1, <1>4, ConcatEmptySeq
  <2> DEFINE x == r \o t
  <2>3. x \in Seq(Byte) /\ Len(x) = len + n /\ s \o t = w \o x
    <3>1. x \in Seq(Byte) /\ Len(x) = Len(r) + Len(t)
      BY ONLY r \in Seq(Byte), t \in Seq(Byte), ConcatProperties, ZenonT(60)
    <3>2. (w \o r) \o t = w \o x
      BY ONLY w \in Seq(Byte), r \in Seq(Byte), t \in Seq(Byte), ConcatAssociative, SMTT(60)
    <3> QED BY <1>1, <3>1, <3>2, ZenonT(60) DEF n
  <2>4. XorBlock(h, Filled(r), len) = Filled(x)
    <3>1. Len(r) + Len(t) <= BLOCK_SIZE
      BY <1>1, <2>1, Constants DEF n
    <3>2. XorBlock(t, Filled(r), Len(r)) = Filled(x)
      BY ONLY <3>1, r \in Seq(Byte), t \in Seq(Byte), FilledFurther, ZenonT(60)
    <3> QED BY <1>1, <2>2, <3>2, ZenonT(60)
  <2>5. authFun(g1, m) = g1
    BY <2>2 DEF authFun
  <2> HIDE DEF x
  <2>6. AuthAndKeep(g1, m, e) = [done |-> front \o ZeroPadded(w, b), acc |-> Filled(x)]
    <3>1. XorBlock(e, Filled(x), 0) = Filled(x)
      <4>1. Len(x) <= b /\ 0 \in Nat
        BY <2>1, <2>3, Constants
      <4>2. XorBlock(<<>>, Filled(x), 0) = Filled(x)
        BY ONLY <4>1, <2>3, FilledAsBefore, ZenonT(60)
      <4> QED BY <2>2, <4>2, ZenonT(60)
    <3>2. g1 = [done |-> front \o ZeroPadded(w, b), acc |-> Filled(x)]
      BY <1>5, <2>4, Zenon
    <3> DEFINE d == front \o ZeroPadded(w, b)
               a == Filled(x)
    <3>3. g1 = [done |-> d, acc |-> a]
      BY <3>2
    <3>4. AuthAndKeep(g1, m, e) = [g1 EXCEPT !.acc = XorBlock(e, @, 0)]
      BY <2>5 DEF AuthAndKeep
    <3>5. XorBlock(e, a, 0) = a
      BY <3>1
    <3> HIDE DEF d, a
    <3>6. AuthAndKeep(g1, m, e) = [done |-> d, acc |-> a]
      BY <3>3, <3>4, <3>5
    <3> QED BY <3>6 DEF d, a
  <2>7. after.bufLen = len + n
    BY <1>2, <1>3, <1>4, <1>7, <2>1
  <2> QED BY <1>1, <1>3, <1>7, <2>1, <2>3, <2>6, <2>7, Zenon DEF Hashing, after
<1>8. CASE len # 0 /\ full
  <2> DEFINE x == r \o h
             y == w \o x
  <2>1. x \in Seq(Byte) /\ Len(x) = b
    BY <1>1, <1>4, <1>8, ConcatProperties
  <2>2. y \in Seq(Byte) /\ Len(y) = b * (q + 1)
    <3>1. b * (q + 1) = b * q + b
      BY Constants, SMT
    <3>2. w \in Seq(Byte) /\ x \in Seq(Byte) /\ Len(w) = b * q
      BY <1>1, <2>1
    <3>3. y \in Seq(Byte) /\ Len(y) = Len(w) + Len(x)
      <4> HIDE DEF x
      <4> QED BY ONLY <3>2, Joined DEF y
    <3> HIDE DEF x, y
    <3> QED BY <2>1, <3>1, <3>2, <3>3, Zenon
  <2>3. XorBlock(h, Filled(r), len) = Filled(x)
    <3>1. Len(r) + Len(h) <= BLOCK_SIZE
      BY <1>1, <1>4, <1>8, Constants
    <3>2. XorBlock(h, Filled(r), Len(r)) = Filled(x)
      BY ONLY <3>1, r \in Seq(Byte), <1>4, FilledFurther, ZenonT(60)
    <3> QED BY <1>1, <3>2, ZenonT(60)
  <2> HIDE DEF x
  <2>4. ZeroPadded(y, b) = ZeroPadded(w, b) \o <<Filled(x)>>
    <3>1. ZeroPadded(x, b) = <<Filled(x)>>
      <4>1. Len(x) \in 1..b
        BY <2>1, Constants
      <4> QED BY <2>1, <4>1, BytesAndBlocks, CutOne DEF Sets, Filled
    <3>2. ZeroPadded(y, b) = ZeroPadded(w, b) \o ZeroPadded(x, b)
      BY <1>1, <2>1, BytesAndBlocks, CutParts DEF Sets
    <3> QED BY <3>1, <3>2, Zenon
  <2>5. hashFun(g1) = HashedWhole(front, y)
    <3> DEFINE zw == ZeroPadded(w, b)
    <3>1. zw \in Seq(Block)
      BY BytesAndBlocks, CutBlocks DEF Sets
    <3>2. Filled(x) \in Block
      BY <2>1, FilledBytes
    <3> HIDE DEF zw
    <3>3. Append(front \o zw, Filled(x)) = front \o (zw \o <<Filled(x)>>)
      <4>1. front \o zw \in Seq(Block) /\ <<Filled(x)>> \in Seq(Block)
        BY <3>1, <3>2, ConcatProperties
      <4>2. Append(front \o zw, Filled(x)) = (front \o zw) \o <<Filled(x)>>
        BY ONLY <3>2, <4>1, AppendIsConcat
      <4> QED BY <3>1, <4>1, <4>2, ConcatAssociative, SMTT(60)
    <3>4. g1 = [done |-> front \o zw, acc |-> Filled(x)]
      BY <1>5, <2>3, Zenon DEF zw
    <3>5. hashFun(g1) = [done |-> Append(front \o zw, Filled(x)), acc |-> ZeroBlock(b)]
      BY <3>4 DEF hashFun
    <3> QED BY <2>4, <3>3, <3>5, Zenon DEF HashedWhole, zw
  <2>6. s \o t = y \o (m \o e)
    <3> DEFINE v == m \o e
    <3>1. v \in Seq(Byte)
      BY <1>4, ConcatProperties
    <3> HIDE DEF v
    <3>2. h \in Seq(Byte)
      BY <1>4
    <3> DEFINE p == w \o r
    <3>3. p \in Seq(Byte)
      BY ConcatProperties, ZenonT(60)
    <3>4. p \o h = w \o (r \o h)
      BY <3>2, JoinedInAnyOrder, ZenonT(60)
    <3> HIDE DEF p
    <3>5. p \o (h \o v) = (p \o h) \o v
      BY <3>1, <3>2, <3>3, JoinedInAnyOrder, ZenonT(60)
    <3> QED BY <1>1, <1>4, <3>4, <3>5, Zenon DEF p, v, x
  <2> HIDE DEF y
  <2>7. Hashing(AuthAndKeep(hashFun(g1), m, e), Len(e), front, y \o (m \o e))
    BY <1>1, <1>2, <1>4, <2>2, <2>5, q + 1 \in Nat, AuthGoesOn
  <2>8. after.bufLen = Len(e)
    BY <1>2, <1>3, <1>4, <1>8
  <2> QED BY <1>3, <1>8, <2>6, <2>7, <2>8, Zenon DEF after
<1> QED BY <1>6, <1>7, <1>8

\* Nothing has been hashed behind the blocks an empty accumulator has.
LEMMA HashingStarts ==
  ASSUME NEW front \in Seq(Block)
  PROVE  Hashing([done |-> front, acc |-> ZeroBlock(BLOCK_SIZE)], 0, front, <<>>)
<1> DEFINE none == <<>>
           q == 0
<1>1. /\ none \in Seq(Byte) /\ Len(none) = q /\ q \in Nat /\ none \o none = none
      /\ BLOCK_SIZE * q = q /\ q \in 0..(BLOCK_SIZE - 1)
  <2>1. none \in Seq(Byte) /\ Len(none) = q /\ none \o none = none
    BY SMT
  <2> QED BY <2>1, Constants, SMT
<1>2. ZeroPadded(none, BLOCK_SIZE) = <<>>
  BY CutNone, Constants
<1>3. front \o <<>> = front
  BY ConcatEmptySeq
<1>4. Filled(none) = ZeroBlock(BLOCK_SIZE)
  BY FilledNone
<1>5. [done |-> front, acc |-> ZeroBlock(BLOCK_SIZE)]
        = [done |-> front \o ZeroPadded(none, BLOCK_SIZE), acc |-> Filled(none)]
  BY <1>2, <1>3, <1>4, Zenon
<1> HIDE DEF none, q
<1>6. Hashing([done |-> front, acc |-> ZeroBlock(BLOCK_SIZE)], q, front, none)
  BY <1>1, <1>5, Zenon DEF Hashing
<1> QED BY <1>6 DEF none, q

\* The block that waits, if any, is hashed padded with zeros.
LEMMA HashingFinished ==
  ASSUME NEW g, NEW len, NEW front \in Seq(Block), NEW s, Hashing(g, len, front, s)
  PROVE  (IF len # 0 THEN hashFun(g) ELSE g)
           = [done |-> front \o ZeroPadded(s, BLOCK_SIZE), acc |-> ZeroBlock(BLOCK_SIZE)]
<1> DEFINE b == BLOCK_SIZE
<1>1. PICK w \in Seq(Byte), r \in Seq(Byte), q \in Nat :
        /\ s = w \o r /\ Len(w) = b * q
        /\ Len(r) = len /\ len \in 0..(b - 1)
        /\ g = [done |-> front \o ZeroPadded(w, b), acc |-> Filled(r)]
  BY Zenon DEF Hashing
<1>2. CASE len = 0
  <2>1. r = <<>>
    BY <1>1, <1>2
  <2>2. s = w
    BY <1>1, <2>1, ConcatEmptySeq
  <2>3. Filled(r) = ZeroBlock(b)
    BY <2>1, FilledNone
  <2> QED BY <1>1, <1>2, <2>2, <2>3, Zenon
<1>3. CASE len # 0
  <2> DEFINE zw == ZeroPadded(w, b)
             f == Filled(r)
  <2>1. ZeroPadded(s, b) = zw \o ZeroPadded(r, b)
    BY <1>1, BytesAndBlocks, CutParts DEF Sets
  <2>2. ZeroPadded(r, b) = <<f>>
    <3>1. Len(r) \in 1..b
      BY <1>1, <1>3, Constants
    <3> QED BY <3>1, BytesAndBlocks, CutOne DEF Sets, Filled
  <2>3. zw \in Seq(Block) /\ f \in Block
    BY FilledBytes, BytesAndBlocks, CutBlocks DEF Sets
  <2> HIDE DEF zw, f
  <2>4. Append(front \o zw, f) = front \o (zw \o <<f>>)
    <3>1. front \o zw \in Seq(Block) /\ <<f>> \in Seq(Block)
      BY <2>3, ConcatProperties
    <3>2. Append(front \o zw, f) = (front \o zw) \o <<f>>
      BY ONLY <2>3, <3>1, AppendIsConcat
    <3> QED BY <2>3, <3>1, <3>2, ConcatAssociative, SMTT(60)
  <2>5. g = [done |-> front \o zw, acc |-> f]
    BY <1>1, Zenon DEF zw, f
  <2>6. hashFun(g) = [done |-> Append(front \o zw, f), acc |-> ZeroBlock(b)]
    BY <2>5 DEF hashFun
  <2> QED BY <1>3, <2>1, <2>2, <2>4, <2>6, Zenon
<1> QED BY <1>2, <1>3

-----------------------------------------------------------------------------
(* The block counter number 0.                                             *)

\* The bytes a caller passes.
LEMMA DataBytes ==
  ASSUME NEW kind \in {"iv", "aad", "txt"}, NEW first \in Nat, NEW n \in Nat
  PROVE  Data(kind, first, n) \in Seq(Byte) /\ Len(Data(kind, first, n)) = n
<1>1. ASSUME NEW i \in 1..n PROVE {<<kind, first + i>>} \in Byte
  <2>1. first + i \in Nat
    OBVIOUS
  <2> QED BY <2>1 DEF Byte, Atom
<1> QED BY <1>1 DEF Data

\* Passing bytes in two calls is passing them in one.
LEMMA DataGoesOn ==
  ASSUME NEW kind \in {"iv", "aad", "txt"}, NEW n \in Nat, NEW k \in Nat
  PROVE  Data(kind, 0, n) \o Data(kind, n, k) = Data(kind, 0, n + k)
<1> DEFINE s == Data(kind, 0, n)
           t == Data(kind, n, k)
           u == Data(kind, 0, n + k)
           v == s \o t
<1>1. s \in Seq(Byte) /\ Len(s) = n /\ t \in Seq(Byte) /\ Len(t) = k
      /\ u \in Seq(Byte) /\ Len(u) = n + k
  <2> DEFINE none == 0
             sum == n + k
  <2>1. none \in Nat /\ sum \in Nat
    OBVIOUS
  <2> HIDE DEF none, sum
  <2>2. /\ Data(kind, none, n) \in Seq(Byte) /\ Len(Data(kind, none, n)) = n
        /\ Data(kind, n, k) \in Seq(Byte) /\ Len(Data(kind, n, k)) = k
        /\ Data(kind, none, sum) \in Seq(Byte) /\ Len(Data(kind, none, sum)) = sum
    BY ONLY <2>1, kind \in {"iv", "aad", "txt"}, n \in Nat, k \in Nat, DataBytes
  <2> QED BY <2>2 DEF none, sum
<1>2. /\ \A i \in 1..n : s[i] = {<<kind, 0 + i>>}
      /\ \A i \in 1..k : t[i] = {<<kind, n + i>>}
      /\ \A i \in 1..(n + k) : u[i] = {<<kind, 0 + i>>}
  BY DEF Data
<1> HIDE DEF s, t, u
<1>3. /\ v \in Seq(Byte) /\ Len(v) = n + k
      /\ (\A i \in 1..n : v[i] = s[i])
      /\ \A i \in 1..k : v[n + i] = t[i]
  <2>1. /\ v \in Seq(Byte) /\ Len(v) = Len(s) + Len(t)
        /\ (\A i \in 1..Len(s) : v[i] = s[i])
        /\ \A i \in 1..Len(t) : v[Len(s) + i] = t[i]
    <3>1. s \in Seq(Byte) /\ t \in Seq(Byte)
      BY <1>1
    <3> QED BY ONLY <3>1, Joined DEF v
  <2> HIDE DEF v
  <2> QED BY <1>1, <2>1
<1> HIDE DEF v
<1>4. ASSUME NEW i \in 1..(n + k)
      PROVE  v[i] = u[i]
  <2>1. CASE i <= n
    <3>1. i \in 1..n
      BY <2>1
    <3> QED BY <1>2, <1>3, <3>1, ZenonT(60)
  <2>2. CASE i > n
    <3>1. i - n \in 1..k /\ n + (i - n) = i /\ 0 + i = i
      BY <2>2
    <3>2. v[i] = {<<kind, n + (i - n)>>}
      BY <1>2, <1>3, <3>1
    <3>3. u[i] = {<<kind, 0 + i>>}
      BY <1>2
    <3> QED BY <3>1, <3>2, <3>3, Zenon
  <2> QED BY <2>1, <2>2
<1>5. v = u
  BY <1>1, <1>3, <1>4, SequencesEqual
<1> QED BY <1>5 DEF s, t, u, v

\* Zeros and one byte behind them.
LEMMA LastByte ==
  ASSUME NEW k \in Nat, NEW x
  PROVE  LET f == [j \in 1..(k + 1) |-> IF j = k + 1 THEN x ELSE {}]
         IN  /\ ZeroBlock(k) \o <<x>> = f
             /\ ZeroBlock(k) \in Seq({{}, x}) /\ <<x>> \in Seq({{}, x})
             /\ f \in Seq({{}, x}) /\ Len(f) = k + 1
<1> DEFINE X == {{}, x}
           z == ZeroBlock(k)
           o == <<x>>
           f == [j \in 1..(k + 1) |-> IF j = k + 1 THEN x ELSE {}]
           v == z \o o
<1>1. z \in Seq(X) /\ Len(z) = k /\ \A j \in 1..k : z[j] = {}
  BY DEF ZeroBlock
<1>2. o \in Seq(X) /\ Len(o) = 1 /\ o[1] = x
  OBVIOUS
<1>3. f \in Seq(X) /\ Len(f) = k + 1 /\ \A j \in 1..(k + 1) : f[j] = IF j = k + 1 THEN x ELSE {}
  <2>1. \A j \in 1..(k + 1) : (IF j = k + 1 THEN x ELSE {}) \in X
    OBVIOUS
  <2>2. f \in [1..(k + 1) -> X]
    BY <2>1
  <2> QED BY <2>2
<1> HIDE DEF z, o, f, X
<1>4. /\ v \in Seq(X) /\ Len(v) = Len(z) + Len(o)
      /\ (\A i \in 1..Len(z) : v[i] = z[i])
      /\ \A i \in 1..Len(o) : v[Len(z) + i] = o[i]
  <2>1. z \in Seq(X) /\ o \in Seq(X)
    BY <1>1, <1>2
  <2> QED BY ONLY <2>1, Joined DEF v
<1> HIDE DEF v
<1>5. v = f
  <2>1. Len(v) = k + 1 /\ 1 \in 1..Len(o) /\ Len(z) + 1 = k + 1
    BY <1>1, <1>2, <1>4
  <2>2. ASSUME NEW j \in 1..(k + 1) PROVE v[j] = f[j]
    <3>1. CASE j = k + 1
      <4>1. v[Len(z) + 1] = o[1]
        BY <1>4, <2>1
      <4> QED BY <1>2, <1>3, <2>1, <3>1, <4>1
    <3>2. CASE j # k + 1
      <4>1. j \in 1..k
        BY <3>2
      <4> QED BY <1>1, <1>3, <1>4, <3>2, <4>1
    <3> QED BY <3>1, <3>2
  <2> QED BY <1>3, <1>4, <2>1, <2>2, SequencesEqual
<1> QED BY <1>1, <1>2, <1>3, <1>5, Zenon DEF v, z, o, f, X

\* XORing one byte into the last of a block of zeros.
LEMMA LastByteOfZeros ==
  ASSUME NEW x
  PROVE  XorBlock(<<x>>, ZeroBlock(BLOCK_SIZE), BLOCK_SIZE - 1) = ZeroBlock(BLOCK_SIZE - 1) \o <<x>>
<1> DEFINE b == BLOCK_SIZE
           k == b - 1
           o == <<x>>
           zero == ZeroBlock(b)
<1>1. k \in Nat /\ b \in Nat /\ k + 1 = b
  BY Constants
<1> HIDE DEF k
<1>2. ZeroBlock(k) \o <<x>> = [j \in 1..(k + 1) |-> IF j = k + 1 THEN x ELSE {}]
  BY <1>1, LastByte, Zenon
<1>3. o[1] = x /\ Len(o) = 1
  OBVIOUS
<1>4. zero = [j \in 1..b |-> {}] /\ DOMAIN zero = 1..b /\ \A j \in 1..b : zero[j] = {}
  BY DEF ZeroBlock
<1> HIDE DEF o, zero
<1>5. XorBlock(o, zero, k) = [j \in 1..b |-> IF j \in (k + 1)..(k + Len(o)) THEN Xor(zero[j], o[j - k]) ELSE zero[j]]
  BY <1>4, Zenon DEF XorBlock
<1>6. ASSUME NEW j \in 1..b
      PROVE  (IF j \in (k + 1)..(k + Len(o)) THEN Xor(zero[j], o[j - k]) ELSE zero[j])
               = IF j = k + 1 THEN x ELSE {}
  <2>1. j \in (k + 1)..(k + Len(o)) <=> j = k + 1
    BY <1>1, <1>3
  <2>2. j = k + 1 => j - k = 1
    BY <1>1
  <2>3. Xor({}, x) = x
    BY DEF Xor
  <2>4. zero[j] = {}
    BY <1>4
  <2> QED BY <1>3, <2>1, <2>2, <2>3, <2>4, Zenon
<1>7. XorBlock(o, zero, k) = ZeroBlock(k) \o <<x>>
  BY <1>1, <1>2, <1>5, <1>6, Zenon
<1> QED BY <1>7 DEF k, o, zero

\* A 12-byte IV is the counter block, with the number 1 behind it.
LEMMA ShortIVBlock ==
  ASSUME NEW r \in Seq(Byte), Len(r) = CTR_POS
  PROVE  CopyBlock([j \in 1..(BLOCK_SIZE - CTR_POS) |->
                      IF j = BLOCK_SIZE - CTR_POS THEN {<<"one">>} ELSE {}], Filled(r), CTR_POS)
           = r \o ZeroBlock(BLOCK_SIZE - CTR_POS - 1) \o <<{<<"one">>}>>
<1> DEFINE b == BLOCK_SIZE
           p == CTR_POS
           k == b - p - 1
           x == {<<"one">>}
           X == Byte \cup {{}, x}
           f == [j \in 1..(k + 1) |-> IF j = k + 1 THEN x ELSE {}]
           z == ZeroBlock(k)
           o == <<x>>
           y == Filled(r)
           v == r \o f
<1>1. k \in Nat /\ b \in Nat /\ p \in Nat /\ k + 1 = b - p /\ p < b
  BY GcmAssumption
<1>2. f = [j \in 1..(b - p) |-> IF j = b - p THEN x ELSE {}]
  BY <1>1
<1> HIDE DEF k, x
<1>3. z \o o = f /\ z \in Seq({{}, x}) /\ o \in Seq({{}, x}) /\ f \in Seq({{}, x}) /\ Len(f) = k + 1
  BY <1>1, LastByte, Zenon
<1> HIDE DEF f, z, o
<1>4. z \in Seq(X) /\ o \in Seq(X) /\ f \in Seq(X) /\ r \in Seq(X)
  BY <1>3
<1>5. y = [j \in 1..b |-> IF j <= p THEN r[j] ELSE {}]
  BY FilledBytes
<1> HIDE DEF X, y
<1>6. (r \o z) \o o = v
  <2>1. (r \o z) \o o = r \o (z \o o)
    <3>1. \A i, j, l \in Seq(X) : (i \o j) \o l = i \o (j \o l)
      BY ConcatAssociative, SMTT(60)
    <3> QED BY <1>4, <3>1, ZenonT(60)
  <2> QED BY <1>3, <2>1, Zenon
<1>7. /\ v \in Seq(X) /\ Len(v) = Len(r) + Len(f)
      /\ (\A i \in 1..Len(r) : v[i] = r[i])
      /\ \A i \in 1..Len(f) : v[Len(r) + i] = f[i]
  BY ONLY <1>4, Joined DEF v
<1> HIDE DEF v
<1>8. CopyBlock(f, y, p) = [j \in 1..b |-> IF j \in (p + 1)..(p + Len(f)) THEN f[j - p] ELSE y[j]]
  <2>1. DOMAIN y = 1..b
    BY <1>5
  <2> QED BY <2>1, Zenon DEF CopyBlock
<1>9. ASSUME NEW j \in 1..b
      PROVE  (IF j \in (p + 1)..(p + Len(f)) THEN f[j - p] ELSE y[j]) = v[j]
  <2>1. CASE j <= p
    <3>1. j \in 1..Len(r) /\ j \notin (p + 1)..(p + Len(f))
      BY <1>1, <2>1
    <3>2. y[j] = r[j]
      BY <1>5, <2>1
    <3> QED BY <1>7, <3>1, <3>2, Zenon
  <2>2. CASE j > p
    <3>1. j - p \in 1..Len(f) /\ Len(r) + (j - p) = j /\ j \in (p + 1)..(p + Len(f))
      BY <1>1, <1>3, <2>2
    <3>2. v[Len(r) + (j - p)] = f[j - p]
      BY <1>7, <3>1
    <3> QED BY <3>1, <3>2, Zenon
  <2> QED BY <1>1, <2>1, <2>2
<1>10. v = [j \in 1..b |-> v[j]]
  <2>1. Len(v) = b
    BY <1>1, <1>3, <1>7
  <2> QED BY <1>7, <2>1
<1>11. CopyBlock(f, y, p) = v
  BY <1>8, <1>9, <1>10, Zenon
<1>12. f = [j \in 1..(BLOCK_SIZE - CTR_POS) |-> IF j = BLOCK_SIZE - CTR_POS THEN {<<"one">>} ELSE {}]
  BY <1>2 DEF x
<1> QED BY <1>6, <1>11, <1>12, Zenon DEF y, z, o, k, x

\* The phase change makes block counter number 0 of the IV that was passed.
LEMMA InitialCounterOfIV ==
  ASSUME NEW c, NEW n \in Nat, c.ivLen = n,
         c.counter = [hash |-> c.counter.hash, inc |-> 0],
         Hashing(c.counter.hash, c.bufLen, <<>>, Data("iv", 0, n))
  PROVE  InitialCounter(c) = CounterAt(n, 0)
<1> DEFINE g == c.counter.hash
           b == BLOCK_SIZE
           s == Data("iv", 0, n)
           none == <<>>
<1>0. none \in Seq(Block)
  OBVIOUS
<1>1. s \in Seq(Byte) /\ Len(s) = n
  BY DataBytes
<1>2. CASE n = CTR_POS
  <2>1. PICK w \in Seq(Byte), r \in Seq(Byte), q \in Nat :
          /\ s = w \o r /\ Len(w) = b * q
          /\ Len(r) = c.bufLen /\ c.bufLen \in 0..(b - 1)
          /\ g = [done |-> none \o ZeroPadded(w, b), acc |-> Filled(r)]
    BY Zenon DEF Hashing
  <2>2. Len(w) < b
    <3>1. Len(s) = Len(w) + Len(r) /\ Len(w) \in Nat /\ Len(r) \in Nat
      BY <2>1, Joined
    <3>2. n < b /\ b \in Nat
      BY <1>2, GcmAssumption
    <3> HIDE DEF s, b
    <3> QED BY <1>1, <3>1, <3>2
  <2>3. w = <<>> /\ s = r
    <3>1. q = 0
      <4>1. CASE q # 0
        BY <2>1, <2>2, <4>1, Constants, OneBlock, q \in Nat \ {0}
      <4> QED BY <4>1
    <3>2. Len(w) = 0
      BY <2>1, <3>1, Constants, SMT
    <3>3. w = <<>>
      BY <3>2
    <3> QED BY <2>1, <3>3, ConcatEmptySeq
  <2>4. none \o ZeroPadded(w, b) = <<>>
    <3>1. ZeroPadded(w, b) = <<>>
      BY <2>3, CutNone, Constants
    <3> QED BY <1>0, <3>1, ConcatEmptySeq
  <2> DEFINE f == [j \in 1..(BLOCK_SIZE - CTR_POS) |->
                     IF j = BLOCK_SIZE - CTR_POS THEN {<<"one">>} ELSE {}]
             y == s \o ZeroBlock(BLOCK_SIZE - CTR_POS - 1) \o <<{<<"one">>}>>
  <2>5. CopyBlock(f, Filled(s), CTR_POS) = y
    BY <1>1, <1>2, ShortIVBlock
  <2>6. InitialCounter(c) = [c.counter EXCEPT !.hash.acc = CopyBlock(f, @, CTR_POS)]
    BY <1>2 DEF InitialCounter
  <2>7. g = [done |-> <<>>, acc |-> Filled(s)]
    BY <2>1, <2>3, <2>4, Zenon
  <2>8. CounterAt(n, 0) = [hash |-> [done |-> <<>>, acc |-> y], inc |-> 0]
    BY <1>2, Zenon DEF CounterAt, J0Hash
  <2> DEFINE a == Filled(s)
  <2> HIDE DEF f, y, a, g
  <2>9. c.counter = [hash |-> [done |-> <<>>, acc |-> a], inc |-> 0]
    BY <2>7 DEF g, a
  <2>10. InitialCounter(c) = [hash |-> [done |-> <<>>, acc |-> CopyBlock(f, a, CTR_POS)], inc |-> 0]
    BY <2>6, <2>9
  <2> QED BY <2>5, <2>8, <2>10, Zenon DEF a
<1>3. CASE n # CTR_POS
  <2> DEFINE g2 == IF c.bufLen # 0 THEN hashFun(g) ELSE g
             x == LengthBits(n)
             z == ZeroPadded(s, b)
             y == ZeroBlock(b - 1) \o <<x>>
  <2>1. g2 = [done |-> z, acc |-> ZeroBlock(b)]
    <3>1. Hashing(g, c.bufLen, none, s)
      OBVIOUS
    <3> HIDE DEF g, s, none
    <3>2. (IF c.bufLen # 0 THEN hashFun(g) ELSE g) = [done |-> none \o ZeroPadded(s, b), acc |-> ZeroBlock(b)]
      <4> DEFINE l == c.bufLen
      <4>1. Hashing(g, l, none, s)
        BY <3>1
      <4> HIDE DEF l
      <4>2. (IF l # 0 THEN hashFun(g) ELSE g) = [done |-> none \o ZeroPadded(s, BLOCK_SIZE), acc |-> ZeroBlock(BLOCK_SIZE)]
        BY ONLY <1>0, <4>1, HashingFinished
      <4> QED BY <4>2 DEF l
    <3>3. none \o z = z
      <4>1. z \in Seq(Block)
        BY <1>1, BytesAndBlocks, CutBlocks DEF Sets
      <4> HIDE DEF z
      <4> QED BY <4>1, ConcatEmptySeq DEF none
    <3> QED BY <3>2, <3>3, Zenon
  <2>2. InitialCounter(c) = [c.counter EXCEPT !.hash = hashFun([g2 EXCEPT !.acc = XorBlock(<<x>>, @, b - 1)])]
    BY <1>3, Zenon DEF InitialCounter, LengthBits
  <2>3. XorBlock(<<x>>, ZeroBlock(b), b - 1) = y
    BY LastByteOfZeros
  <2>4. CounterAt(n, 0) = [hash |-> [done |-> z \o <<y>>, acc |-> ZeroBlock(b)], inc |-> 0]
    BY <1>3, Zenon DEF CounterAt, J0Hash
  <2> DEFINE zero == ZeroBlock(b)
             xr == XorBlock(<<x>>, zero, b - 1)
             Y == Block \cup {y}
  <2>5. Append(z, y) = z \o <<y>>
    <3>1. z \in Seq(Block)
      BY <1>1, BytesAndBlocks, CutBlocks DEF Sets
    <3> HIDE DEF z, y
    <3>2. z \in Seq(Y) /\ y \in Y
      BY <3>1
    <3> HIDE DEF Y
    <3> QED BY ONLY <3>2, AppendIsConcat
  <2> HIDE DEF g, g2, x, z, y, zero
  <2>6. [g2 EXCEPT !.acc = XorBlock(<<x>>, @, b - 1)] = [done |-> z, acc |-> xr]
    BY <2>1 DEF zero
  <2> HIDE DEF xr
  <2>7. hashFun([g2 EXCEPT !.acc = XorBlock(<<x>>, @, b - 1)]) = [done |-> Append(z, xr), acc |-> zero]
    BY <2>6 DEF hashFun, zero
  <2>8. InitialCounter(c) = [hash |-> [done |-> Append(z, xr), acc |-> zero], inc |-> 0]
    <3> DEFINE new == hashFun([g2 EXCEPT !.acc = XorBlock(<<x>>, @, b - 1)])
    <3>1. InitialCounter(c) = [c.counter EXCEPT !.hash = new]
      BY <2>2
    <3>2. new = [done |-> Append(z, xr), acc |-> zero]
      BY <2>7
    <3> HIDE DEF new
    <3>3. c.counter = [hash |-> g, inc |-> 0]
      BY DEF g
    <3>4. [c.counter EXCEPT !.hash = new] = [hash |-> new, inc |-> 0]
      BY <3>3
    <3> QED BY <3>1, <3>2, <3>4, Zenon
  <2>9. xr = y
    BY <2>3 DEF xr, zero
  <2> QED BY <2>4, <2>5, <2>8, <2>9, Zenon DEF zero
<1> QED BY <1>2, <1>3

-----------------------------------------------------------------------------
(* Counter mode.                                                           *)

\* The key stream byte for byte i of the text.
KeyByte(n, i) == {<<"E", CounterAt(n, 1 + ((i - 1) \div BLOCK_SIZE)), ((i - 1) % BLOCK_SIZE) + 1>>}

\* An encrypted counter block.
LEMMA EncryptedCounter ==
  ASSUME NEW n \in Nat, NEW k \in Nat
  PROVE  /\ E(CounterAt(n, k)) \in Seq(Byte) /\ Len(E(CounterAt(n, k))) = BLOCK_SIZE
         /\ \A j \in 1..BLOCK_SIZE : E(CounterAt(n, k))[j] = {<<"E", CounterAt(n, k), j>>}
<1>1. E(CounterAt(n, k)) = [j \in 1..BLOCK_SIZE |-> {<<"E", CounterAt(n, k), j>>}]
  BY DEF E
<1>2. ASSUME NEW j \in 1..BLOCK_SIZE PROVE {<<"E", CounterAt(n, k), j>>} \in Byte
  <2>1. j \in Nat
    BY Constants
  <2>2. CounterAt(n, k) \in {CounterAt(i, d) : i \in Nat, d \in Nat}
    OBVIOUS
  <2> QED BY <2>1, <2>2 DEF Byte, Atom
<1>3. E(CounterAt(n, k)) \in [1..BLOCK_SIZE -> Byte]
  BY <1>1, <1>2
<1>4. BLOCK_SIZE \in Nat
  BY Constants
<1> QED BY <1>1, <1>3, <1>4

\* The place of a text byte in the key stream.
LEMMA KeyPlace ==
  ASSUME NEW n \in Nat, NEW q \in Nat, NEW j \in 1..BLOCK_SIZE, NEW i \in Nat, i = BLOCK_SIZE * q + j
  PROVE  KeyByte(n, i) = E(CounterAt(n, 1 + q))[j]
<1> DEFINE d == (i - 1) \div BLOCK_SIZE
           r == (i - 1) % BLOCK_SIZE
           j1 == j - 1
<1>1. j1 \in 0..(BLOCK_SIZE - 1) /\ j1 + 1 = j
  BY Constants
<1>2. i - 1 = BLOCK_SIZE * q + j1
  <2>1. BLOCK_SIZE * q \in Nat
    BY Constants, SMT
  <2> QED BY <2>1, Constants
<1> HIDE DEF j1
<1>3. d = q /\ r = j1
  BY <1>1, <1>2, Constants, DivModOfSplit
<1>4. KeyByte(n, i) = {<<"E", CounterAt(n, 1 + d), r + 1>>}
  BY DEF KeyByte
<1> HIDE DEF d, r
<1>5. E(CounterAt(n, 1 + q))[j] = {<<"E", CounterAt(n, 1 + q), j>>}
  <2> DEFINE u == 1 + q
  <2>1. u \in Nat
    OBVIOUS
  <2> HIDE DEF u
  <2>2. \A a \in 1..BLOCK_SIZE : E(CounterAt(n, u))[a] = {<<"E", CounterAt(n, u), a>>}
    BY <2>1, EncryptedCounter
  <2> QED BY <2>2, ZenonT(60) DEF u
<1> QED BY <1>1, <1>3, <1>4, <1>5, Zenon

\* The counter does not wrap as long as it is not moved beyond its width.
LEMMA Advance ==
  ASSUME NEW n, NEW k \in Nat, NEW d \in Nat, k + d < CTR_MOD
  PROVE  IncrementCounter32(CounterAt(n, k), d) = CounterAt(n, k + d)
<1>1. (k + d) % CTR_MOD = k + d
  <2> DEFINE x == k + d
  <2>1. x \in 0..(CTR_MOD - 1)
    BY Constants
  <2> HIDE DEF x
  <2>2. x % CTR_MOD = x
    BY <2>1, Constants, ModOfSmall
  <2> QED BY <2>2 DEF x
<1>2. IncrementCounter32(CounterAt(n, k), d) = CounterAt(n, (k + d) % CTR_MOD)
  <2> DEFINE h == J0Hash(n)
  <2>1. CounterAt(n, k) = [hash |-> h, inc |-> k]
    BY DEF CounterAt
  <2>2. CounterAt(n, (k + d) % CTR_MOD) = [hash |-> h, inc |-> (k + d) % CTR_MOD]
    BY DEF CounterAt
  <2> HIDE DEF h
  <2> QED BY <2>1, <2>2 DEF IncrementCounter32
<1> QED BY <1>1, <1>2, Zenon

\* The parts of a chunk begin and end where counter blocks do.
LEMMA TextParts ==
  ASSUME NEW l \in Nat, NEW m \in Nat
  PROVE  LET f == l % BLOCK_SIZE
             q == l \div BLOCK_SIZE
             head == HeadLen(f, m)
             full == f + head = BLOCK_SIZE
             main == WholeBlocks(m - head)
             rest == (m - head) - main
             k == main \div BLOCK_SIZE
             q1 == IF full THEN q + 1 ELSE q
         IN  /\ f \in 0..(BLOCK_SIZE - 1) /\ q \in Nat /\ l = BLOCK_SIZE * q + f
             /\ head \in 0..m /\ f + head <= BLOCK_SIZE /\ main \in 0..(m - head) /\ rest \in 0..(BLOCK_SIZE - 1)
             /\ k \in Nat /\ main = BLOCK_SIZE * k /\ q1 \in Nat
             /\ (l + m) \div BLOCK_SIZE = q1 + k
             /\ (l + head = BLOCK_SIZE * q1 \/ (main = 0 /\ rest = 0 /\ k = 0))
<1> DEFINE b == BLOCK_SIZE
           f == l % b
           q == l \div b
           head == HeadLen(f, m)
           full == f + head = b
           main == WholeBlocks(m - head)
           rest == (m - head) - main
           k == main \div b
           q1 == IF full THEN q + 1 ELSE q
<1>1. f \in 0..(b - 1) /\ q \in Nat /\ l = b * q + f
  BY Constants, DivMod
<1> HIDE DEF f, q
<1>2. /\ head \in 0..m /\ main \in 0..(m - head) /\ rest \in 0..(b - 1)
      /\ k \in Nat /\ main = b * k
      /\ (IF full THEN 1 ELSE 0) + k = (f + m) \div b
  BY <1>1, ChunkParts
<1>3. f + head <= b
  BY <1>1, Constants DEF HeadLen, IPP_MIN
<1>4. b * q \in Nat /\ b * k \in Nat /\ b * (q + 1) = b * q + b
  BY <1>1, <1>2, Constants, SMT
<1>5. l + head = b * q1 \/ (main = 0 /\ rest = 0)
  <2>1. CASE f = 0
    <3>1. head = 0 /\ ~full
      BY <2>1, Constants DEF HeadLen
    <3> QED BY <1>1, <1>4, <2>1, <3>1
  <2>2. CASE f # 0 /\ full
    <3>1. q1 = q + 1 /\ f + head = b
      BY <2>2
    <3>2. l + head = b * q + b
      <4> DEFINE u == b * q
      <4>1. u \in Nat /\ l = u + f /\ f \in Nat /\ head \in Nat /\ f + head = b
        BY <1>1, <1>2, <1>4, <3>1, Constants
      <4> HIDE DEF u, head
      <4>2. l + head = u + b
        BY ONLY <4>1
      <4> QED BY <4>2 DEF u
    <3> QED BY <1>4, <3>1, <3>2, Zenon
  <2>3. CASE f # 0 /\ ~full
    <3>1. head = m
      BY <1>1, <2>3, Constants DEF HeadLen, IPP_MIN
    <3> HIDE DEF head
    <3>2. m - head = 0 /\ main \in 0..(m - head)
      BY <1>2, <3>1
    <3> HIDE DEF main
    <3> QED BY <3>2
  <2> QED BY <2>1, <2>2, <2>3
<1>6. main = 0 => k = 0
  <2> HIDE DEF main, k
  <2> QED BY <1>2, Constants, OneBlock
<1>7. (l + m) \div b = q1 + k
  <2> DEFINE x == f + m
             d == x \div b
             r == x % b
  <2>1. x \in Nat
    BY <1>1, Constants
  <2> HIDE DEF x
  <2>2. r \in 0..(b - 1) /\ d \in Nat /\ x = b * d + r
    BY <2>1, Constants, DivMod
  <2>3. q1 + k = q + d
    BY <1>1, <1>2 DEF x
  <2> HIDE DEF d, r
  <2>4. b * (q + d) = b * q + b * d /\ b * d \in Nat
    BY <1>1, <2>2, Constants, SMT
  <2>5. l + m = b * (q + d) + r
    BY <1>1, <1>4, <2>2, <2>4, Constants DEF x
  <2>6. q + d \in Nat
    BY <1>1, <2>2
  <2>7. (l + m) \div b = q + d
    BY <2>2, <2>5, <2>6, Constants, DivModOfSplit
  <2> QED BY <2>3, <2>7
<1>8. q1 \in Nat
  BY <1>1
<1> QED BY <1>1, <1>2, <1>3, <1>5, <1>6, <1>7, <1>8, ZenonT(60) DEF f, q

\* A chunk of text is XORed with its part of the key stream, and the counter
\* block in use is encrypted again.
LEMMA CtrModeText ==
  ASSUME NEW c, NEW n \in Nat, NEW l \in Nat, NEW src \in Seq(Byte),
         c.bufLen = l % BLOCK_SIZE, c.counter = CounterAt(n, 1 + (l \div BLOCK_SIZE)),
         c.ecounter = E(c.counter), 1 + ((l + Len(src)) \div BLOCK_SIZE) < CTR_MOD
  PROVE  LET t == CtrMode(c, src)
         IN  /\ t.counter = CounterAt(n, 1 + ((l + Len(src)) \div BLOCK_SIZE))
             /\ t.ecounter = E(t.counter)
             /\ t.dst = [i \in 1..Len(src) |-> Xor(src[i], KeyByte(n, l + i))]
<1> DEFINE b == BLOCK_SIZE
           m == Len(src)
           f == l % b
           q == l \div b
           head == HeadLen(f, m)
           full == f + head = b
           main == WholeBlocks(m - head)
           rest == (m - head) - main
           k == main \div b
           q1 == IF full THEN q + 1 ELSE q
           ctr1 == IF full THEN IncrementCounter32(c.counter, 1) ELSE c.counter
           ectr1 == IF full THEN E(ctr1) ELSE c.ecounter
           ctr2 == IncrementCounter32(ctr1, k)
           ectr2 == IF main > 0 THEN E(ctr2) ELSE ectr1
           byte(i) == LET d == (i - 1) \div b
                          block == IF d = 0 THEN ectr1 ELSE E(IncrementCounter32(ctr1, d))
                      IN  block[((i - 1) % b) + 1]
           A == SubSeq(c.ecounter, f + 1, f + head)
           B == [i \in 1..main |-> byte(i)]
           C == SubSeq(ectr2, 1, rest)
           keystream == (A \o B) \o C
           t == CtrMode(c, src)
<1>1. /\ f \in 0..(b - 1) /\ q \in Nat /\ l = b * q + f
      /\ head \in 0..m /\ f + head <= b /\ main \in 0..(m - head) /\ rest \in 0..(b - 1)
      /\ k \in Nat /\ main = b * k /\ q1 \in Nat
      /\ (l + m) \div b = q1 + k
      /\ (l + head = b * q1 \/ (main = 0 /\ rest = 0 /\ k = 0))
  BY TextParts
<1>2. b \in Nat \ {0} /\ m \in Nat /\ CTR_MOD \in Nat
  BY Constants
<1>3. /\ t.counter = ctr2 /\ t.ecounter = ectr2
      /\ t.dst = [i \in DOMAIN src |-> Xor(src[i], keystream[i])]
  BY Zenon DEF CtrMode
<1> HIDE DEF t, keystream, f, q, head, main, k, m
<1>4. 1 + q1 + k < CTR_MOD /\ q1 + k = (l + m) \div b
  BY <1>1, SMTT(60) DEF m
<1>5. ctr1 = CounterAt(n, 1 + q1) /\ ectr1 = E(ctr1)
  <2>1. CASE full
    <3>1. IncrementCounter32(CounterAt(n, 1 + q), 1) = CounterAt(n, (1 + q) + 1)
      <4>1. (1 + q) + 1 < CTR_MOD /\ 1 + q \in Nat /\ 1 \in Nat
        BY <1>1, <1>2, <1>4, <2>1
      <4> DEFINE u == 1 + q
                 one == 1
      <4>2. u \in Nat /\ one \in Nat /\ u + one < CTR_MOD
        BY <4>1
      <4> HIDE DEF u, one
      <4>3. IncrementCounter32(CounterAt(n, u), one) = CounterAt(n, u + one)
        BY <4>2, Advance
      <4> QED BY <4>3 DEF u, one
    <3>2. (1 + q) + 1 = 1 + q1
      BY <1>1, <2>1
    <3> QED BY <2>1, <3>1, <3>2, Zenon DEF q
  <2>2. CASE ~full
    BY <2>2, Zenon DEF q
  <2> QED BY <2>1, <2>2
<1> HIDE DEF full, q1, ctr1, ectr1
<1>6. \A d \in 0..k : IncrementCounter32(ctr1, d) = CounterAt(n, 1 + (q1 + d))
  <2>1. ASSUME NEW d \in 0..k PROVE IncrementCounter32(ctr1, d) = CounterAt(n, 1 + (q1 + d))
    <3> DEFINE u == 1 + q1
    <3>1. u \in Nat /\ d \in Nat /\ u + d < CTR_MOD /\ u + d = 1 + (q1 + d)
      BY <1>1, <1>2, <1>4
    <3>2. ctr1 = CounterAt(n, u)
      BY <1>5
    <3> HIDE DEF u
    <3>3. IncrementCounter32(CounterAt(n, u), d) = CounterAt(n, u + d)
      BY <3>1, Advance
    <3> QED BY <3>1, <3>2, <3>3, Zenon
  <2> QED BY <2>1
<1>7. ctr2 = CounterAt(n, 1 + (q1 + k)) /\ ectr2 = E(ctr2)
  <2>1. ctr2 = CounterAt(n, 1 + (q1 + k))
    BY <1>1, <1>6, k \in 0..k
  <2> HIDE DEF ctr2
  <2>2. CASE main > 0
    BY <2>1, <2>2, Zenon
  <2>3. CASE ~(main > 0)
    <3>1. k = 0
      BY <1>1, <1>2, <2>3, OneBlock
    <3>2. 1 + (q1 + k) = 1 + q1
      BY <1>1, <3>1
    <3>3. ctr2 = ctr1
      BY <1>5, <2>1, <3>2, Zenon
    <3> QED BY <1>5, <2>1, <2>3, <3>3, Zenon
  <2> QED BY <2>1, <2>2, <2>3
<1> HIDE DEF ctr2, ectr2
<1>8. /\ A \in Seq(Byte) /\ Len(A) = head
      /\ \A i \in 1..head : A[i] = KeyByte(n, l + i)
  <2> DEFINE e == c.ecounter
             u == 1 + q
             hi == f + head
  <2>1. u \in Nat /\ e = E(CounterAt(n, u))
    BY <1>1, SMTT(60) DEF q
  <2>2. f \in Nat /\ hi \in Nat /\ f <= hi /\ hi <= b /\ hi - f = head
    BY <1>1, <1>2
  <2>3. e \in Seq(Byte) /\ Len(e) = b
    BY <2>1, EncryptedCounter
  <2> HIDE DEF e, hi
  <2>4. /\ SubSeq(e, f + 1, hi) \in Seq(Byte) /\ Len(SubSeq(e, f + 1, hi)) = hi - f
        /\ \A i \in 1..(hi - f) : SubSeq(e, f + 1, hi)[i] = e[f + i]
    <3>1. hi <= Len(e)
      BY <2>2, <2>3
    <3> QED BY ONLY <2>2, <2>3, <3>1, Part
  <2>5. A = SubSeq(e, f + 1, hi)
    BY DEF e, hi
  <2> HIDE DEF A, u
  <2>6. ASSUME NEW i \in 1..head PROVE A[i] = KeyByte(n, l + i)
    <3> DEFINE j == f + i
               x == l + i
    <3>1. j \in 1..b /\ x \in Nat /\ x = b * q + j
      <4>1. b * q \in Nat
        BY <1>1, <1>2, SMT
      <4> QED BY <1>1, <1>2, <4>1
    <3>2. A[i] = e[j]
      BY <2>2, <2>4, <2>5
    <3> HIDE DEF j, x
    <3>3. KeyByte(n, x) = E(CounterAt(n, 1 + q))[j]
      BY ONLY <1>1, <3>1, n \in Nat, KeyPlace, SMTT(60)
    <3> QED BY <2>1, <3>2, <3>3, Zenon DEF u, x
  <2> QED BY <2>2, <2>4, <2>5, <2>6
<1>9. /\ B \in Seq(Byte) /\ Len(B) = main
      /\ \A i \in 1..main : B[i] = KeyByte(n, (l + head) + i)
  <2>1. ASSUME NEW i \in 1..main PROVE byte(i) = KeyByte(n, (l + head) + i) /\ byte(i) \in Byte
    <3> DEFINE d == (i - 1) \div b
               r == (i - 1) % b
               j == r + 1
               x == (l + head) + i
               p == q1 + d
    <3>1. i - 1 \in Nat /\ main \in Nat /\ main # 0 /\ i <= main
      BY <1>1, <1>2
    <3>2. r \in 0..(b - 1) /\ d \in Nat /\ i - 1 = b * d + r
      BY <1>2, <3>1, DivMod
    <3>3. byte(i) = (IF d = 0 THEN ectr1 ELSE E(IncrementCounter32(ctr1, d)))[j]
      OBVIOUS
    <3> HIDE DEF d, r, byte
    <3>4. j \in 1..b /\ p \in Nat
      BY <1>1, <1>2, <3>2
    <3>5. d <= k
      <4>1. CASE d > k
        <5>1. d - k \in Nat \ {0}
          BY <1>1, <3>2, <4>1
        <5>2. b * (d - k) >= b
          BY <1>2, <5>1, OneBlock
        <5>3. b * (d - k) = b * d - b * k /\ b * d \in Nat /\ b * k \in Nat
          BY <1>1, <1>2, <3>2, SMT
        <5> QED BY <1>1, <1>2, <3>1, <3>2, <5>2, <5>3
      <4> QED BY <1>1, <3>2, <4>1
    <3>6. (IF d = 0 THEN ectr1 ELSE E(IncrementCounter32(ctr1, d))) = E(CounterAt(n, 1 + p))
      <4>1. CASE d = 0
        <5>1. p = q1
          BY <1>1, <4>1
        <5> QED BY <1>5, <4>1, <5>1
      <4>2. CASE d # 0
        BY <1>6, <3>2, <3>5, <4>2, d \in 0..k
      <4> QED BY <4>1, <4>2
    <3>7. x \in Nat /\ x = b * p + j
      <4>1. l + head = b * q1
        BY <1>1, <3>1
      <4>2. b * p = b * q1 + b * d /\ b * q1 \in Nat /\ b * d \in Nat
        BY <1>1, <1>2, <3>2, SMT
      <4> DEFINE s1 == b * q1
                 s2 == b * d
                 s3 == b * p
      <4>3. s1 \in Nat /\ s2 \in Nat /\ s3 = s1 + s2 /\ i - 1 = s2 + r /\ x = s1 + i /\ r \in Nat /\ i \in Nat
        BY <3>1, <3>2, <4>1, <4>2, <1>2
      <4> HIDE DEF s1, s2, s3, x
      <4> QED BY <4>3 DEF s3
    <3> HIDE DEF j, x, p
    <3>8. KeyByte(n, x) = E(CounterAt(n, 1 + p))[j]
      BY <3>4, <3>7, KeyPlace
    <3>9. E(CounterAt(n, 1 + p))[j] \in Byte
      <4> DEFINE u == 1 + p
      <4>1. u \in Nat
        BY <3>4
      <4> HIDE DEF u
      <4>2. E(CounterAt(n, u)) \in Seq(Byte) /\ Len(E(CounterAt(n, u))) = b
        BY <4>1, EncryptedCounter
      <4>3. E(CounterAt(n, u))[j] \in Byte
        BY <3>4, <4>2
      <4> QED BY <4>3 DEF u
    <3> QED BY <3>3, <3>6, <3>8, <3>9, Zenon DEF x
  <2> HIDE DEF byte
  <2>2. main \in Nat
    BY <1>1, <1>2
  <2> QED BY <2>1, <2>2
<1>10. /\ C \in Seq(Byte) /\ Len(C) = rest
       /\ \A i \in 1..rest : C[i] = KeyByte(n, (l + head + main) + i)
  <2> DEFINE none == 0
             u == 1 + (q1 + k)
             w == rest
  <2>1. u \in Nat /\ none \in Nat /\ w \in Nat /\ none <= w /\ w <= b /\ w - none = w /\ none + 1 = 1
        /\ \A i \in 1..w : none + i = i
    BY <1>1, <1>2
  <2>2. ectr2 = E(CounterAt(n, u))
    BY <1>7
  <2> HIDE DEF u, none, w
  <2>3. ectr2 \in Seq(Byte) /\ Len(ectr2) = b
    BY <2>1, <2>2, EncryptedCounter
  <2>4. /\ SubSeq(ectr2, none + 1, w) \in Seq(Byte) /\ Len(SubSeq(ectr2, none + 1, w)) = w - none
        /\ \A i \in 1..(w - none) : SubSeq(ectr2, none + 1, w)[i] = ectr2[none + i]
    <3>1. none \in Nat /\ w \in Nat /\ none <= w /\ w <= Len(ectr2)
      BY <2>1, <2>3
    <3> QED BY ONLY <2>3, <3>1, Part
  <2>5. C = SubSeq(ectr2, none + 1, w)
    BY <2>1 DEF w
  <2> HIDE DEF C
  <2>6. ASSUME NEW i \in 1..w PROVE C[i] = KeyByte(n, (l + head + main) + i)
    <3> DEFINE x == (l + head + main) + i
               p == q1 + k
    <3>1. i \in 1..b
      BY <1>2, <2>1
    <3>2. x \in Nat /\ p \in Nat /\ x = b * p + i
      <4>1. l + head = b * q1
        BY <1>1, <2>1 DEF w
      <4>2. b * p = b * q1 + b * k /\ b * q1 \in Nat
        BY <1>1, <1>2, SMT
      <4> DEFINE s1 == b * q1
                 s2 == b * p
      <4>3. s1 \in Nat /\ s2 = s1 + main /\ main \in Nat /\ x = s1 + main + i /\ i \in Nat /\ p \in Nat
        BY <1>1, <1>2, <3>1, <4>1, <4>2
      <4> HIDE DEF s1, s2, x, p
      <4> QED BY <4>3 DEF s2
    <3> HIDE DEF x, p
    <3>3. KeyByte(n, x) = E(CounterAt(n, 1 + p))[i]
      BY <3>1, <3>2, KeyPlace
    <3>4. C[i] = ectr2[i]
      BY <2>1, <2>4, <2>5
    <3> QED BY <2>2, <3>3, <3>4, Zenon DEF u, p, x
  <2> QED BY <2>1, <2>4, <2>5, <2>6 DEF w
<1> HIDE DEF A, B, C
<1>11. ASSUME NEW i \in 1..m PROVE keystream[i] = KeyByte(n, l + i)
  <2> DEFINE D == A \o B
  <2>1. /\ D \in Seq(Byte) /\ Len(D) = Len(A) + Len(B)
        /\ \A j \in 1..Len(A) : D[j] = A[j]
        /\ \A j \in 1..Len(B) : D[Len(A) + j] = B[j]
    <3>1. A \in Seq(Byte) /\ B \in Seq(Byte)
      BY <1>8, <1>9
    <3> QED BY ONLY <3>1, Joined DEF D
  <2> HIDE DEF D
  <2>2. /\ \A j \in 1..Len(D) : (D \o C)[j] = D[j]
        /\ \A j \in 1..Len(C) : (D \o C)[Len(D) + j] = C[j]
    <3>1. C \in Seq(Byte) /\ D \in Seq(Byte)
      BY <1>10, <2>1
    <3> QED BY ONLY <3>1, Joined
  <2>3. keystream = D \o C
    BY Zenon DEF keystream, D
  <2>4. head \in Nat /\ main \in Nat /\ rest \in Nat /\ head + main + rest = m /\ i \in Nat
    BY <1>1, <1>2
  <2> HIDE DEF rest
  <2>5. Len(A) = head /\ Len(B) = main /\ Len(C) = rest /\ Len(D) = head + main
    BY <1>8, <1>9, <1>10, <2>1
  <2>6. CASE i <= head
    <3>1. i \in 1..head /\ i \in 1..Len(A) /\ i \in 1..Len(D)
      BY <2>4, <2>5, <2>6
    <3> QED BY <1>8, <2>1, <2>2, <2>3, <3>1, Zenon
  <2>7. CASE i > head /\ i <= head + main
    <3> DEFINE j == i - head
    <3>1. j \in 1..main /\ i \in 1..Len(D) /\ head + j = i /\ (l + head) + j = l + i
      BY <2>4, <2>5, <2>7
    <3> HIDE DEF j
    <3>2. D[head + j] = B[j]
      BY <2>1, <2>5, <3>1
    <3>3. keystream[i] = D[i]
      BY <2>2, <2>3, <3>1, Zenon
    <3>4. B[j] = KeyByte(n, (l + head) + j)
      BY <1>9, <3>1, Zenon
    <3> QED BY <3>1, <3>2, <3>3, <3>4, Zenon
  <2>8. CASE i > head + main
    <3> DEFINE j == i - (head + main)
    <3>1. j \in 1..rest /\ Len(D) + j = i /\ (l + head + main) + j = l + i /\ j \in 1..Len(C)
      BY <2>4, <2>5, <2>8, i \in 1..m
    <3> HIDE DEF j
    <3>2. (D \o C)[Len(D) + j] = C[j]
      BY <2>2, <3>1, Zenon
    <3>3. C[j] = KeyByte(n, (l + head + main) + j)
      BY <1>10, <3>1, Zenon DEF rest
    <3> QED BY <2>3, <3>1, <3>2, <3>3, Zenon
  <2> QED BY <2>4, <2>6, <2>7, <2>8
<1>12. DOMAIN src = 1..m
  BY DEF m
<1>13. t.dst = [i \in 1..m |-> Xor(src[i], KeyByte(n, l + i))]
  BY <1>3, <1>11, <1>12, Zenon
<1>14. t.counter = CounterAt(n, 1 + ((l + m) \div b)) /\ t.ecounter = E(t.counter)
  BY <1>3, <1>4, <1>7, Zenon
<1> QED BY <1>13, <1>14, Zenon DEF t, m

-----------------------------------------------------------------------------
(* What the context holds of the message, phase by phase.                  *)

\* The ciphertext of the text t under the IV of n bytes.
Cipher(n, t) ==
  [i \in DOMAIN t |-> IF t[i] = "Encrypt" THEN Xor({<<"txt", i>>}, KeyByte(n, i)) ELSE {<<"txt", i>>}]

AADBlocks(k) == ZeroPadded(Data("aad", 0, k), BLOCK_SIZE)

TracedIV(c, m) ==
  /\ c.state \in {"GcmInit", "GcmIVprocessing"}
  /\ Hashing(c.counter.hash, c.bufLen, <<>>, Data("iv", 0, m.iv))
  /\ c.ghash = EmptyHash

TracedAAD(c, m) ==
  /\ c.state = "GcmAADprocessing"
  /\ m.iv > 0
  /\ c.counter = CounterAt(m.iv, 0) /\ c.ecounter0 = E(CounterAt(m.iv, 0))
  /\ Hashing(c.ghash, c.bufLen, <<>>, Data("aad", 0, m.aad))

TracedText(c, m) ==
  /\ c.state = "GcmTXTprocessing"
  /\ m.iv > 0
  /\ c.counter = CounterAt(m.iv, 1 + (Len(m.txt) \div BLOCK_SIZE))
  /\ c.ecounter = E(c.counter) /\ c.ecounter0 = E(CounterAt(m.iv, 0))
  /\ Hashing(c.ghash, c.bufLen, AADBlocks(m.aad), Cipher(m.iv, m.txt))

\* The length fields hold the lengths themselves: a call that would make one
\* of them wrap is rejected.
Traced(c, m) ==
  /\ Good(c, m)
  /\ m.iv < LEN_MOD /\ m.aad < LEN_MOD
  /\ TracedIV(c, m) \/ TracedAAD(c, m) \/ TracedText(c, m)

\* An accumulator that has not been used has hashed nothing.
LEMMA EmptyHashing ==
  ASSUME NEW kind
  PROVE  Data(kind, 0, 0) = <<>> /\ Hashing(EmptyHash, 0, <<>>, Data(kind, 0, 0))
<1>1. Data(kind, 0, 0) = <<>>
  BY DEF Data
<1>2. Hashing([done |-> <<>>, acc |-> ZeroBlock(BLOCK_SIZE)], 0, <<>>, <<>>)
  <2> DEFINE front == <<>>
  <2>1. front \in Seq(Block)
    OBVIOUS
  <2> HIDE DEF front
  <2>2. Hashing([done |-> front, acc |-> ZeroBlock(BLOCK_SIZE)], 0, front, <<>>)
    BY <2>1, HashingStarts
  <2> QED BY <2>2 DEF front
<1> QED BY <1>1, <1>2, Zenon DEF EmptyHash

\* After a reset nothing has been passed.
LEMMA ResetTraced ==
  ASSUME NEW c
  PROVE  Traced(Reset(c), NoMsg)
<1> DEFINE r == Reset(c)
<1>1. Good(r, NoMsg)
  BY ResetGood
<1>2. /\ r.state = "GcmInit" /\ r.bufLen = 0 /\ r.counter.hash = EmptyHash /\ r.ghash = EmptyHash
  BY DEF Reset
<1>3. NoMsg.iv = 0 /\ NoMsg.aad = 0
  BY DEF NoMsg
<1> HIDE DEF r
<1>4. TracedIV(r, NoMsg)
  BY <1>2, <1>3, EmptyHashing, Zenon DEF TracedIV
<1>5. 0 < LEN_MOD
  BY Constants
<1> QED BY <1>1, <1>3, <1>4, <1>5, Zenon DEF Traced, r

\* ProcessIV hashes the bytes of the IV.
LEMMA IVTraced ==
  ASSUME NEW c, NEW m, NEW n \in Nat, Traced(c, m),
         c.state \in {"GcmInit", "GcmIVprocessing"}, m.iv + n < LEN_MOD
  PROVE  Traced(ProcessIV(c, Data("iv", m.iv, n)), [m EXCEPT !.iv = @ + n])
<1> DEFINE s == Data("iv", m.iv, n)
           a == Absorb(c.counter.hash, c.bufLen, s)
           r == ProcessIV(c, s)
           m2 == [m EXCEPT !.iv = @ + n]
           old == Data("iv", 0, m.iv)
           none == <<>>
<1>1. Good(c, m) /\ TracedIV(c, m)
  BY DEF Traced, TracedAAD, TracedText
<1>2. Good(r, m2) /\ r.state = "GcmIVprocessing"
  BY <1>1, IVGood, Zenon
<1>3. /\ Fields(c) /\ c.counter = [hash |-> c.counter.hash, inc |-> c.counter.inc]
      /\ m = [iv |-> m.iv, aad |-> m.aad, txt |-> m.txt] /\ m.iv \in Nat
  BY <1>1 DEF Good, Shape
<1>4. r.counter.hash = a.hash /\ r.bufLen = a.bufLen /\ r.ghash = c.ghash
  <2>1. r = [c EXCEPT !.state = "GcmIVprocessing", !.counter.hash = a.hash,
                      !.bufLen = a.bufLen, !.ivLen = (@ + Len(s)) % LEN_MOD]
    BY DEF ProcessIV
  <2> HIDE DEF s, a, r
  <2> QED BY <1>3, <2>1 DEF Fields
<1>5. m2.iv = m.iv + n /\ m2.aad = m.aad
  <2> HIDE DEF m2
  <2>1. m2 = [m EXCEPT !.iv = @ + n]
    BY DEF m2
  <2> QED BY <1>3, <2>1
<1>6. s \in Seq(Byte) /\ old \o s = Data("iv", 0, m.iv + n)
  BY <1>3, DataBytes, DataGoesOn
<1>7. none \in Seq(Block) /\ Hashing(c.counter.hash, c.bufLen, none, old)
  BY <1>1 DEF TracedIV
<1> HIDE DEF old, s, none
<1>8. Hashing(a.hash, a.bufLen, none, old \o s)
  <2> DEFINE g == c.counter.hash
             l == c.bufLen
  <2>1. Hashing(g, l, none, old)
    BY <1>7
  <2>2. a = Absorb(g, l, s)
    OBVIOUS
  <2> HIDE DEF g, l, a
  <2> QED BY ONLY <1>6, <1>7, <2>1, <2>2, AbsorbGoesOn
<1> HIDE DEF a, r, m2
<1>9. TracedIV(r, m2)
  BY <1>1, <1>2, <1>4, <1>5, <1>6, <1>8, Zenon DEF TracedIV, none
<1> QED BY <1>2, <1>5, <1>9, Zenon DEF Traced, r, m2, s

\* The end of the IV: the counter block number 0 and what it encrypts to.
LEMMA FinishIVTraced ==
  ASSUME NEW c, NEW m, Traced(c, m), c.state = "GcmIVprocessing", m.iv > 0
  PROVE  Good(FinishIV(c), m) /\ TracedAAD(FinishIV(c), m)
<1> DEFINE j0 == InitialCounter(c)
           r == FinishIV(c)
<1>1. Good(c, m) /\ TracedIV(c, m) /\ m.iv < LEN_MOD
  BY DEF Traced, TracedAAD, TracedText
<1>2. Good(r, m) /\ r.state = "GcmAADprocessing"
  BY <1>1, FinishIVGood, Zenon
<1>3. /\ Fields(c) /\ c.counter = [hash |-> c.counter.hash, inc |-> 0]
      /\ m.iv \in Nat /\ m.aad = 0 /\ c.ivLen = m.iv
  <2>1. /\ Fields(c) /\ c.counter = [hash |-> c.counter.hash, inc |-> 0]
        /\ m.iv \in Nat /\ m.aad = 0 /\ c.ivLen = m.iv % LEN_MOD
    BY <1>1 DEF Good, Shape, Phases, Lengths, Counter
  <2>2. m.iv \in 0..(LEN_MOD - 1)
    BY <1>1, <2>1, Constants
  <2>3. m.iv % LEN_MOD = m.iv
    BY <2>2, Constants, ModOfSmall
  <2> QED BY <2>1, <2>3
<1>4. r.counter = j0 /\ r.ecounter0 = E(j0) /\ r.bufLen = 0 /\ r.ghash = c.ghash
  <2>1. r = [c EXCEPT !.counter = j0, !.ecounter0 = E(j0),
                      !.state = "GcmAADprocessing", !.aadLen = 0, !.bufLen = 0]
    BY DEF FinishIV
  <2> HIDE DEF j0, r
  <2> QED BY <1>3, <2>1 DEF Fields
<1>5. j0 = CounterAt(m.iv, 0)
  <2>1. Hashing(c.counter.hash, c.bufLen, <<>>, Data("iv", 0, m.iv))
    BY <1>1 DEF TracedIV
  <2> QED BY <1>3, <2>1, InitialCounterOfIV
<1>6. c.ghash = EmptyHash
  BY <1>1 DEF TracedIV
<1> HIDE DEF r, j0
<1>7. TracedAAD(r, m)
  BY <1>2, <1>3, <1>4, <1>5, <1>6, EmptyHashing, Zenon DEF TracedAAD
<1> QED BY <1>2, <1>7 DEF r

\* ProcessAAD hashes the bytes of the AAD.
LEMMA AADTraced ==
  ASSUME NEW c, NEW m, NEW n \in Nat, Traced(c, m),
         c.state \in {"GcmIVprocessing", "GcmAADprocessing"}, m.iv > 0, m.aad + n < LEN_MOD
  PROVE  LET r == ProcessAAD(c, Data("aad", m.aad, n))
         IN  Traced(r, [m EXCEPT !.aad = @ + n]) /\ r.state = "GcmAADprocessing"
<1> DEFINE s == Data("aad", m.aad, n)
           c1 == IF c.state = "GcmIVprocessing" THEN FinishIV(c) ELSE c
           a == Absorb(c1.ghash, c1.bufLen, s)
           r == ProcessAAD(c, s)
           m2 == [m EXCEPT !.aad = @ + n]
           old == Data("aad", 0, m.aad)
           none == <<>>
<1>1. Good(c1, m) /\ TracedAAD(c1, m) /\ m.iv < LEN_MOD
  <2>1. m.iv < LEN_MOD /\ Good(c, m)
    BY DEF Traced
  <2>2. CASE c.state = "GcmIVprocessing"
    BY <2>1, <2>2, FinishIVTraced, Zenon
  <2>3. CASE c.state = "GcmAADprocessing"
    <3>1. c1 = c
      BY <2>3
    <3>2. TracedAAD(c, m)
      BY <2>3 DEF Traced, TracedIV, TracedText
    <3> QED BY <2>1, <3>1, <3>2, Zenon
  <2> QED BY <2>2, <2>3
<1>2. Good(r, m2)
  BY AADGood, Zenon DEF Traced
<1>3. r = [c1 EXCEPT !.ghash = a.hash, !.bufLen = a.bufLen, !.aadLen = (@ + Len(s)) % LEN_MOD]
  BY DEF ProcessAAD
<1>4. s \in Seq(Byte) /\ old \o s = Data("aad", 0, m.aad + n) /\ m.aad \in Nat
  <2>1. m.aad \in Nat
    BY DEF Traced, Good, Shape
  <2> QED BY <2>1, DataBytes, DataGoesOn
<1> HIDE DEF c1, r, s, old
<1>5. /\ Fields(c1) /\ m = [iv |-> m.iv, aad |-> m.aad, txt |-> m.txt]
  BY <1>1 DEF Good, Shape
<1>6. /\ r.state = "GcmAADprocessing" /\ r.ghash = a.hash /\ r.bufLen = a.bufLen
      /\ r.counter = c1.counter /\ r.ecounter0 = c1.ecounter0
  <2> HIDE DEF a
  <2>1. c1.state = "GcmAADprocessing"
    BY <1>1 DEF TracedAAD
  <2> QED BY <1>3, <1>5, <2>1 DEF Fields
<1>7. m2.iv = m.iv /\ m2.aad = m.aad + n
  <2> HIDE DEF m2
  <2>1. m2 = [m EXCEPT !.aad = @ + n]
    BY DEF m2
  <2> QED BY <1>5, <2>1
<1>8. none \in Seq(Block) /\ Hashing(c1.ghash, c1.bufLen, none, old)
  BY <1>1 DEF TracedAAD, old
<1> HIDE DEF none
<1>9. Hashing(a.hash, a.bufLen, none, old \o s)
  <2> DEFINE g == c1.ghash
             l == c1.bufLen
  <2>1. Hashing(g, l, none, old)
    BY <1>8
  <2>2. a = Absorb(g, l, s)
    OBVIOUS
  <2> HIDE DEF g, l, a
  <2> QED BY ONLY <1>4, <1>8, <2>1, <2>2, AbsorbGoesOn
<1> HIDE DEF a, m2
<1>10. TracedAAD(r, m2)
  BY <1>1, <1>4, <1>6, <1>7, <1>9, Zenon DEF TracedAAD, none
<1> QED BY <1>1, <1>2, <1>6, <1>7, <1>10, Zenon DEF Traced, r, m2, s

\* The end of the AAD: the blocks of the text follow those of the AAD, and
\* block counter number 1 is encrypted.
LEMMA FinishAADTraced ==
  ASSUME NEW c, NEW m, Good(c, m), TracedAAD(c, m)
  PROVE  Good(FinishAAD(c), m) /\ TracedText(FinishAAD(c), m)
<1> DEFINE r == FinishAAD(c)
           front == AADBlocks(m.aad)
           one == IncrementCounter32(c.counter, 1)
           g == IF c.bufLen # 0 THEN hashFun(c.ghash) ELSE c.ghash
<1>1. c.state = "GcmAADprocessing" /\ m.iv > 0 /\ c.counter = CounterAt(m.iv, 0)
      /\ c.ecounter0 = E(CounterAt(m.iv, 0))
  BY DEF TracedAAD
<1>2. Good(r, m) /\ r.state = "GcmTXTprocessing"
  BY <1>1, FinishAADGood, Zenon
<1>3. Fields(c) /\ m.txt = <<>> /\ m.aad \in Nat
  BY <1>1 DEF Good, Shape, Phases
<1>4. r.counter = one /\ r.ecounter = E(one) /\ r.ecounter0 = c.ecounter0 /\ r.bufLen = 0 /\ r.ghash = g
  <2>1. r = [c EXCEPT !.ghash = g, !.counter = one, !.ecounter = E(one),
                      !.state = "GcmTXTprocessing", !.txtLen = 0, !.bufLen = 0]
    BY DEF FinishAAD
  <2> HIDE DEF g, one, r
  <2> QED BY <1>3, <2>1 DEF Fields
<1>5. one = CounterAt(m.iv, 1 + (Len(m.txt) \div BLOCK_SIZE))
  <2> DEFINE z == 0
             u == 1
  <2>1. z \in Nat /\ u \in Nat /\ z + u < CTR_MOD /\ z + u = u
    BY Constants
  <2> HIDE DEF z, u
  <2>2. IncrementCounter32(CounterAt(m.iv, z), u) = CounterAt(m.iv, z + u)
    BY <2>1, Advance
  <2>3. 1 + (Len(m.txt) \div BLOCK_SIZE) = 1
    <3>1. Len(m.txt) = 0
      BY <1>3
    <3>2. 0 \div BLOCK_SIZE = 0
      <4>1. 0 = BLOCK_SIZE * 0 + 0 /\ 0 \in 0..(BLOCK_SIZE - 1)
        BY Constants
      <4> QED BY <4>1, Constants, DivModOfSplit
    <3> QED BY <3>1, <3>2
  <2> QED BY <1>1, <2>1, <2>2, <2>3, Zenon DEF z, u
<1>6. front \in Seq(Block)
  <2>1. Data("aad", 0, m.aad) \in Seq(Byte)
    BY <1>3, DataBytes
  <2> QED BY <2>1, BytesAndBlocks, CutBlocks DEF Sets, AADBlocks
<1>7. g = [done |-> front, acc |-> ZeroBlock(BLOCK_SIZE)]
  <2> DEFINE none == <<>>
             h == c.ghash
             l == c.bufLen
             d == Data("aad", 0, m.aad)
  <2>1. none \in Seq(Block) /\ Hashing(h, l, none, d)
    BY DEF TracedAAD
  <2> HIDE DEF none, h, l, d
  <2>2. (IF l # 0 THEN hashFun(h) ELSE h) = [done |-> none \o ZeroPadded(d, BLOCK_SIZE), acc |-> ZeroBlock(BLOCK_SIZE)]
    BY ONLY <2>1, HashingFinished
  <2>3. front = ZeroPadded(d, BLOCK_SIZE)
    BY DEF d, AADBlocks
  <2> HIDE DEF front
  <2>4. none \o front = front
    BY <1>6, ConcatEmptySeq DEF none
  <2> QED BY <2>2, <2>3, <2>4, Zenon DEF h, l
<1>8. Hashing(g, 0, front, Cipher(m.iv, m.txt))
  <2>1. Cipher(m.iv, m.txt) = <<>>
    BY <1>3 DEF Cipher
  <2> HIDE DEF front, g
  <2> QED BY <1>6, <1>7, <2>1, HashingStarts
<1> HIDE DEF r, g, one
<1>9. TracedText(r, m)
  BY <1>1, <1>2, <1>4, <1>5, <1>8, Zenon DEF TracedText
<1> QED BY <1>2, <1>9 DEF r

\* What the text byte i becomes when it is encrypted.
OutputByte(n, i) == Xor({<<"txt", i>>}, KeyByte(n, i))

\* Text, key stream and ciphertext consist of bytes.
LEMMA TextBytes ==
  ASSUME NEW n \in Nat, NEW i \in Nat \ {0}
  PROVE  {<<"txt", i>>} \in Byte /\ KeyByte(n, i) \in Byte /\ OutputByte(n, i) \in Byte
<1> DEFINE d == (i - 1) \div BLOCK_SIZE
           r == (i - 1) % BLOCK_SIZE
<1>1. d \in Nat /\ r \in Nat
  <2>1. i - 1 \in Nat
    OBVIOUS
  <2>2. r \in 0..(BLOCK_SIZE - 1) /\ d \in Nat
    BY <2>1, Constants, DivMod
  <2> QED BY <2>2, Constants
<1>2. KeyByte(n, i) = {<<"E", CounterAt(n, 1 + d), r + 1>>}
  BY DEF KeyByte
<1> HIDE DEF d, r
<1>3. KeyByte(n, i) \in Byte
  <2>1. CounterAt(n, 1 + d) \in {CounterAt(j, k) : j \in Nat, k \in Nat} /\ r + 1 \in Nat
    BY <1>1
  <2> QED BY <1>2, <2>1 DEF Byte, Atom
<1>4. {<<"txt", i>>} \in Byte
  BY DEF Byte, Atom
<1>5. OutputByte(n, i) \in Byte
  <2>1. \A a, b \in Byte : Xor(a, b) \in Byte
    BY DEF Xor, Byte
  <2> QED BY <1>3, <1>4, <2>1 DEF OutputByte
<1> QED BY <1>3, <1>4, <1>5

\* The ciphertext of a text byte by byte.
LEMMA CipherBytes ==
  ASSUME NEW n \in Nat, NEW w \in Seq({"Encrypt", "Decrypt"})
  PROVE  /\ Cipher(n, w) \in Seq(Byte) /\ Len(Cipher(n, w)) = Len(w)
         /\ \A i \in 1..Len(w) :
              Cipher(n, w)[i] = IF w[i] = "Encrypt" THEN OutputByte(n, i) ELSE {<<"txt", i>>}
<1> DEFINE as(d, i) == IF d = "Encrypt" THEN OutputByte(n, i) ELSE {<<"txt", i>>}
<1>1. Cipher(n, w) = [i \in 1..Len(w) |-> as(w[i], i)]
  <2>1. DOMAIN w = 1..Len(w)
    OBVIOUS
  <2> QED BY <2>1, Zenon DEF Cipher, OutputByte
<1>2. ASSUME NEW i \in 1..Len(w) PROVE as(w[i], i) \in Byte
  <2>1. i \in Nat \ {0}
    OBVIOUS
  <2> QED BY <2>1, TextBytes
<1> HIDE DEF as
<1> DEFINE z == Cipher(n, w)
           h == Len(w)
<1>3. h \in Nat
  OBVIOUS
<1>4. z = [i \in 1..h |-> as(w[i], i)] /\ \A i \in 1..h : as(w[i], i) \in Byte
  BY <1>1, <1>2, Zenon
<1> HIDE DEF z, h
<1>5. DOMAIN z = 1..h /\ \A i \in 1..h : z[i] = as(w[i], i) /\ z[i] \in Byte
  BY <1>4, Zenon
<1>6. z = [i \in 1..h |-> z[i]]
  BY <1>4, <1>5, Zenon
<1>7. z \in [1..h -> Byte]
  BY <1>5, <1>6, Zenon
<1>8. z \in Seq(Byte) /\ Len(z) = h
  BY <1>3, <1>7
<1> QED BY <1>5, <1>8, Zenon DEF z, h, as

\* The ciphertext x of k bytes of text behind the text t.
CipherChunk(n, t, k, dir, x) ==
  /\ x \in Seq(Byte) /\ Len(x) = k
  /\ \A i \in 1..k : x[i] = IF dir = "Encrypt" THEN OutputByte(n, Len(t) + i) ELSE {<<"txt", Len(t) + i>>}

\* The ciphertext x continues that of the text t.
CipherContinued(n, t, k, dir, x) == Cipher(n, t) \o x = Cipher(n, t \o [i \in 1..k |-> dir])

\* The ciphertext grows by what a chunk becomes.
LEMMA CipherGoesOn ==
  ASSUME NEW n \in Nat, NEW t \in Seq({"Encrypt", "Decrypt"}), NEW k \in Nat,
         NEW dir \in {"Encrypt", "Decrypt"}, NEW x, CipherChunk(n, t, k, dir, x)
  PROVE  CipherContinued(n, t, k, dir, x)
<1> DEFINE l == Len(t)
           f == [i \in 1..k |-> dir]
           u == t \o f
           y == Cipher(n, t)
           z == Cipher(n, u)
           v == y \o x
           as(d, i) == IF d = "Encrypt" THEN OutputByte(n, i) ELSE {<<"txt", i>>}
<1>0. /\ x \in Seq(Byte) /\ Len(x) = k
      /\ \A i \in 1..k : x[i] = IF dir = "Encrypt" THEN OutputByte(n, Len(t) + i) ELSE {<<"txt", Len(t) + i>>}
  BY DEF CipherChunk
<1>1. l \in Nat /\ f \in Seq({"Encrypt", "Decrypt"}) /\ Len(f) = k /\ \A i \in 1..k : f[i] = dir
  OBVIOUS
<1> HIDE DEF f
<1>2. /\ u \in Seq({"Encrypt", "Decrypt"}) /\ Len(u) = l + k
      /\ (\A i \in 1..l : u[i] = t[i])
      /\ \A i \in 1..k : u[l + i] = dir
  <2>1. /\ u \in Seq({"Encrypt", "Decrypt"}) /\ Len(u) = Len(t) + Len(f)
        /\ (\A i \in 1..Len(t) : u[i] = t[i])
        /\ \A i \in 1..Len(f) : u[Len(t) + i] = f[i]
    <3> DEFINE D == {"Encrypt", "Decrypt"}
    <3>1. t \in Seq(D) /\ f \in Seq(D)
      BY <1>1
    <3> HIDE DEF D
    <3>2. /\ t \o f \in Seq(D) /\ Len(t \o f) = Len(t) + Len(f)
          /\ (\A i \in 1..Len(t) : (t \o f)[i] = t[i])
          /\ \A i \in 1..Len(f) : (t \o f)[Len(t) + i] = f[i]
      BY ONLY <3>1, Joined
    <3> QED BY <3>2, Zenon DEF u, D
  <2> HIDE DEF u
  <2> QED BY <1>1, <2>1
<1> HIDE DEF u
<1>3. ASSUME NEW w \in Seq({"Encrypt", "Decrypt"})
      PROVE  /\ Cipher(n, w) \in Seq(Byte) /\ Len(Cipher(n, w)) = Len(w)
             /\ \A i \in 1..Len(w) : Cipher(n, w)[i] = as(w[i], i)
  BY CipherBytes
<1>4. y \in Seq(Byte) /\ Len(y) = l /\ \A i \in 1..l : y[i] = as(t[i], i)
  BY <1>3
<1>5. z \in Seq(Byte) /\ Len(z) = l + k /\ \A i \in 1..(l + k) : z[i] = as(u[i], i)
  BY <1>2, <1>3
<1>6. \A i \in 1..k : x[i] = as(dir, l + i)
  BY <1>0
<1> HIDE DEF y, z, l, as
<1>7. /\ v \in Seq(Byte) /\ Len(v) = Len(y) + Len(x)
      /\ (\A i \in 1..Len(y) : v[i] = y[i])
      /\ \A i \in 1..Len(x) : v[Len(y) + i] = x[i]
  <2>1. y \in Seq(Byte) /\ x \in Seq(Byte)
    BY <1>0, <1>4
  <2> QED BY ONLY <2>1, Joined DEF v
<1> HIDE DEF v
<1>8. ASSUME NEW i \in 1..(l + k) PROVE v[i] = z[i]
  <2>1. CASE i <= l
    <3>1. i \in 1..l /\ i \in 1..Len(y)
      BY <1>1, <1>4, <2>1
    <3>2. v[i] = y[i] /\ y[i] = as(t[i], i) /\ u[i] = t[i]
      BY <1>2, <1>4, <1>7, <3>1, Zenon
    <3> QED BY <1>5, <3>2, Zenon
  <2>2. CASE i > l
    <3> DEFINE j == i - l
    <3>1. j \in 1..k /\ j \in 1..Len(x) /\ l + j = i /\ Len(y) + j = i
      BY <1>0, <1>1, <1>4, <2>2
    <3> HIDE DEF j
    <3>2. v[Len(y) + j] = x[j] /\ x[j] = as(dir, l + j) /\ u[l + j] = dir
      BY <1>2, <1>6, <1>7, <3>1, Zenon
    <3> QED BY <1>5, <3>1, <3>2, Zenon
  <2> QED BY <1>1, <2>1, <2>2
<1>9. v = z
  <2>1. Len(v) = l + k
    BY <1>0, <1>4, <1>7
  <2>2. v \in Seq(Byte) /\ z \in Seq(Byte) /\ Len(v) = Len(z) /\ \A i \in 1..Len(v) : v[i] = z[i]
    BY <1>5, <1>7, <1>8, <2>1, Zenon
  <2> QED BY ONLY <2>2, SequencesEqual
<1> QED BY <1>9, Zenon DEF CipherContinued, v, y, z, u, f

\* n bytes of text more, and the bytes of output for them.
TextDone(c, m, n, dir) ==
  LET p == ProcessText(c, Data("txt", Len(m.txt), n), dir)
  IN  /\ Traced(p.ctx, [m EXCEPT !.txt = @ \o [i \in 1..n |-> dir]])
      /\ p.ctx.state = "GcmTXTprocessing"
      /\ p.dst = [i \in 1..n |-> OutputByte(m.iv, Len(m.txt) + i)]

\* Encrypt and Decrypt write the bytes of the key stream's place and hash the
\* ciphertext.
LEMMA TextTraced ==
  ASSUME NEW c, NEW m, NEW n \in Nat, NEW dir \in {"Encrypt", "Decrypt"}, Traced(c, m),
         c.state \in {"GcmAADprocessing", "GcmTXTprocessing"}, Len(m.txt) + n <= MAX_TXT_LEN
  PROVE  TextDone(c, m, n, dir)
<1> DEFINE l == Len(m.txt)
           s == Data("txt", l, n)
           c1 == IF c.state = "GcmAADprocessing" THEN FinishAAD(c) ELSE c
           t == CtrMode(c1, s)
           x == IF dir = "Encrypt" THEN t.dst ELSE s
           a == Absorb(c1.ghash, c1.bufLen, x)
           p == ProcessText(c, s, dir)
           r == p.ctx
           f == [i \in 1..n |-> dir]
           m2 == [m EXCEPT !.txt = @ \o f]
           old == Cipher(m.iv, m.txt)
           front == AADBlocks(m.aad)
<1>1. Good(c1, m) /\ TracedText(c1, m) /\ m.iv < LEN_MOD /\ m.aad < LEN_MOD
  <2>1. m.iv < LEN_MOD /\ m.aad < LEN_MOD /\ Good(c, m)
    BY DEF Traced
  <2>2. CASE c.state = "GcmAADprocessing"
    <3>1. TracedAAD(c, m)
      BY <2>2 DEF Traced, TracedIV, TracedText
    <3> QED BY <2>1, <2>2, <3>1, FinishAADTraced, Zenon
  <2>3. CASE c.state = "GcmTXTprocessing"
    <3>1. c1 = c
      BY <2>3
    <3>2. TracedText(c, m)
      BY <2>3 DEF Traced, TracedIV, TracedAAD
    <3> QED BY <2>1, <3>1, <3>2, Zenon
  <2> QED BY <2>2, <2>3
<1>2. Good(r, m2)
  BY TextGood, ZenonT(60) DEF Traced
<1>3. p.dst = t.dst
      /\ r = [c1 EXCEPT !.ghash = a.hash, !.bufLen = a.bufLen, !.counter = t.counter,
                       !.ecounter = t.ecounter, !.txtLen = (@ + Len(s)) % LEN_MOD]
  BY DEF ProcessText
<1>4. m.iv \in Nat /\ m.aad \in Nat /\ m.txt \in Seq({"Encrypt", "Decrypt"}) /\ l \in Nat
      /\ m = [iv |-> m.iv, aad |-> m.aad, txt |-> m.txt] /\ Fields(c1)
  <2>1. Good(c1, m)
    BY <1>1
  <2> HIDE DEF c1
  <2> QED BY <2>1 DEF Good, Shape
<1>5. s \in Seq(Byte) /\ Len(s) = n /\ \A i \in 1..n : s[i] = {<<"txt", l + i>>}
  <2>1. s \in Seq(Byte) /\ Len(s) = n
    BY <1>4, DataBytes
  <2>2. \A i \in 1..n : s[i] = {<<"txt", l + i>>}
    BY DEF Data
  <2> QED BY <2>1, <2>2
<1>6. 1 + ((l + n) \div BLOCK_SIZE) < CTR_MOD
  <2> DEFINE q == (l + n) \div BLOCK_SIZE
             w == l + n
  <2>1. w \in 0..MAX_TXT_LEN
    BY <1>4, Constants
  <2> HIDE DEF w
  <2>2. w \div BLOCK_SIZE \in 0..(CTR_MOD - 2)
    BY <2>1, BlocksBelowCounter
  <2>3. q \in 0..(CTR_MOD - 2)
    BY <2>2 DEF w
  <2> HIDE DEF q
  <2>4. 1 + q < CTR_MOD
    BY <2>3, Constants
  <2> QED BY <2>4 DEF q
<1> HIDE DEF c1, r, p, s, l
<1>7. /\ c1.counter = CounterAt(m.iv, 1 + (l \div BLOCK_SIZE)) /\ c1.ecounter = E(c1.counter)
      /\ c1.bufLen = l % BLOCK_SIZE /\ c1.state = "GcmTXTprocessing" /\ m.iv > 0
      /\ c1.ecounter0 = E(CounterAt(m.iv, 0)) /\ Hashing(c1.ghash, c1.bufLen, front, old)
  BY <1>1 DEF TracedText, Good, Buffered, l
<1>8. /\ t.counter = CounterAt(m.iv, 1 + ((l + n) \div BLOCK_SIZE)) /\ t.ecounter = E(t.counter)
      /\ t.dst = [i \in 1..n |-> Xor(s[i], KeyByte(m.iv, l + i))]
  <2>1. 1 + ((l + Len(s)) \div BLOCK_SIZE) < CTR_MOD
    BY <1>5, <1>6
  <2>2. /\ t.counter = CounterAt(m.iv, 1 + ((l + Len(s)) \div BLOCK_SIZE)) /\ t.ecounter = E(t.counter)
        /\ t.dst = [i \in 1..Len(s) |-> Xor(s[i], KeyByte(m.iv, l + i))]
    <3> DEFINE iv == m.iv
    <3>1. /\ iv \in Nat /\ l \in Nat /\ s \in Seq(Byte) /\ c1.bufLen = l % BLOCK_SIZE
          /\ c1.counter = CounterAt(iv, 1 + (l \div BLOCK_SIZE)) /\ c1.ecounter = E(c1.counter)
          /\ 1 + ((l + Len(s)) \div BLOCK_SIZE) < CTR_MOD
      BY <1>4, <1>5, <1>7, <2>1
    <3> HIDE DEF iv
    <3> QED BY ONLY <3>1, CtrModeText DEF iv
  <2> HIDE DEF t
  <2> QED BY <1>5, <2>2, Zenon
<1>9. t.dst = [i \in 1..n |-> OutputByte(m.iv, l + i)]
  <2> HIDE DEF t
  <2> QED BY <1>5, <1>8, Zenon DEF OutputByte
<1>10. x \in Seq(Byte) /\ Len(x) = n
       /\ \A i \in 1..n : x[i] = IF dir = "Encrypt" THEN OutputByte(m.iv, l + i) ELSE {<<"txt", l + i>>}
  <2> HIDE DEF t
  <2>1. ASSUME NEW i \in 1..n PROVE OutputByte(m.iv, l + i) \in Byte
    <3>1. l + i \in Nat \ {0}
      BY <1>4
    <3> QED BY <1>4, <3>1, TextBytes
  <2>2. t.dst \in [1..n -> Byte]
    BY <1>9, <2>1
  <2>3. t.dst \in Seq(Byte) /\ Len(t.dst) = n
    BY <2>2
  <2>4. CASE dir = "Encrypt"
    <3>1. x = t.dst
      BY <2>4
    <3> QED BY <1>9, <2>3, <2>4, <3>1
  <2>5. CASE dir # "Encrypt"
    <3>1. x = s
      BY <2>5
    <3> QED BY <1>5, <2>5, <3>1
  <2> QED BY <2>4, <2>5
<1> HIDE DEF t, x
<1>11. old \o x = Cipher(m.iv, m.txt \o f)
  <2> DEFINE w == m.txt
             iv == m.iv
  <2>1. /\ w \in Seq({"Encrypt", "Decrypt"}) /\ iv \in Nat /\ x \in Seq(Byte) /\ Len(x) = n
        /\ \A i \in 1..n : x[i] = IF dir = "Encrypt" THEN OutputByte(iv, Len(w) + i) ELSE {<<"txt", Len(w) + i>>}
    BY <1>4, <1>10, Zenon DEF l
  <2> HIDE DEF w, iv
  <2>2. CipherChunk(iv, w, n, dir, x)
    BY <2>1, Zenon DEF CipherChunk
  <2>3. CipherContinued(iv, w, n, dir, x)
    <3>1. iv \in Nat /\ w \in Seq({"Encrypt", "Decrypt"})
      BY <2>1
    <3> QED BY ONLY <2>2, <3>1, n \in Nat, dir \in {"Encrypt", "Decrypt"}, CipherGoesOn
  <2> QED BY <2>3, Zenon DEF CipherContinued, w, iv
<1>12. front \in Seq(Block)
  <2>1. Data("aad", 0, m.aad) \in Seq(Byte)
    BY <1>4, DataBytes
  <2> QED BY <2>1, BytesAndBlocks, CutBlocks DEF Sets, AADBlocks
<1> HIDE DEF old, front
<1>13. Hashing(a.hash, a.bufLen, front, old \o x)
  <2> DEFINE g == c1.ghash
             k == c1.bufLen
  <2>1. Hashing(g, k, front, old)
    BY <1>7
  <2>2. a = Absorb(g, k, x) /\ x \in Seq(Byte)
    BY <1>10
  <2> HIDE DEF g, k, a
  <2> QED BY ONLY <1>12, <2>1, <2>2, AbsorbGoesOn
<1>14. /\ r.state = "GcmTXTprocessing" /\ r.ghash = a.hash /\ r.bufLen = a.bufLen
       /\ r.counter = t.counter /\ r.ecounter = t.ecounter /\ r.ecounter0 = c1.ecounter0
  <2> HIDE DEF a
  <2> QED BY <1>3, <1>4, <1>7 DEF Fields
<1>15. m2.iv = m.iv /\ m2.aad = m.aad /\ m2.txt = m.txt \o f /\ Len(m.txt \o f) = l + n
  <2>1. f \in Seq({"Encrypt", "Decrypt"}) /\ Len(f) = n
    OBVIOUS
  <2> HIDE DEF m2, f
  <2>2. Len(m.txt \o f) = l + n
    <3>1. m.txt \in Seq({"Encrypt", "Decrypt"})
      BY <1>4
    <3>2. Len(m.txt \o f) = Len(m.txt) + Len(f)
      BY ONLY <2>1, <3>1, Joined
    <3> QED BY <2>1, <3>2 DEF l
  <2> DEFINE u == m.txt \o f
  <2>3. m2 = [m EXCEPT !.txt = u]
    BY DEF m2
  <2> HIDE DEF u
  <2>4. m2.iv = m.iv /\ m2.aad = m.aad /\ m2.txt = u
    BY <1>4, <2>3
  <2> QED BY <2>2, <2>4 DEF u
<1> HIDE DEF a, m2, f
<1>16. TracedText(r, m2)
  BY <1>7, <1>8, <1>11, <1>13, <1>14, <1>15, ZenonT(60) DEF TracedText, front
<1>17. Traced(r, m2)
  BY <1>1, <1>2, <1>15, <1>16, Zenon DEF Traced
<1> QED BY <1>3, <1>9, <1>14, <1>17, Zenon DEF TextDone, r, p, s, l, m2, f

-----------------------------------------------------------------------------
(* The abstract messages in terms of what the context holds.               *)

\* GCM's operators on bytes are the ones of AES_GCM.
LEMMA SameBytes ==
  /\ \A a, b : Message!Xor(a, b) = Xor(a, b)
  /\ \A k : Message!ZeroBlock(k) = ZeroBlock(k)
  /\ \A kind, k, n : Message!Data(kind, k, n) = Data(kind, k, n)
  /\ \A s, n : Message!ZeroPadded(s, n) = ZeroPadded(s, n)
  BY Zenon DEF Message!Xor, Xor, Message!ZeroBlock, ZeroBlock, Message!Data, Data,
               Message!ZeroPadded, ZeroPadded

\* The block counter number 0, and the key stream byte of the message.
LEMMA MessageCounter ==
  /\ Message!J0 = CounterAt(msg.iv, 0)
  /\ \A k : [Message!J0 EXCEPT !.inc = k] = CounterAt(msg.iv, k)
<1>1. Message!J0 = CounterAt(msg.iv, 0)
  BY SameBytes, Zenon DEF Message!J0, Message!Zeros, Message!LengthField, CounterAt, J0Hash, LengthBits
<1>2. ASSUME NEW k PROVE [CounterAt(msg.iv, 0) EXCEPT !.inc = k] = CounterAt(msg.iv, k)
  <2> DEFINE h == J0Hash(msg.iv)
  <2>1. CounterAt(msg.iv, 0) = [hash |-> h, inc |-> 0] /\ CounterAt(msg.iv, k) = [hash |-> h, inc |-> k]
    BY DEF CounterAt
  <2> HIDE DEF h
  <2> QED BY <2>1
<1> QED BY <1>1, <1>2

\* The output and the ciphertext of the message.
LEMMA MessageBytes ==
  /\ \A i : Message!Output(i) = OutputByte(msg.iv, i)
  /\ Message!Ciphertext(msg.txt) = Cipher(msg.iv, msg.txt)
<1>1. ASSUME NEW i PROVE Message!Output(i) = OutputByte(msg.iv, i)
  <2>1. Message!Keystream(i) = KeyByte(msg.iv, i)
    BY MessageCounter, Zenon DEF Message!Keystream, KeyByte
  <2> QED BY <2>1, SameBytes, Zenon DEF Message!Output, OutputByte
<1>2. Message!Ciphertext(msg.txt) = Cipher(msg.iv, msg.txt)
  BY <1>1, Zenon DEF Message!Ciphertext, Cipher, OutputByte
<1> QED BY <1>1, <1>2

\* A block with x at its first place and y at its last.
EndsBlock(x, y) == [j \in 1..BLOCK_SIZE |-> CASE j = 1 -> x [] j = BLOCK_SIZE -> y [] OTHER -> {}]

\* The block of the two lengths.
LEMMA LengthsBlock ==
  ASSUME NEW x, NEW y
  PROVE  /\ XorBlock(EndsBlock(x, y), ZeroBlock(BLOCK_SIZE), 0) = EndsBlock(x, y)
         /\ <<x>> \o ZeroBlock(BLOCK_SIZE - 2) \o <<y>> = EndsBlock(x, y)
<1> DEFINE b == BLOCK_SIZE
           X == {x, y, {}}
           h(j) == CASE j = 1 -> x [] j = b -> y [] OTHER -> {}
           f == [j \in 1..b |-> h(j)]
           zero == ZeroBlock(b)
           k == b - 2
           o == <<x>>
           z == ZeroBlock(k)
           p == <<y>>
           u == o \o z
           v == u \o p
<1>0. b \in Nat /\ b > 1 /\ k \in Nat
  BY Constants
<1>1. f \in Seq(X) /\ Len(f) = b /\ \A j \in 1..b : f[j] = h(j)
  <2>1. \A j \in 1..b : h(j) \in X
    OBVIOUS
  <2> HIDE DEF h, X
  <2>2. f \in [1..b -> X]
    BY <2>1
  <2> QED BY <1>0, <2>2
<1>2. XorBlock(f, zero, 0) = f
  <2>1. XorBlock(f, zero, 0) = [j \in 1..b |-> IF j \in (0 + 1)..(0 + Len(f)) THEN Xor(zero[j], f[j - 0]) ELSE zero[j]]
    <3>1. DOMAIN zero = 1..b
      BY DEF ZeroBlock
    <3> HIDE DEF f, zero
    <3> QED BY <3>1, Zenon DEF XorBlock
  <2>2. ASSUME NEW j \in 1..b
        PROVE  (IF j \in (0 + 1)..(0 + Len(f)) THEN Xor(zero[j], f[j - 0]) ELSE zero[j]) = h(j)
    <3>1. j \in (0 + 1)..(0 + Len(f)) /\ j - 0 = j
      <4> HIDE DEF f
      <4> QED BY <1>0, <1>1
    <3>2. zero[j] = {} /\ f[j] = h(j)
      BY <1>1 DEF ZeroBlock
    <3>3. \A a : Xor({}, a) = a
      BY DEF Xor
    <3> HIDE DEF f, zero, h
    <3> QED BY <3>1, <3>2, <3>3, Zenon
  <2> HIDE DEF h, zero
  <2> QED BY <2>1, <2>2, Zenon
<1>3. o \in Seq(X) /\ Len(o) = 1 /\ o[1] = x /\ p \in Seq(X) /\ Len(p) = 1 /\ p[1] = y
  OBVIOUS
<1>4. z \in Seq(X) /\ Len(z) = k /\ \A j \in 1..k : z[j] = {}
  BY <1>0 DEF ZeroBlock
<1> HIDE DEF o, p, z, X, f
<1>5. /\ u \in Seq(X) /\ Len(u) = Len(o) + Len(z)
      /\ (\A i \in 1..Len(o) : u[i] = o[i])
      /\ \A i \in 1..Len(z) : u[Len(o) + i] = z[i]
  <2>1. o \in Seq(X) /\ z \in Seq(X)
    BY <1>3, <1>4
  <2> QED BY ONLY <2>1, Joined DEF u
<1> HIDE DEF u
<1>6. /\ v \in Seq(X) /\ Len(v) = Len(u) + Len(p)
      /\ (\A i \in 1..Len(u) : v[i] = u[i])
      /\ \A i \in 1..Len(p) : v[Len(u) + i] = p[i]
  <2>1. u \in Seq(X) /\ p \in Seq(X)
    BY <1>3, <1>5
  <2> QED BY ONLY <2>1, Joined DEF v
<1> HIDE DEF v
<1>7. Len(u) = b - 1 /\ Len(v) = b
  BY <1>0, <1>3, <1>4, <1>5, <1>6
<1>8. ASSUME NEW j \in 1..b PROVE v[j] = f[j]
  <2>1. CASE j = 1
    <3>1. 1 \in 1..Len(u) /\ 1 \in 1..Len(o)
      BY <1>0, <1>3, <1>7
    <3>2. v[1] = u[1] /\ u[1] = o[1]
      BY <1>5, <1>6, <3>1, Zenon
    <3>3. f[1] = x
      BY <1>0, <1>1, <2>1
    <3> QED BY <1>3, <2>1, <3>2, <3>3, Zenon
  <2>2. CASE j = b
    <3>1. 1 \in 1..Len(p) /\ Len(u) + 1 = b
      BY <1>0, <1>3, <1>7
    <3>2. v[Len(u) + 1] = p[1]
      BY <1>6, <3>1, Zenon
    <3>3. f[b] = y
      BY <1>0, <1>1, <2>2
    <3> QED BY <1>3, <2>2, <3>1, <3>2, <3>3, Zenon
  <2>3. CASE j # 1 /\ j # b
    <3> DEFINE i == j - 1
    <3>1. i \in 1..k /\ i \in 1..Len(z) /\ Len(o) + i = j /\ j \in 1..Len(u)
      BY <1>0, <1>3, <1>4, <1>7, <2>3
    <3> HIDE DEF i
    <3>2. v[j] = u[j] /\ u[Len(o) + i] = z[i] /\ z[i] = {}
      BY <1>4, <1>5, <1>6, <3>1, Zenon
    <3>3. f[j] = {}
      BY <1>1, <2>3
    <3> QED BY <3>1, <3>2, <3>3, Zenon
  <2> QED BY <2>1, <2>2, <2>3
<1>9. v = f
  <2>1. v \in Seq(X) /\ f \in Seq(X) /\ Len(v) = Len(f) /\ \A j \in 1..Len(v) : v[j] = f[j]
    BY <1>1, <1>3, <1>6, <1>7, <1>8, Zenon
  <2> QED BY ONLY <2>1, SequencesEqual
<1>10. EndsBlock(x, y) = f
  BY DEF EndsBlock, f
<1> QED BY <1>2, <1>9, <1>10, Zenon DEF v, u, o, p, z

\* GetTag gives the tag of the message so far.
LEMMA TagOfMessage ==
  ASSUME Traced(ctx, msg), ctx.state \in {"GcmAADprocessing", "GcmTXTprocessing"}
  PROVE  Tag(ctx) = Message!MessageTag
<1> DEFINE b == BLOCK_SIZE
           g == IF ctx.bufLen # 0 THEN hashFun(ctx.ghash) ELSE ctx.ghash
           x == LengthBits(ctx.aadLen)
           y == LengthBits(ctx.txtLen)
           lens == EndsBlock(x, y)
           za == AADBlocks(msg.aad)
           zt == ZeroPadded(Cipher(msg.iv, msg.txt), b)
           zero == ZeroBlock(b)
<1>1. /\ msg.aad \in Nat /\ msg.iv \in Nat /\ msg.txt \in Seq({"Encrypt", "Decrypt"})
      /\ ctx.aadLen = msg.aad /\ ctx.txtLen = Len(msg.txt)
  <2>1. /\ msg.aad \in Nat /\ msg.iv \in Nat /\ msg.txt \in Seq({"Encrypt", "Decrypt"})
        /\ ctx.aadLen = msg.aad % LEN_MOD /\ ctx.txtLen = Len(msg.txt) /\ msg.aad < LEN_MOD
    BY DEF Traced, Good, Shape, Lengths
  <2>2. msg.aad \in 0..(LEN_MOD - 1)
    BY <2>1, Constants
  <2>3. msg.aad % LEN_MOD = msg.aad
    BY <2>2, Constants, ModOfSmall
  <2> QED BY <2>1, <2>3
<1>2. Tag(ctx) = [ghash |-> hashFun([g EXCEPT !.acc = XorBlock(lens, @, 0)]), mask |-> ctx.ecounter0]
  BY DEF Tag, EndsBlock, LengthBits
<1>3. Message!MessageTag =
        [ghash |-> [done |-> (za \o zt) \o << <<x>> \o ZeroBlock(b - 2) \o <<y>> >>, acc |-> zero],
         mask |-> [j \in 1..b |-> {<<"E", Message!J0, j>>}]]
  BY <1>1, MessageBytes, SameBytes, Zenon DEF Message!MessageTag, Message!Zeros, Message!LengthField, AADBlocks, LengthBits
<1>4. XorBlock(lens, zero, 0) = lens /\ <<x>> \o ZeroBlock(b - 2) \o <<y>> = lens
  BY LengthsBlock, Zenon
<1>5. [j \in 1..b |-> {<<"E", Message!J0, j>>}] = E(CounterAt(msg.iv, 0))
  BY MessageCounter, Zenon DEF E
<1>6. ctx.ecounter0 = E(CounterAt(msg.iv, 0))
  BY DEF Traced, TracedIV, TracedAAD, TracedText
<1>7. za \in Seq(Block) /\ Data("aad", 0, msg.aad) \in Seq(Byte)
  <2>1. Data("aad", 0, msg.aad) \in Seq(Byte)
    BY <1>1, DataBytes
  <2> QED BY <2>1, BytesAndBlocks, CutBlocks DEF Sets, AADBlocks
<1>8. g = [done |-> za \o zt, acc |-> zero] /\ zt \in Seq(Block)
  <2>1. CASE ctx.state = "GcmAADprocessing"
    <3> DEFINE none == <<>>
               h == ctx.ghash
               l == ctx.bufLen
               d == Data("aad", 0, msg.aad)
    <3>1. none \in Seq(Block) /\ Hashing(h, l, none, d)
      BY <2>1 DEF Traced, TracedIV, TracedAAD, TracedText
    <3>2. zt = none
      <4>1. msg.txt = <<>>
        BY <2>1 DEF Traced, Good, Phases
      <4>2. Cipher(msg.iv, msg.txt) = <<>>
        BY <4>1 DEF Cipher
      <4>3. ZeroPadded(<<>>, b) = <<>>
        BY CutNone, Constants
      <4> QED BY <4>2, <4>3, Zenon
    <3> HIDE DEF none, h, l, d, za, zt
    <3>3. (IF l # 0 THEN hashFun(h) ELSE h) = [done |-> none \o ZeroPadded(d, BLOCK_SIZE), acc |-> ZeroBlock(BLOCK_SIZE)]
      BY ONLY <3>1, HashingFinished
    <3>4. za = ZeroPadded(d, BLOCK_SIZE)
      BY DEF za, d, AADBlocks
    <3>5. none \o za = za /\ za \o none = za
      BY <1>7, ConcatEmptySeq DEF none
    <3> QED BY <3>1, <3>2, <3>3, <3>4, <3>5, Zenon DEF h, l
  <2>2. CASE ctx.state = "GcmTXTprocessing"
    <3> DEFINE h == ctx.ghash
               l == ctx.bufLen
               d == Cipher(msg.iv, msg.txt)
    <3>1. Hashing(h, l, za, d)
      BY <2>2 DEF Traced, TracedIV, TracedAAD, TracedText
    <3>2. zt \in Seq(Block)
      <4>1. d \in Seq(Byte)
        BY <1>1, CipherBytes
      <4> QED BY <4>1, BytesAndBlocks, CutBlocks DEF Sets
    <3> HIDE DEF h, l, za, d
    <3>3. (IF l # 0 THEN hashFun(h) ELSE h) = [done |-> za \o ZeroPadded(d, BLOCK_SIZE), acc |-> ZeroBlock(BLOCK_SIZE)]
      BY ONLY <1>7, <3>1, HashingFinished
    <3> QED BY <3>2, <3>3, Zenon DEF h, l, d
  <2> QED BY <2>1, <2>2
<1> DEFINE d == za \o zt
<1>9. Append(d, lens) = d \o <<lens>>
  <2> DEFINE Y == Block \cup {lens}
  <2> HIDE DEF za, zt, lens
  <2>1. d \in Seq(Block)
    BY <1>7, <1>8, ConcatProperties
  <2> HIDE DEF d
  <2>2. d \in Seq(Y) /\ lens \in Y
    BY <2>1
  <2> HIDE DEF Y
  <2> QED BY ONLY <2>2, AppendIsConcat
<1>10. hashFun([g EXCEPT !.acc = XorBlock(lens, @, 0)]) = [done |-> Append(d, lens), acc |-> zero]
  <2> DEFINE xr == XorBlock(lens, zero, 0)
  <2>1. g = [done |-> d, acc |-> zero]
    BY <1>8
  <2>2. xr = lens
    BY <1>4
  <2> HIDE DEF g, d, lens, zero
  <2>3. [g EXCEPT !.acc = XorBlock(lens, @, 0)] = [done |-> d, acc |-> xr]
    BY <2>1
  <2> HIDE DEF xr
  <2>4. [g EXCEPT !.acc = XorBlock(lens, @, 0)] = [done |-> d, acc |-> lens]
    BY <2>2, <2>3
  <2> DEFINE e == [g EXCEPT !.acc = XorBlock(lens, @, 0)]
  <2>5. e.done = d /\ e.acc = lens
    BY <2>4
  <2> HIDE DEF e
  <2>6. hashFun(e) = [done |-> Append(d, lens), acc |-> zero]
    BY <2>5, Zenon DEF hashFun, zero
  <2> QED BY <2>6 DEF e
<1> HIDE DEF g, lens, za, zt, x, y, zero
<1> QED BY <1>2, <1>3, <1>4, <1>5, <1>6, <1>9, <1>10, Zenon DEF d

-----------------------------------------------------------------------------
(* The calls, step by step.                                                *)

\* A length field that the code found not to wrap holds the sum.
LEMMA NoWrap ==
  ASSUME NEW n \in Nat, n < LEN_MOD, NEW k \in Nat, k < LEN_MOD, ~((n + k) % LEN_MOD < k)
  PROVE  n + k < LEN_MOD
<1> DEFINE j == n + k - LEN_MOD
<1>1. SUFFICES ASSUME n + k >= LEN_MOD PROVE FALSE
  BY Constants
<1>2. j \in 0..(LEN_MOD - 1) /\ j < k /\ LEN_MOD * 1 + j = n + k
  BY <1>1, Constants
<1>3. (n + k) % LEN_MOD = j
  <2> DEFINE one == 1
  <2>1. one \in Nat /\ LEN_MOD * one + j = n + k
    BY <1>2
  <2> HIDE DEF one, j
  <2>2. (LEN_MOD * one + j) % LEN_MOD = j
    BY <1>2, <2>1, Constants, DivModOfSplit
  <2> QED BY <2>1, <2>2, Zenon
<1> QED BY <1>2, <1>3

\* What an accepted call may assume of the message.
LEMMA AcceptedFits ==
  ASSUME NEW c, NEW m, Traced(c, m), NEW hasPtr \in BOOLEAN, NEW len \in CallLens
  PROVE  /\ IVStatus(c, hasPtr, len) = "ippStsNoErr" =>
              /\ len \in Nat /\ c.state \in {"GcmInit", "GcmIVprocessing"}
              /\ m.iv + len < LEN_MOD
         /\ AADStatus(c, hasPtr, len) = "ippStsNoErr" =>
              /\ len \in Nat /\ c.state \in {"GcmIVprocessing", "GcmAADprocessing"}
              /\ m.iv > 0 /\ m.aad + len < LEN_MOD
         /\ TextStatus(c, hasPtr, len) = "ippStsNoErr" =>
              /\ len \in Nat /\ c.state \in {"GcmAADprocessing", "GcmTXTprocessing"}
              /\ Len(m.txt) + len <= MAX_TXT_LEN
<1>1. len \in Int /\ len <= MAX_TXT_LEN /\ len < LEN_MOD
  BY Constants, GcmAssumption
<1>2. /\ m.iv \in Nat /\ m.iv < LEN_MOD /\ m.aad \in Nat /\ m.aad < LEN_MOD
      /\ c.ivLen = m.iv % LEN_MOD /\ c.aadLen = m.aad % LEN_MOD /\ c.txtLen = Len(m.txt)
      /\ m.txt \in Seq({"Encrypt", "Decrypt"})
  BY DEF Traced, Good, Shape, Lengths
<1>3. c.ivLen = m.iv /\ c.aadLen = m.aad
  <2>1. m.iv \in 0..(LEN_MOD - 1) /\ m.aad \in 0..(LEN_MOD - 1)
    BY <1>2, Constants
  <2>2. m.iv % LEN_MOD = m.iv /\ m.aad % LEN_MOD = m.aad
    BY <2>1, Constants, ModOfSmall
  <2> QED BY <1>2, <2>2
<1>4. ASSUME IVStatus(c, hasPtr, len) = "ippStsNoErr"
      PROVE  /\ len \in Nat /\ c.state \in {"GcmInit", "GcmIVprocessing"}
             /\ m.iv + len < LEN_MOD
  <2>1. len \in Nat /\ c.state \in {"GcmInit", "GcmIVprocessing"}
    BY <1>1, <1>4, Accepted
  <2>2. ~((c.ivLen + len) % LEN_MOD < len)
    BY <1>4, Zenon DEF IVStatus
  <2>3. ~((m.iv + len) % LEN_MOD < len)
    BY <1>3, <2>2, Zenon
  <2> QED BY <1>1, <1>2, <2>1, <2>3, NoWrap
<1>5. ASSUME AADStatus(c, hasPtr, len) = "ippStsNoErr"
      PROVE  /\ len \in Nat /\ c.state \in {"GcmIVprocessing", "GcmAADprocessing"}
             /\ m.iv > 0 /\ m.aad + len < LEN_MOD
  <2>1. len \in Nat /\ c.state \in {"GcmIVprocessing", "GcmAADprocessing"}
    BY <1>1, <1>5, Accepted
  <2>2. ~((c.aadLen + len) % LEN_MOD < len) /\ ~(c.state = "GcmIVprocessing" /\ c.ivLen = 0)
    BY <1>5, Zenon DEF AADStatus
  <2>3. ~((m.aad + len) % LEN_MOD < len)
    BY <1>3, <2>2, Zenon
  <2>4. m.iv > 0
    BY <1>2, <1>3, <2>1, <2>2 DEF Traced, TracedIV, TracedAAD, TracedText
  <2> QED BY <1>1, <1>2, <2>1, <2>3, <2>4, NoWrap
<1>6. ASSUME TextStatus(c, hasPtr, len) = "ippStsNoErr"
      PROVE  /\ len \in Nat /\ c.state \in {"GcmAADprocessing", "GcmTXTprocessing"}
             /\ Len(m.txt) + len <= MAX_TXT_LEN
  <2>1. /\ len \in Nat /\ c.state \in {"GcmAADprocessing", "GcmTXTprocessing"}
        /\ ~(c.txtLen > MAX_TXT_LEN - len)
    BY <1>1, <1>6, Accepted
  <2>2. Len(m.txt) \in Nat
    BY <1>2
  <2> QED BY <1>2, <2>1, <2>2, Constants
<1> QED BY <1>4, <1>5, <1>6

\* The state ProcessIV leaves.
LEMMA IVState ==
  ASSUME NEW c, NEW m, Traced(c, m), NEW iv
  PROVE  ProcessIV(c, iv).state = "GcmIVprocessing"
  BY DEF Traced, Good, Shape, Fields, ProcessIV

\* The id and the pointers say nothing about the message.
LEMMA SameContents ==
  ASSUME NEW c, NEW d, NEW m, Traced(c, m), Good(d, m), d.state = c.state, d.bufLen = c.bufLen,
         d.counter = c.counter, d.ecounter = c.ecounter, d.ecounter0 = c.ecounter0,
         d.ghash = c.ghash
  PROVE  Traced(d, m)
  BY Zenon DEF Traced, TracedIV, TracedAAD, TracedText

\* A call that only returns a status.
LEMMA Silent ==
  ASSUME NEW status
  PROVE  /\ Returns(status).ret = status
         /\ Returns(status).dst = <<>> /\ Returns(status).tag.mask = <<>>
  BY DEF Returns, NoTag

\* A call that is rejected is rejected by GCM.
LEMMA Rejected ==
  ASSUME NEW status, status # "ippStsNoErr", out' = Returns(status), ctx' = ctx, msg' = msg
  PROVE  Message!Reject
<1>1. out'.ret = status /\ out'.dst = <<>> /\ out'.tag.mask = <<>>
  BY Silent
<1> QED BY <1>1 DEF Message!Reject, Message!NoOutput

\* Init and Reset begin a message.
LEMMA Begun ==
  ASSUME NEW status, out' = Returns(status), ctx'.state = "GcmInit", msg' = NoMsg
  PROVE  Message!Begin
<1>1. out'.dst = <<>> /\ out'.tag.mask = <<>>
  BY Silent
<1>2. msg'.iv = 0 /\ msg'.aad = 0 /\ msg'.txt = <<>>
  BY DEF NoMsg
<1> QED BY <1>1, <1>2 DEF Message!Begin, Message!NoOutput

\* Each call is a step of GCM: ippsAES_GCMInit.
LEMMA InitStep ==
  ASSUME IInv, NEW keyLenOk \in BOOLEAN, GCMInit(keyLenOk)
  PROVE  Traced(ctx', msg') /\ Message!Next
<1> DEFINE c == Reset([ctx EXCEPT !.idCtx = addr])
           c2 == [c EXCEPT !.ptrs = addr]
<1>1. /\ ctx' = IF keyLenOk THEN c2 ELSE c
      /\ msg' = NoMsg
      /\ out' = Returns(IF keyLenOk THEN "ippStsNoErr" ELSE "ippStsLengthErr")
  BY DEF GCMInit
<1>2. Traced(c, NoMsg) /\ c.state = "GcmInit"
  <2>1. c.state = "GcmInit"
    BY DEF Reset
  <2> QED BY <2>1, ResetTraced
<1>3. Good(ctx', msg')
  BY InitCallInvariant DEF IInv
<1>4. Fields(c)
  BY <1>2 DEF Traced, Good, Shape
<1> HIDE DEF c
<1>5. /\ c2.state = c.state /\ c2.bufLen = c.bufLen /\ c2.counter = c.counter
      /\ c2.ecounter = c.ecounter /\ c2.ecounter0 = c.ecounter0 /\ c2.ghash = c.ghash
  BY <1>4 DEF Fields
<1> HIDE DEF c2
<1>6. ctx'.state = "GcmInit" /\ Traced(ctx', msg')
  <2>1. CASE keyLenOk
    <3>1. ctx' = c2
      BY <1>1, <2>1
    <3>2. Traced(c2, NoMsg)
      BY <1>1, <1>2, <1>3, <1>5, <3>1, SameContents
    <3> QED BY <1>1, <1>2, <1>5, <3>1, <3>2
  <2>2. CASE ~keyLenOk
    BY <1>1, <1>2, <2>2
  <2> QED BY <2>1, <2>2
<1>7. Message!Begin
  BY <1>1, <1>6, Begun
<1> QED BY <1>6, <1>7 DEF Message!Next

\* ippsAES_GCMReset.
LEMMA ResetStep ==
  ASSUME Traced(ctx, msg), GCMReset
  PROVE  Traced(ctx', msg') /\ Message!Next
<1>1. CASE VALID_ID
  <2>1. ctx' = Reset(ctx) /\ msg' = NoMsg /\ out' = Returns("ippStsNoErr")
    BY <1>1 DEF GCMReset
  <2>2. Traced(ctx', msg') /\ ctx'.state = "GcmInit"
    <3>1. Reset(ctx).state = "GcmInit"
      BY DEF Reset
    <3> QED BY <2>1, <3>1, ResetTraced
  <2>3. Message!Begin
    BY <2>1, <2>2, Begun
  <2> QED BY <2>2, <2>3 DEF Message!Next
<1>2. CASE ~VALID_ID
  <2>1. ctx' = ctx /\ msg' = msg /\ out' = Returns("ippStsContextMatchErr")
    BY <1>2 DEF GCMReset
  <2>2. Message!Reject
    BY <2>1, Rejected
  <2> QED BY <2>1, <2>2 DEF Message!Next
<1> QED BY <1>1, <1>2

\* ippsAES_GCMProcessIV.
LEMMA IVStep ==
  ASSUME Traced(ctx, msg), NEW hasPtr \in BOOLEAN, NEW len \in CallLens, GCMProcessIV(hasPtr, len)
  PROVE  Traced(ctx', msg') /\ Message!Next
<1> DEFINE status == IVStatus(ctx, hasPtr, len)
<1>1. CASE status = "ippStsNoErr"
  <2>1. /\ ctx' = ProcessIV(ctx, Data("iv", msg.iv, len))
        /\ msg' = [msg EXCEPT !.iv = @ + len] /\ out' = Returns("ippStsNoErr")
    BY <1>1 DEF GCMProcessIV
  <2>2. /\ len \in Nat /\ ctx.state \in {"GcmInit", "GcmIVprocessing"}
        /\ msg.iv + len < LEN_MOD
    BY <1>1, AcceptedFits
  <2>3. Traced(ctx', msg') /\ ctx'.state = "GcmIVprocessing"
    BY <2>1, <2>2, IVTraced, IVState
  <2>4. msg'.iv = msg.iv + len /\ msg'.aad = msg.aad /\ msg'.txt = msg.txt /\ msg.iv \in Nat
    BY <2>1 DEF Traced, Good, Shape
  <2>5. out'.ret = "ippStsNoErr" /\ out'.dst = <<>> /\ out'.tag.mask = <<>>
    BY <2>1, Silent
  <2>6. Message!AddIV
    BY <2>2, <2>3, <2>4, <2>5 DEF Message!AddIV, Message!NoOutput
  <2> QED BY <2>3, <2>6 DEF Message!Next
<1>2. CASE status # "ippStsNoErr"
  <2>1. ctx' = ctx /\ msg' = msg /\ out' = Returns(status)
    BY <1>2 DEF GCMProcessIV
  <2>2. Message!Reject
    BY <1>2, <2>1, Rejected
  <2> QED BY <2>1, <2>2 DEF Message!Next
<1> QED BY <1>1, <1>2

\* ippsAES_GCMProcessAAD.
LEMMA AADStep ==
  ASSUME Traced(ctx, msg), NEW hasPtr \in BOOLEAN, NEW len \in CallLens, GCMProcessAAD(hasPtr, len)
  PROVE  Traced(ctx', msg') /\ Message!Next
<1> DEFINE status == AADStatus(ctx, hasPtr, len)
<1>1. CASE status = "ippStsNoErr"
  <2>1. /\ ctx' = ProcessAAD(ctx, Data("aad", msg.aad, len))
        /\ msg' = [msg EXCEPT !.aad = @ + len] /\ out' = Returns("ippStsNoErr")
    BY <1>1 DEF GCMProcessAAD
  <2>2. /\ len \in Nat /\ ctx.state \in {"GcmIVprocessing", "GcmAADprocessing"}
        /\ msg.iv > 0 /\ msg.aad + len < LEN_MOD
    BY <1>1, AcceptedFits
  <2>3. Traced(ctx', msg') /\ ctx'.state = "GcmAADprocessing"
    BY <2>1, <2>2, AADTraced
  <2>4. msg'.aad = msg.aad + len /\ msg'.iv = msg.iv /\ msg'.txt = msg.txt /\ msg.aad \in Nat
    BY <2>1 DEF Traced, Good, Shape
  <2>5. out'.ret = "ippStsNoErr" /\ out'.dst = <<>> /\ out'.tag.mask = <<>>
    BY <2>1, Silent
  <2>6. Message!AddAAD
    BY <2>2, <2>3, <2>4, <2>5 DEF Message!AddAAD, Message!NoOutput
  <2> QED BY <2>3, <2>6 DEF Message!Next
<1>2. CASE status # "ippStsNoErr"
  <2>1. ctx' = ctx /\ msg' = msg /\ out' = Returns(status)
    BY <1>2 DEF GCMProcessAAD
  <2>2. Message!Reject
    BY <1>2, <2>1, Rejected
  <2> QED BY <2>1, <2>2 DEF Message!Next
<1> QED BY <1>1, <1>2

\* ippsAES_GCMEncrypt and ippsAES_GCMDecrypt.
LEMMA CryptStep ==
  ASSUME Traced(ctx, msg), NEW dir \in {"Encrypt", "Decrypt"}, NEW hasPtr \in BOOLEAN,
         NEW len \in CallLens, GCMCrypt(dir, hasPtr, len)
  PROVE  Traced(ctx', msg') /\ Message!Next
<1> DEFINE status == TextStatus(ctx, hasPtr, len)
           l == Len(msg.txt)
           f == [i \in 1..len |-> dir]
           u == msg.txt \o f
           p == ProcessText(ctx, Data("txt", l, len), dir)
<1>1. CASE status = "ippStsNoErr"
  <2>1. /\ ctx' = p.ctx /\ msg' = [msg EXCEPT !.txt = @ \o f]
        /\ out' = [Returns("ippStsNoErr") EXCEPT !.dst = p.dst]
    BY <1>1 DEF GCMCrypt
  <2>2. /\ len \in Nat /\ ctx.state \in {"GcmAADprocessing", "GcmTXTprocessing"}
        /\ l + len <= MAX_TXT_LEN
    BY <1>1, AcceptedFits
  <2>3. /\ Traced(p.ctx, [msg EXCEPT !.txt = @ \o f]) /\ p.ctx.state = "GcmTXTprocessing"
        /\ p.dst = [i \in 1..len |-> OutputByte(msg.iv, l + i)]
    <3>1. TextDone(ctx, msg, len, dir)
      BY <2>2, TextTraced
    <3> QED BY <3>1, Zenon DEF TextDone
  <2>4. msg.txt \in Seq({"Encrypt", "Decrypt"}) /\ msg = [iv |-> msg.iv, aad |-> msg.aad, txt |-> msg.txt]
    BY DEF Traced, Good, Shape
  <2>5. f \in Seq({"Encrypt", "Decrypt"}) /\ Len(f) = len
    BY <2>2
  <2> HIDE DEF p, f
  <2>6. Len(u) = l + len /\ SubSeq(u, 1, l) = msg.txt
    <3>1. /\ u \in Seq({"Encrypt", "Decrypt"}) /\ Len(u) = Len(msg.txt) + Len(f)
          /\ \A i \in 1..Len(msg.txt) : u[i] = msg.txt[i]
      BY <2>4, <2>5, ConcatProperties, SMTT(60)
    <3> HIDE DEF u
    <3>2. SubSeq(u, 1, l) \in Seq({"Encrypt", "Decrypt"}) /\ Len(SubSeq(u, 1, l)) = l
          /\ \A i \in 1..l : SubSeq(u, 1, l)[i] = u[i]
      BY <2>2, <2>4, <2>5, <3>1
    <3>3. SubSeq(u, 1, l) = msg.txt
      BY <2>4, <3>1, <3>2, SequencesEqual
    <3> QED BY <2>5, <3>1, <3>3
  <2>7. msg'.txt = u /\ msg'.iv = msg.iv /\ msg'.aad = msg.aad
    <3> HIDE DEF u
    <3>1. msg' = [msg EXCEPT !.txt = u]
      BY <2>1, Zenon DEF u
    <3> QED BY <2>4, <3>1
  <2>8. out'.ret = "ippStsNoErr" /\ out'.dst = p.dst /\ out'.tag.mask = <<>>
    BY <2>1 DEF Returns, NoTag
  <2>9. Len(u) - Len(msg.txt) = len
    <3>1. l \in Nat
      BY <2>4
    <3> HIDE DEF u
    <3> QED BY <2>2, <2>6, <3>1
  <2>10. out'.dst = [i \in 1..(Len(msg'.txt) - Len(msg.txt)) |-> Message!Output(Len(msg.txt) + i)]
    BY <2>3, <2>7, <2>8, <2>9, MessageBytes, Zenon
  <2>11. Len(msg'.txt) <= MAX_TXT_LEN /\ SubSeq(msg'.txt, 1, Len(msg.txt)) = msg.txt
    BY <2>2, <2>6, <2>7, Zenon
  <2>12. ctx'.state = "GcmTXTprocessing" /\ Traced(ctx', msg')
    BY <2>1, <2>3, Zenon
  <2>13. Message!AddText
    BY <2>2, <2>7, <2>8, <2>10, <2>11, <2>12, Zenon DEF Message!AddText
  <2> QED BY <2>12, <2>13 DEF Message!Next
<1>2. CASE status # "ippStsNoErr"
  <2>1. ctx' = ctx /\ msg' = msg /\ out' = Returns(status)
    BY <1>2 DEF GCMCrypt
  <2>2. Message!Reject
    BY <1>2, <2>1, Rejected
  <2> QED BY <2>1, <2>2 DEF Message!Next
<1> QED BY <1>1, <1>2

\* ippsAES_GCMStart, which may stop after each of its three parts.
LEMMA StartStep ==
  ASSUME Traced(ctx, msg), NEW hasPtrs \in BOOLEAN, NEW ivLen \in CallLens, NEW aadLen \in CallLens,
         GCMStart(hasPtrs, ivLen, aadLen)
  PROVE  Traced(ctx', msg') /\ Message!Next
<1> DEFINE c0 == Reset(ctx)
           sIV == IVStatus(c0, hasPtrs, ivLen)
           c1 == ProcessIV(c0, Data("iv", 0, ivLen))
           sAAD == AADStatus(c1, hasPtrs, aadLen)
           c2 == ProcessAAD(c1, Data("aad", 0, aadLen))
           m1 == [NoMsg EXCEPT !.iv = ivLen]
           m2 == [iv |-> ivLen, aad |-> aadLen, txt |-> <<>>]
<1>1. \/ out' = Returns("ippStsContextMatchErr") /\ ctx' = ctx /\ msg' = msg
      \/ out' = Returns(sIV) /\ ctx' = c0 /\ msg' = NoMsg
      \/ /\ sIV = "ippStsNoErr" /\ sAAD # "ippStsNoErr"
         /\ out' = Returns(sAAD) /\ ctx' = c1 /\ msg' = m1
      \/ /\ sIV = "ippStsNoErr" /\ sAAD = "ippStsNoErr"
         /\ out' = Returns("ippStsNoErr") /\ ctx' = c2 /\ msg' = m2
  <2>1. CASE ~VALID_ID
    BY <2>1 DEF GCMStart
  <2>2. CASE VALID_ID /\ sIV # "ippStsNoErr"
    BY <2>2 DEF GCMStart
  <2>3. CASE VALID_ID /\ sIV = "ippStsNoErr" /\ sAAD # "ippStsNoErr"
    BY <2>3 DEF GCMStart
  <2>4. CASE VALID_ID /\ sIV = "ippStsNoErr" /\ sAAD = "ippStsNoErr"
    BY <2>4 DEF GCMStart
  <2> QED BY <2>1, <2>2, <2>3, <2>4
<1>2. Traced(c0, NoMsg) /\ c0.state = "GcmInit"
  <2>1. c0.state = "GcmInit"
    BY DEF Reset
  <2> QED BY <2>1, ResetTraced
<1>3. NoMsg.iv = 0 /\ m1 = [iv |-> ivLen, aad |-> 0, txt |-> <<>>]
  BY DEF NoMsg
<1>4. ASSUME sIV = "ippStsNoErr"
      PROVE  ivLen \in Nat /\ Traced(c1, m1) /\ c1.state = "GcmIVprocessing"
  <2>1. ivLen \in Nat /\ c0.state \in {"GcmInit", "GcmIVprocessing"} /\ NoMsg.iv + ivLen < LEN_MOD
    BY <1>2, <1>4, AcceptedFits
  <2>2. [NoMsg EXCEPT !.iv = @ + ivLen] = m1
    BY <2>1 DEF NoMsg
  <2> HIDE DEF c0, m1
  <2>3. Traced(ProcessIV(c0, Data("iv", NoMsg.iv, ivLen)), [NoMsg EXCEPT !.iv = @ + ivLen])
    BY <1>2, <2>1, IVTraced
  <2>4. c1.state = "GcmIVprocessing"
    BY <1>2, IVState
  <2> QED BY <1>3, <2>1, <2>2, <2>3, <2>4, Zenon
<1>5. ASSUME sIV = "ippStsNoErr", sAAD = "ippStsNoErr"
      PROVE  Traced(c2, m2) /\ c2.state = "GcmAADprocessing" /\ ivLen > 0
  <2> HIDE DEF c1, m1
  <2>1. Traced(c1, m1) /\ m1.iv = ivLen /\ m1.aad = 0
    BY <1>3, <1>4, <1>5
  <2>2. /\ aadLen \in Nat /\ c1.state \in {"GcmIVprocessing", "GcmAADprocessing"}
        /\ m1.iv > 0 /\ m1.aad + aadLen < LEN_MOD
    BY <1>5, <2>1, AcceptedFits
  <2>3. [m1 EXCEPT !.aad = @ + aadLen] = m2
    BY <1>3, <2>2
  <2> HIDE DEF m2
  <2>4. LET r == ProcessAAD(c1, Data("aad", m1.aad, aadLen))
        IN  Traced(r, [m1 EXCEPT !.aad = @ + aadLen]) /\ r.state = "GcmAADprocessing"
    BY <2>1, <2>2, AADTraced
  <2> QED BY <2>1, <2>2, <2>3, <2>4, Zenon
<1> HIDE DEF c0, c1, c2
<1>6. CASE out' = Returns("ippStsContextMatchErr") /\ ctx' = ctx /\ msg' = msg
  <2>1. Message!Reject
    BY <1>6, Rejected
  <2> QED BY <1>6, <2>1 DEF Message!Next
<1>7. CASE out' = Returns(sIV) /\ ctx' = c0 /\ msg' = NoMsg
  <2> HIDE DEF sIV
  <2>1. Message!Begin
    BY <1>2, <1>7, Begun
  <2> QED BY <1>2, <1>7, <2>1 DEF Message!Next
<1>8. CASE /\ sIV = "ippStsNoErr" /\ sAAD # "ippStsNoErr"
           /\ out' = Returns(sAAD) /\ ctx' = c1 /\ msg' = m1
  <2>1. ctx'.state = "GcmIVprocessing" /\ Traced(ctx', msg') /\ msg'.aad = 0 /\ msg'.txt = <<>>
    BY <1>3, <1>4, <1>8
  <2> HIDE DEF sAAD
  <2>2. out'.ret # "ippStsNoErr" /\ out'.dst = <<>> /\ out'.tag.mask = <<>>
    BY <1>8, Silent
  <2>3. Message!Start
    BY <2>1, <2>2 DEF Message!Start, Message!NoOutput
  <2> QED BY <2>1, <2>3 DEF Message!Next
<1>9. CASE /\ sIV = "ippStsNoErr" /\ sAAD = "ippStsNoErr"
           /\ out' = Returns("ippStsNoErr") /\ ctx' = c2 /\ msg' = m2
  <2>1. /\ ctx'.state = "GcmAADprocessing" /\ Traced(ctx', msg')
        /\ msg'.iv > 0 /\ msg'.txt = <<>>
    BY <1>5, <1>9
  <2>2. out'.ret = "ippStsNoErr" /\ out'.dst = <<>> /\ out'.tag.mask = <<>>
    BY <1>9, Silent
  <2>3. Message!Start
    BY <2>1, <2>2 DEF Message!Start, Message!NoOutput
  <2> QED BY <2>1, <2>3 DEF Message!Next
<1> HIDE DEF sIV, sAAD, m1, m2
<1> QED BY <1>1, <1>6, <1>7, <1>8, <1>9

\* ippsAES_GCMGetTag.
LEMMA GetTagStep ==
  ASSUME Traced(ctx, msg), NEW tagLenOk \in BOOLEAN, GCMGetTag(tagLenOk)
  PROVE  Traced(ctx', msg') /\ Message!Next
<1>1. ctx' = ctx /\ msg' = msg
  BY DEF GCMGetTag
<1>2. CASE VALID_ID /\ tagLenOk
  <2>1. out' = [Returns("ippStsNoErr") EXCEPT !.tag = Tag(ctx)]
    BY <1>2 DEF GCMGetTag
  <2>2. out'.ret = "ippStsNoErr" /\ out'.dst = <<>> /\ out'.tag = Tag(ctx)
    BY <2>1 DEF Returns
  <2>3. Message!GetTag
    BY <1>1, <2>2, TagOfMessage, Zenon DEF Message!GetTag
  <2> QED BY <1>1, <2>3 DEF Message!Next
<1>3. CASE ~(VALID_ID /\ tagLenOk)
  <2>1. out' = Returns("ippStsContextMatchErr") \/ out' = Returns("ippStsLengthErr")
    BY <1>3 DEF GCMGetTag
  <2>2. Message!Reject
    BY <1>1, <2>1, Rejected
  <2> QED BY <1>1, <2>2 DEF Message!Next
<1> QED BY <1>2, <1>3

\* ippsAES_GCMReinit adds nothing to the message, in whatever phase.
LEMMA ReinitStep ==
  ASSUME IInv, Traced(ctx, msg), GCMReinit
  PROVE  Traced(ctx', msg') /\ Message!Next
<1>1. /\ ctx' = [ctx EXCEPT !.idCtx = addr, !.ptrs = addr] /\ msg' = msg
      /\ out' = Returns("ippStsNoErr")
  BY DEF GCMReinit
<1>2. /\ ctx'.state = ctx.state /\ ctx'.bufLen = ctx.bufLen /\ ctx'.counter = ctx.counter
      /\ ctx'.ecounter = ctx.ecounter /\ ctx'.ecounter0 = ctx.ecounter0 /\ ctx'.ghash = ctx.ghash
  BY <1>1 DEF IInv, Good, Shape, Fields
<1>3. Good(ctx', msg')
  BY ReinitInvariant DEF IInv
<1>4. Traced(ctx', msg')
  BY <1>1, <1>2, <1>3, SameContents, Zenon
<1>5. out'.ret = "ippStsNoErr" /\ out'.dst = <<>> /\ out'.tag.mask = <<>>
  BY <1>1, Silent
<1>6. /\ msg.iv \in Nat /\ msg.aad \in Nat /\ msg.txt \in Seq({"Encrypt", "Decrypt"})
      /\ Len(msg.txt) <= MAX_TXT_LEN
  BY DEF IInv, Good, Shape, Lengths
<1>7. CASE ctx.state = "GcmInit"
  <2>1. msg.iv = 0 /\ msg.aad = 0 /\ msg.txt = <<>>
    BY <1>7 DEF IInv, Good, Phases
  <2>2. Message!Begin
    BY <1>1, <1>2, <1>5, <1>7, <2>1 DEF Message!Begin, Message!NoOutput
  <2> QED BY <1>4, <2>2 DEF Message!Next
<1>8. CASE ctx.state = "GcmIVprocessing"
  <2>1. Message!AddIV
    BY <1>1, <1>2, <1>5, <1>6, <1>8 DEF Message!AddIV, Message!NoOutput
  <2> QED BY <1>4, <2>1 DEF Message!Next
<1>9. CASE ctx.state = "GcmAADprocessing"
  <2>1. Message!AddAAD
    BY <1>1, <1>2, <1>5, <1>6, <1>9 DEF Message!AddAAD, Message!NoOutput
  <2> QED BY <1>4, <2>1 DEF Message!Next
<1>10. CASE ctx.state = "GcmTXTprocessing"
  <2> DEFINE l == Len(msg.txt)
             d == [i \in 1..(l - l) |-> Message!Output(l + i)]
  <2>1. l - l = 0 /\ 1..0 = {}
    BY <1>6
  <2>2. d = <<>>
    <3> DEFINE n == l - l
               o(i) == Message!Output(l + i)
    <3>1. 1..n = {}
      BY <2>1
    <3> HIDE DEF n, o
    <3>2. [i \in 1..n |-> o(i)] = <<>>
      BY <3>1
    <3> QED BY <3>2 DEF n, o
  <2>3. SubSeq(msg.txt, 1, l) = msg.txt
    BY <1>6
  <2>4. out'.dst = [i \in 1..(Len(msg'.txt) - Len(msg.txt)) |-> Message!Output(Len(msg.txt) + i)]
    BY <1>1, <1>5, <2>2, Zenon
  <2>5. Message!AddText
    BY <1>1, <1>2, <1>5, <1>6, <1>10, <2>3, <2>4, Zenon DEF Message!AddText
  <2> QED BY <1>4, <2>5 DEF Message!Next
<1> QED BY <1>7, <1>8, <1>9, <1>10 DEF IInv, Good, Phases

\* Every call, and moving the context, which is no step of GCM.
LEMMA NextStep ==
  ASSUME IInv, Traced(ctx, msg), [Next]_vars
  PROVE  Traced(ctx', msg') /\ [Message!Next]_(Message!vars)
<1> DEFINE P == Traced(ctx', msg') /\ Message!Next
<1>1. ASSUME NEW keyLenOk \in BOOLEAN, GCMInit(keyLenOk) PROVE P
  BY <1>1, InitStep
<1>2. ASSUME GCMReset PROVE P
  BY <1>2, ResetStep
<1>3. ASSUME NEW hasPtr \in BOOLEAN, NEW len \in CallLens, GCMProcessIV(hasPtr, len) PROVE P
  BY <1>3, IVStep
<1>4. ASSUME NEW hasPtr \in BOOLEAN, NEW len \in CallLens, GCMProcessAAD(hasPtr, len) PROVE P
  BY <1>4, AADStep
<1>5. ASSUME NEW dir \in {"Encrypt", "Decrypt"}, NEW hasPtr \in BOOLEAN, NEW len \in CallLens,
             GCMCrypt(dir, hasPtr, len)
      PROVE  P
  BY <1>5, CryptStep
<1>6. ASSUME NEW hasPtrs \in BOOLEAN, NEW ivLen \in CallLens, NEW aadLen \in CallLens,
             GCMStart(hasPtrs, ivLen, aadLen)
      PROVE  P
  BY <1>6, StartStep
<1>7. ASSUME NEW tagLenOk \in BOOLEAN, GCMGetTag(tagLenOk) PROVE P
  BY <1>7, GetTagStep
<1>8. ASSUME GCMReinit PROVE P
  BY <1>8, ReinitStep
<1> DEFINE Q == Traced(ctx', msg') /\ UNCHANGED Message!vars
<1>9. ASSUME NEW a \in Addrs, Move(a) PROVE Q
  BY <1>9 DEF Move, Message!vars
<1>10. ASSUME UNCHANGED vars PROVE Q
  BY <1>10 DEF vars, Message!vars
<1> HIDE DEF P, Q
<1>11. P \/ Q
  BY <1>1, <1>2, <1>3, <1>4, <1>5, <1>6, <1>7, <1>8, <1>9, <1>10 DEF Next
<1> QED BY <1>11 DEF P, Q

\* However the IV, the AAD and the text are cut into calls, whatever calls
\* are rejected on the way and wherever the tag is asked for, ippsAES_GCMEncrypt,
\* Decrypt and GetTag give the output bytes and the tag of the whole message.
THEOREM Implements == Spec => ImplementsGCM
<1>1. Init => Message!Init /\ Traced(ctx, msg)
  <2> SUFFICES ASSUME Init PROVE Message!Init /\ Traced(ctx, msg)
    OBVIOUS
  <2> DEFINE c == [idCtx |-> "none", ptrs |-> "none"]
  <2>1. ctx = Reset(c) /\ msg = NoMsg /\ out = Returns("ippStsNoErr")
    BY DEF Init
  <2> HIDE DEF c
  <2>2. Traced(ctx, msg)
    BY <2>1, ResetTraced
  <2>3. ctx.state = "GcmInit" /\ msg.iv = 0 /\ msg.aad = 0 /\ msg.txt = <<>>
    BY <2>1 DEF Reset, NoMsg
  <2>4. out.ret = "ippStsNoErr"
    BY <2>1, Silent
  <2> QED BY <2>2, <2>3, <2>4 DEF Message!Init
<1>2. IInv /\ Traced(ctx, msg) /\ [Next]_vars => Traced(ctx, msg)' /\ [Message!Next]_(Message!vars)
  BY NextStep
<1> QED BY <1>1, <1>2, Invariant, PTL DEF Spec, ImplementsGCM, Message!Spec
=============================================================================
