------------------------- MODULE HashContext_proofs -------------------------
(***************************************************************************)
(* What the operators on a hash context do, for every algorithm, width of  *)
(* the length words, buffer size, message and cut of it into calls.        *)
(***************************************************************************)
EXTENDS HashContext, BlockLemmas, SequenceTheorems

\* The atoms of data, padding and length fields.  That a string is in STRING is more than the
\* provers know of one, so those the code's modules use are named.
Kinds == STRING \cup {"in", "msg", "key", "plain", "cipher", "ctr", "len", "ipad", "opad", "0x80"}
Atoms == (Kinds \X Nat) \cup Seq(Kinds)

\* Bytes that a call may make of bytes of B: XORs of atoms and of digests of bytes of B.
Over(B) == SUBSET (Atoms \cup ({"md"} \X {m.name : m \in Methods} \X Seq(B) \X Nat))

\* Bytes no digest is in, bytes digests of those may be in (a hashed key, a key stream), and
\* bytes digests of these may be in (the inner digest of HMAC): all that a context may hold.
Byte0 == SUBSET Atoms
Byte1 == Over(Byte0)
Byte == Over(Byte1)
Block == [1..BUFF_SIZE -> Byte]

\* A context between two calls.  Its identifier may be anything.
Context(c) ==
  /\ c = [idCtx |-> c.idCtx, method |-> c.method, idx |-> c.idx, buff |-> c.buff,
          lenLo |-> c.lenLo, lenHi |-> c.lenHi, hash |-> c.hash]
  /\ c.method \in Methods /\ c.idx \in 0..(c.method.mbs - 1) /\ c.buff \in Block
  /\ c.lenLo \in 0..(LO_MOD - 1) /\ c.lenHi \in 0..(LO_MOD - 1)
  /\ c.hash \in Seq(Byte) /\ Len(c.hash) % c.method.mbs = 0
  /\ LengthCounted(c)

-----------------------------------------------------------------------------
(* Bytes.                                                                  *)

\* More bytes make more bytes.
LEMMA Widens == ASSUME NEW B, NEW C, B \subseteq C PROVE Over(B) \subseteq Over(C)
<1>1. Seq(B) \subseteq Seq(C)
  OBVIOUS
<1> QED BY <1>1 DEF Over

\* What no digest is in is a byte of any kind.
LEMMA Levels ==
  /\ Byte0 \subseteq Byte1 /\ Byte1 \subseteq Byte
  /\ Seq(Byte0) \subseteq Seq(Byte1) /\ Seq(Byte1) \subseteq Seq(Byte)
<1>1. Byte0 \subseteq Byte1
  BY DEF Byte1, Byte0, Over
<1>2. Over(Byte0) \subseteq Over(Byte1)
  BY <1>1, Widens
<1>3. Byte1 \subseteq Byte
  BY <1>2 DEF Byte, Byte1
<1>4. Seq(Byte0) \subseteq Seq(Byte1) /\ Seq(Byte1) \subseteq Seq(Byte)
  BY <1>1, <1>3
<1> QED BY <1>1, <1>3, <1>4

\* The zero byte.
LEMMA ZeroByte == {} \in Byte0
BY DEF Byte0

\* A byte of data.
LEMMA DataByte == ASSUME NEW kind \in Kinds, NEW k \in Nat PROVE {<<kind, k>>} \in Byte0
<1>1. <<kind, k>> \in Kinds \X Nat
  OBVIOUS
<1> QED BY <1>1 DEF Byte0, Atoms

\* What a caller passes is a sequence of bytes.
LEMMA KindBytes ==
  ASSUME NEW kind \in Kinds, NEW first \in Nat, NEW n \in Nat
  PROVE  /\ Data(kind, first, n) \in Seq(Byte0) /\ Data(kind, first, n) \in Seq(Byte)
         /\ Len(Data(kind, first, n)) = n
<1>1. \A i \in 1..n : {<<kind, first + i>>} \in Byte0
  <2>1. ASSUME NEW i \in 1..n PROVE {<<kind, first + i>>} \in Byte0
    <3> DEFINE k == first + i
    <3>1. k \in Nat
      OBVIOUS
    <3> HIDE DEF k
    <3> QED BY <3>1, DataByte DEF k
  <2> QED BY <2>1
<1> DEFINE d == Data(kind, first, n)
<1>2. d = [i \in 1..n |-> {<<kind, first + i>>}]
  BY DEF Data
<1>3. d \in [1..n -> Byte0]
  BY <1>1, <1>2
<1> HIDE DEF d
<1>4. d \in Seq(Byte0) /\ Len(d) = n
  BY <1>3, SMT
<1> QED BY <1>4, Levels, Zenon DEF d

\* A sequence of one.
LEMMA Single == ASSUME NEW S, NEW x \in S PROVE <<x>> \in Seq(S)
OBVIOUS

\* A byte of padding.
LEMMA PadByte == ASSUME NEW kind \in Kinds PROVE {<<kind>>} \in Byte0
<1>1. <<kind>> \in Seq(Kinds)
  BY Single, Zenon
<1> QED BY <1>1 DEF Byte0, Atoms

\* The XOR of two bytes.
LEMMA XorByte == ASSUME NEW B, NEW a \in Over(B), NEW b \in Over(B) PROVE Xor(a, b) \in Over(B)
BY DEF Over, Xor

\* A digest of bytes.
LEMMA TagByte ==
  ASSUME NEW B, NEW m \in Methods, NEW s \in Seq(B), NEW n \in Nat
  PROVE  hashOctStr(m, s, n) \in Seq(Over(B)) /\ Len(hashOctStr(m, s, n)) = n
<1>1. ASSUME NEW j \in 1..n PROVE {<<"md", m.name, s, j>>} \in Over(B)
  <2>1. <<"md", m.name, s, j>> \in {"md"} \X {k.name : k \in Methods} \X Seq(B) \X Nat
    OBVIOUS
  <2> QED BY <2>1 DEF Over
<1>2. hashOctStr(m, s, n) \in [1..n -> Over(B)]
  BY <1>1 DEF hashOctStr
<1> QED BY <1>2, SMT

\* A padded message is of the bytes of the message and of padding.
LEMMA FinalByte ==
  ASSUME NEW m, m.mrl \in {1, 2}, m.mbs \in Nat, NEW B, Byte0 \subseteq B,
         NEW hash \in Seq(B), NEW inp \in Seq(B),
         NEW lo \in 0..(LO_MOD - 1), NEW hi \in 0..(LO_MOD - 1)
  PROVE  Finalize(m, hash, inp, lo, hi) \in Seq(B)
<1> DEFINE zeros == BufferLen(m, Len(inp)) - (Len(inp) + 1) - m.mrl
           z == IF zeros < 0 THEN 0 ELSE zeros
<1>1. z \in Nat
  <2>1. Len(inp) \in Nat
    BY LenProperties
  <2>2. BufferLen(m, Len(inp)) \in Int
    BY DEF BufferLen
  <2>3. zeros \in Int
    BY <2>1, <2>2
  <2> HIDE DEF zeros
  <2> QED BY <2>3
<1> HIDE DEF z
<1>2. ZeroBlock(z) \in Seq(B)
  <2>1. ZeroBlock(z) \in [1..z -> B]
    BY <1>1, ZeroByte DEF ZeroBlock
  <2> QED BY <1>1, <2>1, SMT
<1>3. msgLenRep(m, lo, hi) \in Seq(B)
  <2>1. LO_MOD \in Nat \ {0} /\ LO_MOD >= 16
    BY HashAssumption
  <2>2. HiBits(lo, hi) \in Nat
    <3> DEFINE h == (hi * 8) % LO_MOD
               l == lo \div (LO_MOD \div 16)
    <3>1. h \in Nat /\ l \in Nat
      <4> DEFINE d == LO_MOD \div 16
                 k == hi * 8
      <4>1. k \in Nat /\ d \in Nat \ {0} /\ LO_MOD \in Nat \ {0} /\ lo \in Nat
        BY <2>1
      <4> HIDE DEF d, k
      <4>2. k % LO_MOD \in Nat /\ lo \div d \in Nat
        BY ONLY <4>1
      <4> QED BY <4>2 DEF k, d
    <3> HIDE DEF h, l
    <3> QED BY <3>1, SMTT(60) DEF HiBits, h, l
  <2>3. (lo * 8) % LO_MOD \in Nat
    BY <2>1
  <2>4. {<<"len", HiBits(lo, hi)>>} \in B /\ {<<"len", (lo * 8) % LO_MOD>>} \in B
    <3> DEFINE x == HiBits(lo, hi)
               y == (lo * 8) % LO_MOD
    <3>1. x \in Nat /\ y \in Nat
      BY <2>2, <2>3
    <3> HIDE DEF x, y
    <3>2. {<<"len", x>>} \in Byte0 /\ {<<"len", y>>} \in Byte0
      <4>1. "len" \in Kinds
        BY DEF Kinds
      <4> QED BY <3>1, <4>1, DataByte, Zenon
    <3>3. {<<"len", x>>} \in B /\ {<<"len", y>>} \in B
      BY <3>2
    <3> QED BY <3>3 DEF x, y
  <2> DEFINE x == {<<"len", HiBits(lo, hi)>>}
             y == {<<"len", (lo * 8) % LO_MOD>>}
  <2>5. msgLenRep(m, lo, hi) = IF m.mrl = 1 THEN <<y>> ELSE <<x, y>>
    BY DEF msgLenRep
  <2> HIDE DEF x, y
  <2>6. x \in B /\ y \in B
    BY <2>4 DEF x, y
  <2> QED BY <2>5, <2>6
<1>4. <<{<<"0x80">>}>> \in Seq(B)
  <2> DEFINE x == {<<"0x80">>}
  <2>1. x \in B
    <3>1. "0x80" \in Kinds
      BY DEF Kinds
    <3>2. {<<"0x80">>} \in Byte0
      BY <3>1, PadByte, Zenon
    <3> QED BY <3>2
  <2> HIDE DEF x
  <2>2. <<x>> \in Seq(B)
    BY <2>1
  <2> QED BY <2>2 DEF x
<1>5. Finalize(m, hash, inp, lo, hi)
        = hash \o inp \o <<{<<"0x80">>}>> \o ZeroBlock(z) \o msgLenRep(m, lo, hi)
  BY Zenon DEF Finalize, z
<1>6. \A s, t \in Seq(B) : s \o t \in Seq(B)
  OBVIOUS
<1> DEFINE r == ZeroBlock(z)
           t == msgLenRep(m, lo, hi)
           p == <<{<<"0x80">>}>>
<1>7. r \in Seq(B) /\ t \in Seq(B) /\ p \in Seq(B)
  BY <1>2, <1>3, <1>4
<1>8. Finalize(m, hash, inp, lo, hi) = hash \o inp \o p \o r \o t
  BY <1>5
<1> HIDE DEF r, t, p
<1> QED BY <1>6, <1>7, <1>8

-----------------------------------------------------------------------------
(* Sequences and blocks.                                                   *)

\* The sizes of an algorithm.
LEMMA Sizes ==
  ASSUME NEW m \in Methods
  PROVE  /\ m.mbs \in Nat \ {0, 1} /\ m.mbs <= BUFF_SIZE /\ m.mrl \in {1, 2} /\ m.mrl < m.mbs
         /\ m.hashLen \in 1..BUFF_SIZE /\ BUFF_SIZE \in Nat
         /\ m.maxLo \in 0..(LO_MOD - 1) /\ m.maxHi \in 0..(LO_MOD - 1)
BY HashAssumption DEF IsMethod

\* Copying bytes into a block changes those and no others.
LEMMA Copied ==
  ASSUME NEW s \in Seq(Byte), NEW blk \in Block, NEW off \in Nat, off + Len(s) <= BUFF_SIZE
  PROVE  /\ CopyBlock(s, blk, off) \in Block
         /\ \A j \in 1..off : CopyBlock(s, blk, off)[j] = blk[j]
         /\ \A j \in 1..Len(s) : CopyBlock(s, blk, off)[off + j] = s[j]
<1> USE HashAssumption
<1>1. DOMAIN blk = 1..BUFF_SIZE
  BY DEF Block
<1>2. ASSUME NEW j \in 1..BUFF_SIZE
      PROVE  (IF j \in (off + 1)..(off + Len(s)) THEN s[j - off] ELSE blk[j]) \in Byte
  <2>1. CASE j \in (off + 1)..(off + Len(s))
    <3>1. j - off \in 1..Len(s)
      BY <2>1
    <3> QED BY <2>1, <3>1
  <2>2. CASE j \notin (off + 1)..(off + Len(s))
    BY <2>2 DEF Block
  <2> QED BY <2>1, <2>2
<1>3. CopyBlock(s, blk, off) \in Block
  BY <1>1, <1>2 DEF CopyBlock, Block
<1>4. \A j \in 1..off : CopyBlock(s, blk, off)[j] = blk[j]
  BY <1>1 DEF CopyBlock
<1>5. \A j \in 1..Len(s) : CopyBlock(s, blk, off)[off + j] = s[j]
  BY <1>1 DEF CopyBlock
<1> QED BY <1>3, <1>4, <1>5

\* The first n bytes of a block are a sequence of n bytes.
LEMMA FrontOfBlock ==
  ASSUME NEW blk \in Block, NEW n \in 0..BUFF_SIZE
  PROVE  /\ SubSeq(blk, 1, n) \in Seq(Byte) /\ Len(SubSeq(blk, 1, n)) = n
         /\ \A i \in 1..n : SubSeq(blk, 1, n)[i] = blk[i]
<1>1. blk \in Seq(Byte) /\ Len(blk) = BUFF_SIZE
  BY HashAssumption, SMT DEF Block
<1>2. 0 \in Nat /\ n \in Nat /\ 0 <= n /\ n <= Len(blk) /\ 0 + 1 = 1
  BY <1>1, HashAssumption
<1>3. /\ SubSeq(blk, 0 + 1, n) \in Seq(Byte) /\ Len(SubSeq(blk, 0 + 1, n)) = n - 0
      /\ \A i \in 1..(n - 0) : SubSeq(blk, 0 + 1, n)[i] = blk[0 + i]
  BY <1>1, <1>2, Part
<1> QED BY <1>2, <1>3

\* What stood before the bytes copied, and then the bytes copied.
LEMMA CopiedFront ==
  ASSUME NEW s \in Seq(Byte), NEW blk \in Block, NEW off \in Nat, off + Len(s) <= BUFF_SIZE
  PROVE  SubSeq(CopyBlock(s, blk, off), 1, off + Len(s)) = SubSeq(blk, 1, off) \o s
<1> DEFINE new == CopyBlock(s, blk, off)
           n == Len(s)
           t == SubSeq(new, 1, off + n)
           h == SubSeq(blk, 1, off)
<1>1. /\ new \in Block /\ \A j \in 1..off : new[j] = blk[j]
      /\ \A j \in 1..n : new[off + j] = s[j]
  BY Copied
<1>2. n \in Nat /\ off \in 0..BUFF_SIZE /\ off + n \in 0..BUFF_SIZE
  BY HashAssumption
<1> HIDE DEF new
<1>3. t \in Seq(Byte) /\ Len(t) = off + n /\ \A i \in 1..(off + n) : t[i] = new[i]
  BY <1>1, <1>2, FrontOfBlock
<1>4. h \in Seq(Byte) /\ Len(h) = off /\ \A i \in 1..off : h[i] = blk[i]
  BY <1>2, FrontOfBlock
<1> HIDE DEF t, h, n
<1>5. /\ h \o s \in Seq(Byte) /\ Len(h \o s) = off + n
      /\ \A i \in 1..(off + n) : (h \o s)[i] = IF i <= off THEN h[i] ELSE s[i - off]
  BY <1>2, <1>4 DEF n
<1> DEFINE r == h \o s
<1>6. /\ r \in Seq(Byte) /\ Len(r) = off + n
      /\ \A i \in 1..(off + n) : r[i] = IF i <= off THEN h[i] ELSE s[i - off]
  BY <1>5
<1> HIDE DEF r
<1>7. ASSUME NEW i \in 1..(off + n) PROVE t[i] = r[i]
  <2>1. CASE i <= off
    <3>1. i \in 1..off
      BY <2>1
    <3> QED BY <2>1, <3>1, <1>1, <1>3, <1>4, <1>6
  <2>2. CASE ~(i <= off)
    <3> DEFINE k == i - off
    <3>1. k \in 1..n /\ off + k = i
      BY <2>2, <1>2
    <3>2. r[i] = s[k]
      BY <2>2, <1>6
    <3> HIDE DEF k
    <3>3. t[i] = new[i]
      BY <1>3
    <3>4. new[off + k] = s[k]
      BY <1>1, <3>1
    <3> QED BY <3>1, <3>2, <3>3, <3>4
  <2> QED BY <2>1, <2>2
<1>8. t = r
  BY <1>2, <1>3, <1>6, <1>7, SequencesEqual
<1> QED BY <1>8 DEF t, h, n, r, new

-----------------------------------------------------------------------------
(* HashUpdate.                                                             *)

\* The parts of an update as HashUpdate names them: what completes the pending block,
\* the whole blocks, and the rest.
Front(c, src) == IF c.idx # 0 THEN IPP_MIN(Len(src), c.method.mbs - c.idx) ELSE 0
Full(c, src) == c.idx + Front(c, src) = c.method.mbs
Main(c, src) ==
  (Len(src) - Front(c, src)) - ((Len(src) - Front(c, src)) % c.method.mbs)
Leftover(c, src) == SubSeq(src, Front(c, src) + Main(c, src) + 1, Len(src))
Filled(c, src) == CopyBlock(SubSeq(src, 1, Front(c, src)), c.buff, c.idx)
Hashed(c, src) ==
  (c.hash \o (IF Full(c, src) THEN SubSeq(Filled(c, src), 1, c.method.mbs) ELSE <<>>))
    \o SubSeq(src, Front(c, src) + 1, Front(c, src) + Main(c, src))

\* A record with five of its fields replaced.
LEMMA Excepted ==
  ASSUME NEW c, Context(c), NEW hash, NEW idx, NEW buff, NEW lo, NEW hi
  PROVE  [c EXCEPT !.hash = hash, !.idx = idx, !.buff = buff, !.lenLo = lo, !.lenHi = hi]
           = [idCtx |-> c.idCtx, method |-> c.method, idx |-> idx, buff |-> buff,
              lenLo |-> lo, lenHi |-> hi, hash |-> hash]
<1> DEFINE i == c.idCtx
           m == c.method
           x == c.idx
           b == c.buff
           l == c.lenLo
           h == c.lenHi
           s == c.hash
           R(x1, b1, l1, h1, s1) == [idCtx |-> i, method |-> m, idx |-> x1, buff |-> b1,
                                     lenLo |-> l1, lenHi |-> h1, hash |-> s1]
           c1 == [c EXCEPT !.hash = hash]
           c2 == [c1 EXCEPT !.idx = idx]
           c3 == [c2 EXCEPT !.buff = buff]
           c4 == [c3 EXCEPT !.lenLo = lo]
           c5 == [c4 EXCEPT !.lenHi = hi]
<1>1. c = R(x, b, l, h, s)
  BY DEF Context
<1>2. [c EXCEPT !.hash = hash, !.idx = idx, !.buff = buff, !.lenLo = lo, !.lenHi = hi] = c5
  OBVIOUS
<1> HIDE DEF i, m, x, b, l, h, s
<1>3. c1 = R(x, b, l, h, hash)
  BY <1>1
<1> HIDE DEF c1
<1>4. c2 = R(idx, b, l, h, hash)
  BY <1>3
<1> HIDE DEF c2
<1>5. c3 = R(idx, buff, l, h, hash)
  BY <1>4
<1> HIDE DEF c3
<1>6. c4 = R(idx, buff, lo, h, hash)
  BY <1>5
<1> HIDE DEF c4
<1>7. c5 = R(idx, buff, lo, hi, hash)
  BY <1>6
<1> HIDE DEF c5
<1> QED BY <1>2, <1>7 DEF c1, c2, c3, c4, c5, i, m

\* HashUpdate in terms of these parts.
LEMMA UpdateParts ==
  ASSUME NEW c, Context(c), NEW src
  PROVE  HashUpdate(c, src) =
           [idCtx |-> c.idCtx, method |-> c.method,
            idx |-> (IF Full(c, src) THEN 0 ELSE c.idx + Front(c, src)) + Len(Leftover(c, src)),
            buff |-> CopyBlock(Leftover(c, src), Filled(c, src), 0),
            lenLo |-> AddLength(c, Len(src)).lo, lenHi |-> AddLength(c, Len(src)).hi,
            hash |-> Hashed(c, src)]
<1>1. HashUpdate(c, src) =
        [c EXCEPT !.hash = Hashed(c, src),
                  !.idx = (IF Full(c, src) THEN 0 ELSE c.idx + Front(c, src)) + Len(Leftover(c, src)),
                  !.buff = CopyBlock(Leftover(c, src), Filled(c, src), 0),
                  !.lenLo = AddLength(c, Len(src)).lo, !.lenHi = AddLength(c, Len(src)).hi]
  BY DEF HashUpdate, Front, Full, Main, Leftover, Filled, Hashed
<1> QED BY <1>1, Excepted, ZenonT(60)

\* Where an update is cut.
LEMMA UpdateCuts ==
  ASSUME NEW c, Context(c), NEW src \in Seq(Byte)
  PROVE  LET mbs  == c.method.mbs
             head == Front(c, src)
             main == Main(c, src)
             rest == Len(src) - head - main
         IN  /\ head \in Nat /\ main \in Nat /\ rest \in 0..(mbs - 1) /\ main % mbs = 0
             /\ head <= Len(src) /\ head + main <= Len(src) /\ c.idx + head <= mbs
             /\ c.idx = 0 => head = 0 /\ ~Full(c, src)
             /\ c.idx # 0 /\ ~Full(c, src) => head = Len(src) /\ main = 0 /\ c.idx + head < mbs
<1> DEFINE mbs == c.method.mbs
           head == Front(c, src)
           n == Len(src) - head
<1>1. mbs \in Nat \ {0, 1} /\ c.idx \in 0..(mbs - 1) /\ Len(src) \in Nat
  BY Sizes DEF Context
<1>2. /\ head \in Nat /\ head <= Len(src) /\ c.idx + head <= mbs
      /\ c.idx = 0 => head = 0 /\ c.idx + head # mbs
      /\ c.idx # 0 /\ c.idx + head # mbs => head = Len(src) /\ c.idx + head < mbs
  BY <1>1 DEF Front, IPP_MIN
<1>3. n \in Nat
  BY <1>1, <1>2
<1> HIDE DEF mbs, n, head
<1>4. /\ n % mbs \in 0..(mbs - 1) /\ n \div mbs \in Nat
      /\ n - (n % mbs) \in Nat /\ n - (n % mbs) = mbs * (n \div mbs)
  BY <1>1, <1>3, DivMod, WholeBlocksDivide
<1> DEFINE main == n - (n % mbs)
<1>5. main % mbs = 0
  <2>1. mbs * (n \div mbs) + 0 = main /\ 0 \in 0..(mbs - 1)
    BY <1>1, <1>4
  <2>2. (mbs * (n \div mbs) + 0) % mbs = 0
    BY <1>1, <1>4, <2>1, DivModOfSplit
  <2> QED BY <2>1, <2>2
<1>6. n = 0 => main = 0
  BY <1>1, <1>4
<1>7. /\ main \in Nat /\ main <= n /\ n - main \in 0..(mbs - 1)
  BY <1>1, <1>3, <1>4
<1>8. Main(c, src) = main /\ (Full(c, src) <=> c.idx + head = mbs)
  BY DEF Main, Full, n, head, mbs
<1> HIDE DEF main
<1>9. /\ head + main <= Len(src) /\ Len(src) - head - main \in 0..(mbs - 1)
      /\ head = Len(src) => main = 0
  BY <1>1, <1>2, <1>6, <1>7 DEF n
<1> QED BY <1>2, <1>5, <1>7, <1>8, <1>9 DEF mbs, head

\* Adding whole blocks leaves whole blocks.
LEMMA WholeBlocks ==
  ASSUME NEW b \in Nat \ {0}, NEW n \in Nat, NEW k \in Nat, n % b = 0, k % b = 0
  PROVE  (n + k) % b = 0
<1>1. n = b * (n \div b) + 0 /\ k = b * (k \div b) + 0 /\ n \div b \in Nat /\ k \div b \in Nat
  BY DivMod
<1> DEFINE q == n \div b
           p == k \div b
<1> HIDE DEF q, p
<1>2. q \in Nat /\ p \in Nat /\ n = b * q /\ k = b * p
  BY <1>1 DEF q, p
<1>3. n + k = b * (q + p) + 0 /\ q + p \in Nat /\ 0 \in 0..(b - 1)
  BY <1>2
<1> QED BY <1>3, DivModOfSplit, SMTT(60)

\* Five sequences put together in two orders of brackets.
Rebracketed(h, p, a, m, r) ==
  /\ ((h \o (p \o a)) \o m) \o r = (h \o p) \o ((a \o m) \o r)
  /\ h \o (p \o a) = (h \o p) \o a
  /\ p \o a \in Seq(Byte) /\ Len(p \o a) = Len(p) + Len(a)
  /\ (h \o (p \o a)) \o m \in Seq(Byte)
  /\ Len((h \o (p \o a)) \o m) = Len(h) + Len(p) + Len(a) + Len(m)
  /\ h \o <<>> = h

\* The order of brackets does not matter to sequences put together.
LEMMA Brackets ==
  ASSUME NEW h \in Seq(Byte), NEW p \in Seq(Byte), NEW a \in Seq(Byte), NEW m \in Seq(Byte),
         NEW r \in Seq(Byte)
  PROVE  Rebracketed(h, p, a, m, r)
<1>1. p \o a \in Seq(Byte) /\ Len(p \o a) = Len(p) + Len(a)
  BY ConcatProperties
<1>2. h \o (p \o a) = (h \o p) \o a
  BY SMT
<1>3. h \o (p \o a) \in Seq(Byte) /\ Len(h \o (p \o a)) = Len(h) + Len(p \o a)
  BY <1>1, ConcatProperties
<1> DEFINE hp == h \o p
           am == a \o m
           hpa == h \o (p \o a)
<1>4. hp \in Seq(Byte) /\ am \in Seq(Byte)
  BY ConcatProperties
<1>5. hpa = hp \o a /\ hpa \in Seq(Byte)
  BY <1>2, <1>3
<1> HIDE DEF hp, hpa
<1>6. (hp \o a) \o m = hp \o (a \o m)
  BY <1>4, SMTT(60)
<1> HIDE DEF am
<1>7. (hp \o am) \o r = hp \o (am \o r)
  BY <1>4, SMTT(60)
<1>8. (hpa \o m) \o r = hp \o (am \o r)
  BY <1>5, <1>6, <1>7, Zenon DEF am
<1>9. hpa \o m \in Seq(Byte) /\ Len(hpa \o m) = Len(hpa) + Len(m)
  BY <1>5, ConcatProperties
<1>10. Len(h) \in Nat /\ Len(p) \in Nat /\ Len(a) \in Nat /\ Len(m) \in Nat
  BY LenProperties
<1>11. Len(hpa \o m) = Len(h) + Len(p) + Len(a) + Len(m)
  <2>1. Len(hpa) = Len(h) + (Len(p) + Len(a))
    BY <1>1, <1>3 DEF hpa
  <2> QED BY <1>9, <1>10, <2>1
<1>12. h \o <<>> = h
  BY ConcatEmptySeq, Zenon
<1> QED BY <1>1, <1>2, <1>8, <1>9, <1>11, <1>12, Zenon DEF hpa, hp, am, Rebracketed

\* Copying no bytes changes nothing.
LEMMA CopyNothing ==
  ASSUME NEW blk \in Block
  PROVE  CopyBlock(<<>>, blk, 0) = blk
<1>1. \A j : j \notin (0 + 1)..(0 + Len(<<>>))
  BY Len(<<>>) = 0
<1>2. CopyBlock(<<>>, blk, 0) = [j \in DOMAIN blk |-> blk[j]]
  BY <1>1 DEF CopyBlock
<1> QED BY <1>2 DEF Block

\* A sequence cut in three.
LEMMA Cut ==
  ASSUME NEW src \in Seq(Byte), NEW a \in Nat, NEW b \in Nat, a <= b, b <= Len(src)
  PROVE  LET part == SubSeq(src, 1, a)
             mid  == SubSeq(src, a + 1, b)
             rest == SubSeq(src, b + 1, Len(src))
         IN  /\ part \in Seq(Byte) /\ mid \in Seq(Byte) /\ rest \in Seq(Byte)
             /\ Len(part) = a /\ Len(mid) = b - a /\ Len(rest) = Len(src) - b
             /\ src = (part \o mid) \o rest
<1> DEFINE n == Len(src)
<1>1. /\ n \in Nat /\ 0 \in Nat /\ 0 <= a /\ a <= n /\ n <= n /\ b <= n
      /\ 1 \in 1..(n + 1) /\ b \in 0..n /\ n \in b..n /\ a \in 0..n /\ b \in a..n
      /\ 0 + 1 = 1 /\ a - 0 = a /\ 1 - 1 = 0
  BY LenProperties
<1>2. SubSeq(src, 0 + 1, a) \in Seq(Byte) /\ Len(SubSeq(src, 0 + 1, a)) = a - 0
  BY <1>1, Part
<1>3. SubSeq(src, a + 1, b) \in Seq(Byte) /\ Len(SubSeq(src, a + 1, b)) = b - a
  BY <1>1, Part
<1>4. SubSeq(src, b + 1, n) \in Seq(Byte) /\ Len(SubSeq(src, b + 1, n)) = n - b
  BY <1>1, Part
<1>5. SubSeq(src, 1, n) = src
  BY SubSeqFull
<1>6. SubSeq(src, 1, b) \o SubSeq(src, b + 1, n) = SubSeq(src, 1, n)
  <2> HIDE DEF n
  <2>1. \A m \in 1..(n + 1) : \A k \in (m - 1)..n : \A j \in k..n :
          SubSeq(src, m, k) \o SubSeq(src, k + 1, j) = SubSeq(src, m, j)
    BY ConcatAdjacentSubSeq, Zenon DEF n
  <2>2. b \in (1 - 1)..n
    BY <1>1
  <2> QED BY <1>1, <2>1, <2>2, Zenon
<1>7. SubSeq(src, 1, a) \o SubSeq(src, a + 1, b) = SubSeq(src, 1, b)
  <2> HIDE DEF n
  <2>1. \A m \in 1..(n + 1) : \A k \in (m - 1)..n : \A j \in k..n :
          SubSeq(src, m, k) \o SubSeq(src, k + 1, j) = SubSeq(src, m, j)
    BY ConcatAdjacentSubSeq, Zenon DEF n
  <2>2. a \in (1 - 1)..n /\ b \in a..n
    BY <1>1
  <2> QED BY <1>1, <2>1, <2>2, Zenon
<1>8. SubSeq(src, 1, a) \in Seq(Byte) /\ Len(SubSeq(src, 1, a)) = a
  BY <1>1, <1>2
<1> QED BY <1>3, <1>4, <1>5, <1>6, <1>7, <1>8, Zenon

\* The bytes waiting in the buffer, and the pieces of the message an update cuts.
Pending(c) == SubSeq(c.buff, 1, c.idx)
First(c, src) == SubSeq(src, 1, Front(c, src))
Middle(c, src) == SubSeq(src, Front(c, src) + 1, Front(c, src) + Main(c, src))
Kept(c, src) == CopyBlock(Leftover(c, src), Filled(c, src), 0)

\* The pieces make up the message, and the buffer holds what was pending and what completes it,
\* and then the rest.
LEMMA UpdatePieces ==
  ASSUME NEW c, Context(c), NEW src \in Seq(Byte)
  PROVE  /\ Pending(c) \in Seq(Byte) /\ Len(Pending(c)) = c.idx
         /\ First(c, src) \in Seq(Byte) /\ Len(First(c, src)) = Front(c, src)
         /\ Middle(c, src) \in Seq(Byte) /\ Len(Middle(c, src)) = Main(c, src)
         /\ Leftover(c, src) \in Seq(Byte)
         /\ Len(Leftover(c, src)) = Len(src) - Front(c, src) - Main(c, src)
         /\ src = (First(c, src) \o Middle(c, src)) \o Leftover(c, src)
         /\ SubSeq(Filled(c, src), 1, c.idx + Front(c, src)) = Pending(c) \o First(c, src)
         /\ Kept(c, src) \in Block /\ SubSeq(Kept(c, src), 1, Len(Leftover(c, src))) = Leftover(c, src)
         /\ Leftover(c, src) = <<>> => Kept(c, src) = Filled(c, src)
<1> DEFINE mbs  == c.method.mbs
           idx  == c.idx
           buff == c.buff
           head == Front(c, src)
           main == Main(c, src)
           upto == head + main
           n    == Len(src)
           part == First(c, src)
           rest == Leftover(c, src)
           fill == Filled(c, src)
<1>1. /\ head \in Nat /\ main \in Nat /\ n - head - main \in 0..(mbs - 1)
      /\ head <= n /\ head + main <= n /\ idx + head <= mbs
  BY UpdateCuts
<1>2. /\ mbs \in Nat \ {0, 1} /\ mbs <= BUFF_SIZE /\ idx \in 0..(mbs - 1) /\ n \in Nat
      /\ BUFF_SIZE \in Nat /\ buff \in Block
  BY Sizes DEF Context
<1>3. /\ part = SubSeq(src, 1, head) /\ Middle(c, src) = SubSeq(src, head + 1, upto)
      /\ rest = SubSeq(src, upto + 1, n) /\ Pending(c) = SubSeq(buff, 1, idx)
      /\ fill = CopyBlock(part, buff, idx) /\ Kept(c, src) = CopyBlock(rest, fill, 0)
  BY DEF First, Middle, Leftover, Pending, Filled, Kept
<1> HIDE DEF mbs, idx, buff, head, main, part, rest, fill
<1>4. /\ head \in Nat /\ upto \in Nat /\ head <= upto /\ upto <= n
      /\ upto - head = main /\ n - upto = n - head - main
  BY <1>1, <1>2
<1> HIDE DEF upto
<1>5. /\ part \in Seq(Byte) /\ Middle(c, src) \in Seq(Byte) /\ rest \in Seq(Byte)
      /\ Len(part) = head /\ Len(Middle(c, src)) = upto - head /\ Len(rest) = n - upto
      /\ src = (part \o Middle(c, src)) \o rest
  <2>1. LET a == SubSeq(src, 1, head)
            m == SubSeq(src, head + 1, upto)
            r == SubSeq(src, upto + 1, n)
        IN  /\ a \in Seq(Byte) /\ m \in Seq(Byte) /\ r \in Seq(Byte)
            /\ Len(a) = head /\ Len(m) = upto - head /\ Len(r) = n - upto
            /\ src = (a \o m) \o r
    BY <1>4, Cut, ZenonT(60)
  <2> QED BY <1>3, <2>1, Zenon
<1> HIDE DEF n
<1>6. idx \in 0..BUFF_SIZE /\ idx \in Nat /\ idx + Len(part) <= BUFF_SIZE
  BY <1>1, <1>2, <1>5
<1>7. Pending(c) \in Seq(Byte) /\ Len(Pending(c)) = idx
  BY <1>2, <1>3, <1>6, FrontOfBlock
<1>8. fill \in Block /\ SubSeq(fill, 1, idx + Len(part)) = Pending(c) \o part
  <2>1. /\ CopyBlock(part, buff, idx) \in Block
        /\ SubSeq(CopyBlock(part, buff, idx), 1, idx + Len(part)) = SubSeq(buff, 1, idx) \o part
    BY <1>2, <1>5, <1>6, Copied, CopiedFront
  <2> QED BY <1>3, <2>1, Zenon
<1>9. 0 \in Nat /\ 0 + Len(rest) <= BUFF_SIZE /\ 0 + Len(rest) = Len(rest)
  BY <1>1, <1>2, <1>4, <1>5
<1>10. /\ CopyBlock(rest, fill, 0) \in Block
       /\ SubSeq(CopyBlock(rest, fill, 0), 1, 0 + Len(rest)) = SubSeq(fill, 1, 0) \o rest
  BY <1>5, <1>8, <1>9, Copied, CopiedFront
<1>11. SubSeq(fill, 1, 0) = <<>> /\ <<>> \o rest = rest
  BY <1>5, SubSeqEmpty, ConcatEmptySeq
<1>12. rest = <<>> => Kept(c, src) = fill
  BY <1>3, <1>8, CopyNothing
<1>13. /\ SubSeq(fill, 1, idx + head) = Pending(c) \o part
       /\ Len(rest) = n - head - main /\ Len(Middle(c, src)) = main
       /\ Kept(c, src) \in Block /\ SubSeq(Kept(c, src), 1, Len(rest)) = rest
  BY <1>3, <1>4, <1>5, <1>8, <1>9, <1>10, <1>11
<1> QED BY <1>5, <1>7, <1>12, <1>13 DEF idx, head, main, n, part, rest, fill

\* An update appends the message to what the context has absorbed, in whole compressed blocks
\* and a rest of less than a block, wherever the pending block ends.
LEMMA UpdateAbsorbs ==
  ASSUME NEW c, Context(c), NEW src \in Seq(Byte)
  PROVE  LET u == HashUpdate(c, src)
         IN  /\ u.hash \in Seq(Byte) /\ Len(u.hash) % c.method.mbs = 0
             /\ u.idx \in 0..(c.method.mbs - 1) /\ u.buff \in Block
             /\ Absorbed(u) = Absorbed(c) \o src
<1> DEFINE u    == HashUpdate(c, src)
           mbs  == c.method.mbs
           idx  == c.idx
           hash == c.hash
           head == Front(c, src)
           main == Main(c, src)
           part == First(c, src)
           mid  == Middle(c, src)
           rest == Leftover(c, src)
           fill == Filled(c, src)
           kept == Kept(c, src)
           pend == Pending(c)
           all  == Full(c, src)
           n    == Len(src)
<1>1. /\ head \in Nat /\ main \in Nat /\ n - head - main \in 0..(mbs - 1) /\ main % mbs = 0
      /\ head <= n /\ head + main <= n /\ idx + head <= mbs
      /\ idx = 0 => head = 0 /\ ~all
      /\ idx # 0 /\ ~all => head = n /\ main = 0 /\ idx + head < mbs
      /\ all <=> idx + head = mbs
  BY UpdateCuts DEF Full
<1>2. /\ mbs \in Nat \ {0, 1} /\ idx \in 0..(mbs - 1) /\ n \in Nat
      /\ hash \in Seq(Byte) /\ Len(hash) % mbs = 0
  BY Sizes DEF Context
<1>3. /\ u.hash = (hash \o (IF all THEN SubSeq(fill, 1, mbs) ELSE <<>>)) \o mid
      /\ u.idx = (IF all THEN 0 ELSE idx + head) + Len(rest) /\ u.buff = kept
      /\ Absorbed(c) = hash \o pend /\ Absorbed(u) = u.hash \o SubSeq(u.buff, 1, u.idx)
  <2>1. /\ u.hash = Hashed(c, src) /\ u.idx = (IF all THEN 0 ELSE idx + head) + Len(rest)
        /\ u.buff = CopyBlock(rest, fill, 0)
    BY UpdateParts
  <2>2. Hashed(c, src) = (hash \o (IF all THEN SubSeq(fill, 1, mbs) ELSE <<>>)) \o mid
    BY Zenon DEF Hashed, Middle
  <2>3. Absorbed(c) = hash \o pend /\ Absorbed(u) = u.hash \o SubSeq(u.buff, 1, u.idx)
    BY Zenon DEF Absorbed, Pending
  <2>4. kept = CopyBlock(rest, fill, 0)
    BY Zenon DEF Kept
  <2> QED BY <2>1, <2>2, <2>3, <2>4, Zenon
<1>4. /\ pend \in Seq(Byte) /\ Len(pend) = idx
      /\ part \in Seq(Byte) /\ Len(part) = head /\ mid \in Seq(Byte) /\ Len(mid) = main
      /\ rest \in Seq(Byte) /\ Len(rest) = n - head - main
      /\ src = (part \o mid) \o rest
      /\ SubSeq(fill, 1, idx + head) = pend \o part
      /\ kept \in Block /\ SubSeq(kept, 1, Len(rest)) = rest
      /\ rest = <<>> => kept = fill
  BY UpdatePieces
<1> HIDE DEF u, mbs, idx, hash, head, main, part, mid, rest, fill, kept, pend, all, n
<1> DEFINE whole == (hash \o (pend \o part)) \o mid
<1>5. /\ whole \o rest = (hash \o pend) \o ((part \o mid) \o rest)
      /\ hash \o (pend \o part) = (hash \o pend) \o part
      /\ whole \in Seq(Byte) /\ Len(whole) = Len(hash) + idx + head + main
      /\ hash \o <<>> = hash /\ Len(hash) \in Nat
  <2>1. /\ whole \o rest = (hash \o pend) \o ((part \o mid) \o rest)
        /\ hash \o (pend \o part) = (hash \o pend) \o part
        /\ whole \in Seq(Byte) /\ Len(whole) = Len(hash) + Len(pend) + Len(part) + Len(mid)
        /\ hash \o <<>> = hash
    <3>1. /\ hash \in Seq(Byte) /\ pend \in Seq(Byte) /\ part \in Seq(Byte)
          /\ mid \in Seq(Byte) /\ rest \in Seq(Byte)
      BY <1>2, <1>4
    <3>2. Rebracketed(hash, pend, part, mid, rest)
      BY <3>1, Brackets
    <3> QED BY <3>2, Zenon DEF whole, Rebracketed
  <2>2. Len(hash) \in Nat
    BY <1>2, LenProperties
  <2> HIDE DEF whole
  <2> QED BY <1>4, <2>1, <2>2
<1> HIDE DEF whole
<1>6. CASE all \/ idx = 0
  <2>1. u.hash = whole
    <3>1. CASE all
      BY <3>1, <1>1, <1>3, <1>4 DEF whole
    <3>2. CASE idx = 0
      <4>1. ~all /\ pend = <<>> /\ part = <<>> /\ <<>> \o <<>> = <<>>
        <5>1. ~all /\ Len(pend) = 0 /\ Len(part) = 0
          BY <3>2, <1>1, <1>4
        <5> QED BY <5>1, <1>4, EmptySeq
      <4>2. pend \o part = <<>>
        BY <4>1
      <4> QED BY <1>3, <4>1, <4>2 DEF whole
    <3> QED BY <1>6, <3>1, <3>2
  <2>2. u.idx = Len(rest)
    BY <1>6, <1>1, <1>2, <1>3, <1>4
  <2>3. Absorbed(u) = (hash \o pend) \o src
    BY <1>3, <1>4, <1>5, <2>1, <2>2, Zenon
  <2>4. Len(u.hash) % mbs = 0
    <3>1. idx + head = 0 \/ idx + head = mbs
      BY <1>1, <1>2, <1>6
    <3>2. (idx + head) % mbs = 0
      BY <1>2, <3>1
    <3>3. (Len(hash) + (idx + head)) % mbs = 0 /\ Len(hash) + (idx + head) \in Nat
      <4>1. idx + head \in Nat /\ Len(hash) \in Nat /\ mbs \in Nat \ {0}
        BY <1>1, <1>2, <1>5
      <4>2. (Len(hash) + (idx + head)) % mbs = 0
        <5> DEFINE k == idx + head
                   l == Len(hash)
        <5>1. k \in Nat /\ l \in Nat /\ k % mbs = 0 /\ l % mbs = 0
          BY <1>2, <3>2, <4>1
        <5> HIDE DEF k, l
        <5>2. (l + k) % mbs = 0
          BY <4>1, <5>1, WholeBlocks
        <5> QED BY <5>2 DEF k, l
      <4> QED BY <4>1, <4>2
    <3>4. ((Len(hash) + (idx + head)) + main) % mbs = 0
      BY <1>1, <1>2, <3>3, WholeBlocks
    <3>5. Len(u.hash) = (Len(hash) + (idx + head)) + main
      BY <1>1, <1>2, <1>5, <2>1
    <3> QED BY <3>4, <3>5
  <2>5. u.idx \in 0..(mbs - 1)
    BY <1>1, <1>4, <2>2
  <2> QED BY <1>3, <1>4, <1>5, <2>1, <2>3, <2>4, <2>5, Zenon DEF u, mbs
<1>7. CASE ~all /\ idx # 0
  <2>1. head = n /\ main = 0 /\ Len(rest) = 0 /\ Len(mid) = 0 /\ idx + head < mbs
    BY <1>7, <1>1, <1>2, <1>4
  <2>2. rest = <<>> /\ mid = <<>>
    BY <2>1, <1>4, EmptySeq
  <2>3. u.hash = hash
    BY <1>7, <1>3, <1>5, <2>2
  <2>4. part = src
    BY <1>4, <2>2, ConcatEmptySeq
  <2>5. u.idx = idx + head /\ u.buff = fill
    BY <1>7, <1>1, <1>2, <1>3, <1>4, <2>1, <2>2
  <2>6. Absorbed(u) = (hash \o pend) \o src
    BY <1>3, <1>4, <1>5, <2>3, <2>4, <2>5, Zenon
  <2>7. u.idx \in 0..(mbs - 1)
    BY <1>1, <1>2, <2>1, <2>5
  <2> QED BY <1>2, <1>3, <1>4, <2>3, <2>6, <2>7, Zenon DEF u, mbs
<1> QED BY <1>6, <1>7 DEF u, mbs

-----------------------------------------------------------------------------
(* The length words.                                                       *)

\* Two words below b are one number below b * b.
LEMMA TwoWords ==
  ASSUME NEW b \in Nat \ {0}, NEW h \in 0..(b - 1), NEW l \in 0..(b - 1)
  PROVE  /\ b * b \in Nat \ {0} /\ h * b \in Nat /\ h * b + l \in 0..(b * b - 1)
         /\ (h + 1) * b = h * b + b /\ (b - 1) * b = b * b - b
<1>1. b * b \in Nat \ {0} /\ b * b >= b
  BY OneBlock
<1>2. h * b \in Nat /\ (b - 1 - h) * b \in Nat
  BY SMT
<1>3. /\ (b - 1 - h) * b = b * b - b - h * b /\ (h + 1) * b = h * b + b
      /\ (b - 1) * b = b * b - b
  BY SMT
<1> DEFINE w == b * b
           g == h * b
           d == (b - 1 - h) * b
<1>4. w \in Nat /\ g \in Nat /\ d \in Nat /\ d = w - b - g
  BY <1>1, <1>2, <1>3
<1> HIDE DEF w, g, d
<1>5. g + l \in 0..(w - 1)
  BY <1>4
<1> QED BY <1>1, <1>2, <1>3, <1>5 DEF w, g

\* The two words, taken modulo LO_MOD twice, count n bytes more: the high word takes the carry of
\* the low one, and both wrap together.
LEMMA AddLengthCounts ==
  ASSUME NEW c, NEW total \in Nat, NEW n \in Nat, n < LO_MOD,
         c.lenLo \in 0..(LO_MOD - 1), c.lenHi \in 0..(LO_MOD - 1),
         c.lenHi * LO_MOD + c.lenLo = total % (LO_MOD * LO_MOD)
  PROVE  LET l == AddLength(c, n)
         IN  /\ l.lo \in 0..(LO_MOD - 1) /\ l.hi \in 0..(LO_MOD - 1)
             /\ l.hi * LO_MOD + l.lo = (total + n) % (LO_MOD * LO_MOD)
<1> DEFINE b  == LO_MOD
           w  == b * b
           lo == c.lenLo
           hi == c.lenHi
           lo2 == (lo + n) % b
           hi2 == IF lo2 < lo THEN (hi + 1) % b ELSE hi
           q  == total \div w
           g  == hi * b
<1>1. /\ b \in Nat \ {0} /\ lo \in 0..(b - 1) /\ hi \in 0..(b - 1) /\ n < b
      /\ g + lo = total % w
  BY HashAssumption
<1>2. AddLength(c, n).lo = lo2 /\ AddLength(c, n).hi = hi2
  BY DEF AddLength
<1> HIDE DEF b, lo, hi
<1>3. /\ w \in Nat \ {0} /\ g \in Nat /\ g + lo \in 0..(w - 1) /\ (hi + 1) * b = g + b
      /\ (b - 1) * b = w - b /\ 0 * b = 0
  BY <1>1, TwoWords
<1>4. q \in Nat /\ total = w * q + (g + lo)
  BY <1>1, <1>3, DivMod, ZenonT(60)
<1>5. CASE lo + n < b
  <2>1. lo2 = lo + n /\ hi2 = hi
    <3>1. lo + n \in 0..(b - 1)
      BY <1>1, <1>5
    <3>2. (lo + n) % b = lo + n
      BY <1>1, <3>1, ModOfSmall
    <3> QED BY <1>1, <3>2
  <2>2. g + lo2 \in 0..(w - 1) /\ lo2 \in 0..(b - 1)
    <3>1. lo2 \in 0..(b - 1)
      BY <1>1, <1>5, <2>1
    <3> HIDE DEF lo2
    <3> QED BY <1>1, <3>1, TwoWords
  <2> HIDE DEF w, g, q, lo2, hi2
  <2>3. total + n = w * q + (g + lo2)
    <3> DEFINE p == w * q
    <3>1. p \in Nat
      BY <1>3, <1>4
    <3> HIDE DEF p
    <3>2. total + n = p + (g + lo2)
      BY <1>1, <1>3, <1>4, <2>1, <3>1 DEF p
    <3> QED BY <3>2 DEF p
  <2>4. (total + n) % w = g + lo2
    <3> DEFINE r == g + lo2
    <3>1. r \in 0..(w - 1) /\ total + n = w * q + r
      BY <2>2, <2>3
    <3> HIDE DEF r
    <3>2. (w * q + r) % w = r
      BY <1>3, <1>4, <3>1, DivModOfSplit
    <3> QED BY <3>1, <3>2 DEF r
  <2> QED BY <1>1, <1>2, <2>1, <2>2, <2>4 DEF w, g, b
<1>6. CASE ~(lo + n < b)
  <2>1. lo2 = lo + n - b /\ lo2 \in 0..(b - 1) /\ lo2 < lo
    <3> DEFINE r == lo + n - b
    <3>1. r \in 0..(b - 1) /\ lo + n = b * 1 + r /\ r < lo /\ 1 \in Nat
      BY <1>1, <1>6
    <3> HIDE DEF r
    <3>2. (b * 1 + r) % b = r
      BY <1>1, <3>1, DivModOfSplit
    <3> QED BY <3>1, <3>2 DEF r
  <2>2. CASE hi + 1 < b
    <3>1. hi2 = hi + 1 /\ hi + 1 \in 0..(b - 1)
      <4>1. hi + 1 \in 0..(b - 1)
        BY <1>1, <2>2
      <4>2. (hi + 1) % b = hi + 1
        BY <1>1, <4>1, ModOfSmall
      <4> QED BY <2>1, <4>1, <4>2
    <3> HIDE DEF lo2, hi2
    <3>2. hi2 * b = g + b /\ hi2 * b + lo2 \in 0..(w - 1)
      BY <1>1, <1>3, <2>1, <3>1, TwoWords
    <3> HIDE DEF w, g, q
    <3> DEFINE k == hi2 * b
               p == w * q
    <3>3. p \in Nat /\ k = g + b /\ k + lo2 \in 0..(w - 1) /\ total = p + (g + lo)
      BY <1>3, <1>4, <3>2
    <3> HIDE DEF k, p
    <3>4. total + n = p + (k + lo2)
      BY <1>1, <1>3, <2>1, <3>3
    <3> DEFINE r == k + lo2
    <3>5. r \in 0..(w - 1) /\ total + n = w * q + r
      BY <3>3, <3>4 DEF p
    <3> HIDE DEF r
    <3>6. (w * q + r) % w = r
      BY <1>3, <1>4, <3>5, DivModOfSplit
    <3> QED BY <1>1, <1>2, <2>1, <3>1, <3>5, <3>6 DEF w, b, k, r
  <2>3. CASE ~(hi + 1 < b)
    <3>1. hi = b - 1 /\ hi + 1 = b /\ g = w - b
      BY <1>1, <1>3, <2>3
    <3>2. hi2 = 0
      <4>1. b * 1 + 0 = b /\ 0 \in 0..(b - 1) /\ 1 \in Nat
        BY <1>1
      <4>2. (b * 1 + 0) % b = 0
        BY <1>1, <4>1, DivModOfSplit
      <4> QED BY <2>1, <3>1, <4>1, <4>2
    <3>3. hi2 * b = 0 /\ hi2 * b + lo2 = lo2 /\ lo2 \in 0..(w - 1)
      <4>1. 0 \in 0..(b - 1)
        BY <1>1
      <4> HIDE DEF lo2
      <4>2. 0 * b + lo2 \in 0..(b * b - 1)
        BY <1>1, <2>1, <4>1, TwoWords
      <4> QED BY <1>3, <2>1, <3>2, <4>2
    <3> HIDE DEF g, lo2, hi2
    <3>4. w * (q + 1) = w * q + w /\ w * q \in Nat /\ q + 1 \in Nat
      <4> HIDE DEF w, q
      <4> QED BY <1>3, <1>4
    <3> HIDE DEF w, q
    <3> DEFINE p == w * q
               z == w * (q + 1)
    <3>5. z = p + w /\ p \in Nat /\ total = p + (g + lo)
      BY <1>4, <3>4
    <3> HIDE DEF p, z
    <3>6. total + n = z + lo2
      BY <1>1, <1>3, <2>1, <3>1, <3>5
    <3>7. (w * (q + 1) + lo2) % w = lo2
      BY <1>3, <3>3, <3>4, DivModOfSplit
    <3>8. (total + n) % w = lo2
      BY <3>6, <3>7 DEF z
    <3> QED BY <1>1, <1>2, <2>1, <3>2, <3>3, <3>8 DEF w, b
  <2> QED BY <2>2, <2>3
<1> QED BY <1>5, <1>6

-----------------------------------------------------------------------------
(* The operations on a context.                                            *)

\* The message of a context: its bytes, and where it stands in the current block.
LEMMA Absorbs ==
  ASSUME NEW c, Context(c)
  PROVE  /\ Absorbed(c) \in Seq(Byte) /\ Len(Absorbed(c)) \in Nat
         /\ c.idx = Len(Absorbed(c)) % c.method.mbs
<1> DEFINE mbs  == c.method.mbs
           idx  == c.idx
           hash == c.hash
           pend == SubSeq(c.buff, 1, idx)
           n    == Len(hash)
<1>1. /\ mbs \in Nat \ {0} /\ idx \in 0..(mbs - 1) /\ hash \in Seq(Byte) /\ n % mbs = 0
      /\ c.buff \in Block /\ idx \in 0..BUFF_SIZE
  BY Sizes DEF Context
<1>2. pend \in Seq(Byte) /\ Len(pend) = idx
  BY <1>1, FrontOfBlock
<1>3. Absorbed(c) = hash \o pend
  BY DEF Absorbed
<1> HIDE DEF mbs, idx, hash, pend
<1>4. n \in Nat
  BY <1>1, LenProperties
<1>5. Absorbed(c) \in Seq(Byte) /\ Len(Absorbed(c)) = n + idx
  BY <1>1, <1>2, <1>3, ConcatProperties
<1> HIDE DEF n
<1>6. n = mbs * (n \div mbs) + 0 /\ n \div mbs \in Nat
  BY <1>1, <1>4, DivMod
<1> DEFINE q == n \div mbs
           k == mbs * q
<1>7. q \in Nat /\ n = k
  BY <1>1, <1>4, <1>6
<1>8. (mbs * q + idx) % mbs = idx
  BY <1>1, <1>7, DivModOfSplit
<1>9. Len(Absorbed(c)) = mbs * q + idx
  BY <1>5, <1>7
<1> HIDE DEF q, k
<1>10. Len(Absorbed(c)) % mbs = idx
  BY <1>8, <1>9
<1> QED BY <1>1, <1>4, <1>5, <1>10 DEF mbs, idx

\* Nothing is counted before the first byte.
LEMMA NothingCounted == 0 \in Nat /\ 0 * LO_MOD + 0 = 0 % (LO_MOD * LO_MOD)
<1>1. LO_MOD \in Nat \ {0}
  BY HashAssumption
<1>2. LO_MOD * LO_MOD \in Nat \ {0} /\ 0 * LO_MOD = 0
  BY <1>1, TwoWords, 0 \in 0..(LO_MOD - 1)
<1>3. 0 \in 0..(LO_MOD * LO_MOD - 1)
  BY <1>2
<1>4. 0 % (LO_MOD * LO_MOD) = 0
  BY <1>2, <1>3, ModOfSmall
<1> QED BY <1>2, <1>4

\* HashInit leaves a context of no message.
LEMMA InitContext ==
  ASSUME NEW id, NEW m \in Methods
  PROVE  Context(HashInit(id, m)) /\ Absorbed(HashInit(id, m)) = <<>>
<1> DEFINE c == HashInit(id, m)
<1>1. /\ m.mbs \in Nat \ {0, 1} /\ LO_MOD \in Nat \ {0} /\ BUFF_SIZE \in Nat
      /\ 0 \in 0..(m.mbs - 1) /\ 0 \in 0..(LO_MOD - 1)
  BY Sizes, HashAssumption
<1>2. ZeroBlock(BUFF_SIZE) \in Block
  BY ZeroByte, Levels DEF ZeroBlock, Block
<1>3. /\ c = [idCtx |-> id, method |-> m, idx |-> 0, buff |-> ZeroBlock(BUFF_SIZE),
               lenLo |-> 0, lenHi |-> 0, hash |-> <<>>]
      /\ c.idCtx = id /\ c.method = m /\ c.idx = 0 /\ c.buff = ZeroBlock(BUFF_SIZE)
      /\ c.lenLo = 0 /\ c.lenHi = 0 /\ c.hash = <<>>
  BY DEF HashInit
<1> HIDE DEF c
<1>4. <<>> \in Seq(Byte) /\ Len(<<>>) = 0 /\ 0 % m.mbs = 0
  BY <1>1
<1>5. SubSeq(ZeroBlock(BUFF_SIZE), 1, 0) = <<>>
  BY SubSeqEmpty
<1>6. Absorbed(c) = <<>>
  BY <1>3, <1>4, <1>5 DEF Absorbed
<1>7. LengthCounted(c)
  BY <1>3, <1>4, <1>6, NothingCounted DEF LengthCounted
<1> QED BY <1>1, <1>2, <1>3, <1>4, <1>6, <1>7, Zenon DEF Context, c

\* HashRestart leaves a context of no message.
LEMMA RestartContext ==
  ASSUME NEW c, Context(c)
  PROVE  /\ Context(HashRestart(c)) /\ Absorbed(HashRestart(c)) = <<>>
         /\ HashRestart(c).idCtx = c.idCtx
<1> DEFINE r == HashRestart(c)
           id == c.idCtx
           m == c.method
           b == c.buff
<1>1. /\ m \in Methods /\ m.mbs \in Nat \ {0, 1} /\ LO_MOD \in Nat \ {0} /\ b \in Block
      /\ 0 \in 0..(m.mbs - 1) /\ 0 \in 0..(LO_MOD - 1)
  BY Sizes, HashAssumption DEF Context
<1>2. r = [idCtx |-> id, method |-> m, idx |-> 0, buff |-> b, lenLo |-> 0, lenHi |-> 0,
           hash |-> <<>>]
  <2>1. c = [idCtx |-> id, method |-> m, idx |-> c.idx, buff |-> b,
             lenLo |-> c.lenLo, lenHi |-> c.lenHi, hash |-> c.hash]
    BY DEF Context
  <2> DEFINE i == c.idx
             l == c.lenLo
             h == c.lenHi
             s == c.hash
  <2>2. r = [c EXCEPT !.idx = 0, !.lenLo = 0, !.lenHi = 0, !.hash = <<>>]
    BY DEF HashRestart
  <2>3. c = [idCtx |-> id, method |-> m, idx |-> i, buff |-> b,
             lenLo |-> l, lenHi |-> h, hash |-> s]
    BY <2>1
  <2> HIDE DEF id, m, b, i, l, h, s, r
  <2> DEFINE c1 == [c EXCEPT !.idx = 0]
             c2 == [c1 EXCEPT !.lenLo = 0]
             c3 == [c2 EXCEPT !.lenHi = 0]
             c4 == [c3 EXCEPT !.hash = <<>>]
  <2>4. r = c4
    BY <2>2
  <2>5. c1 = [idCtx |-> id, method |-> m, idx |-> 0, buff |-> b,
              lenLo |-> l, lenHi |-> h, hash |-> s]
    BY <2>3
  <2> HIDE DEF c1
  <2>6. c2 = [idCtx |-> id, method |-> m, idx |-> 0, buff |-> b,
              lenLo |-> 0, lenHi |-> h, hash |-> s]
    BY <2>5
  <2> HIDE DEF c2
  <2>7. c3 = [idCtx |-> id, method |-> m, idx |-> 0, buff |-> b,
              lenLo |-> 0, lenHi |-> 0, hash |-> s]
    BY <2>6
  <2> HIDE DEF c3
  <2>8. c4 = [idCtx |-> id, method |-> m, idx |-> 0, buff |-> b,
              lenLo |-> 0, lenHi |-> 0, hash |-> <<>>]
    BY <2>7
  <2> QED BY <2>4, <2>8
<1> HIDE DEF r, id, m, b
<1>3. /\ r.idCtx = id /\ r.method = m /\ r.idx = 0 /\ r.buff = b
      /\ r.lenLo = 0 /\ r.lenHi = 0 /\ r.hash = <<>>
  BY <1>2
<1>4. <<>> \in Seq(Byte) /\ Len(<<>>) = 0 /\ 0 % m.mbs = 0
  BY <1>1
<1>5. SubSeq(b, 1, 0) = <<>>
  BY SubSeqEmpty
<1>6. Absorbed(r) = <<>>
  BY <1>3, <1>4, <1>5 DEF Absorbed
<1>7. LengthCounted(r)
  BY <1>3, <1>4, <1>6, NothingCounted DEF LengthCounted
<1>8. Context(r)
  BY <1>1, <1>2, <1>3, <1>4, <1>7, Zenon DEF Context
<1> QED BY <1>3, <1>6, <1>8 DEF r, id

\* HashRestart's fields.
LEMMA RestartFields ==
  ASSUME NEW c, Context(c)
  PROVE  LET r == HashRestart(c)
         IN  r.idx = 0 /\ r.hash = <<>> /\ r.method = c.method /\ r.buff = c.buff
<1>1. c = [idCtx |-> c.idCtx, method |-> c.method, idx |-> c.idx, buff |-> c.buff,
           lenLo |-> c.lenLo, lenHi |-> c.lenHi, hash |-> c.hash]
  BY DEF Context
<1> QED BY <1>1 DEF HashRestart

\* A context keeps its message when it moves to another identifier.
LEMMA MovedContext ==
  ASSUME NEW c, Context(c), NEW id
  PROVE  LET d == [c EXCEPT !.idCtx = id]
         IN  Context(d) /\ Absorbed(d) = Absorbed(c) /\ d.idCtx = id /\ d.method = c.method
<1> DEFINE d == [c EXCEPT !.idCtx = id]
           m == c.method
           x == c.idx
           b == c.buff
           l == c.lenLo
           h == c.lenHi
           s == c.hash
           i == c.idCtx
<1>1. c = [idCtx |-> i, method |-> m, idx |-> x, buff |-> b, lenLo |-> l, lenHi |-> h, hash |-> s]
  BY DEF Context
<1>2. /\ m \in Methods /\ x \in 0..(m.mbs - 1) /\ b \in Block
      /\ l \in 0..(LO_MOD - 1) /\ h \in 0..(LO_MOD - 1)
      /\ s \in Seq(Byte) /\ Len(s) % m.mbs = 0 /\ h * LO_MOD + l = Len(Absorbed(c)) % (LO_MOD * LO_MOD)
      /\ Absorbed(c) = s \o SubSeq(b, 1, x)
  BY DEF Context, LengthCounted, Absorbed
<1> HIDE DEF m, x, b, l, h, s, i
<1>3. d = [idCtx |-> id, method |-> m, idx |-> x, buff |-> b, lenLo |-> l, lenHi |-> h, hash |-> s]
  BY <1>1
<1> HIDE DEF d
<1>4. /\ d.idCtx = id /\ d.method = m /\ d.idx = x /\ d.buff = b
      /\ d.lenLo = l /\ d.lenHi = h /\ d.hash = s
  BY <1>3
<1>5. Absorbed(d) = Absorbed(c)
  BY <1>2, <1>4, Zenon DEF Absorbed
<1>6. LengthCounted(d)
  BY <1>2, <1>4, <1>5, Zenon DEF LengthCounted
<1>7. Context(d)
  BY <1>2, <1>3, <1>4, <1>6, Zenon DEF Context
<1> QED BY <1>4, <1>5, <1>7 DEF d, m

\* HashUpdate leaves a context of the longer message, its length counted.
LEMMA UpdateContext ==
  ASSUME NEW c, Context(c), NEW src \in Seq(Byte), Len(src) < LO_MOD
  PROVE  LET u == HashUpdate(c, src)
         IN  /\ Context(u) /\ Absorbed(u) = Absorbed(c) \o src
             /\ u.idCtx = c.idCtx /\ u.method = c.method
<1> DEFINE u == HashUpdate(c, src)
           n == Len(src)
           a == Absorbed(c)
           t == Len(a)
           lo == AddLength(c, n).lo
           hi == AddLength(c, n).hi
           w == LO_MOD * LO_MOD
<1>1. /\ u.hash \in Seq(Byte) /\ Len(u.hash) % c.method.mbs = 0
      /\ u.idx \in 0..(c.method.mbs - 1) /\ u.buff \in Block
      /\ Absorbed(u) = a \o src
  BY UpdateAbsorbs
<1>2. /\ u.idCtx = c.idCtx /\ u.method = c.method /\ u.lenLo = lo /\ u.lenHi = hi
      /\ u = [idCtx |-> u.idCtx, method |-> u.method, idx |-> u.idx, buff |-> u.buff,
              lenLo |-> u.lenLo, lenHi |-> u.lenHi, hash |-> u.hash]
  BY UpdateParts
<1> HIDE DEF u
<1>3. a \in Seq(Byte) /\ t \in Nat /\ n \in Nat
  BY Absorbs, LenProperties
<1>4. /\ c.lenLo \in 0..(LO_MOD - 1) /\ c.lenHi \in 0..(LO_MOD - 1)
      /\ c.lenHi * LO_MOD + c.lenLo = t % w /\ c.method \in Methods
  BY DEF Context, LengthCounted
<1>5. /\ lo \in 0..(LO_MOD - 1) /\ hi \in 0..(LO_MOD - 1)
      /\ hi * LO_MOD + lo = (t + n) % w
  BY <1>3, <1>4, AddLengthCounts
<1>6. Len(a \o src) = t + n
  BY <1>3, ConcatProperties
<1> HIDE DEF n, a, t, lo, hi, w
<1>7. LengthCounted(u)
  BY <1>1, <1>2, <1>5, <1>6 DEF LengthCounted, w
<1>8. Context(u)
  BY <1>1, <1>2, <1>4, <1>5, <1>7, Zenon DEF Context
<1> QED BY <1>1, <1>2, <1>8 DEF u, a

\* The bytes of a tag are digests of the bytes of the message.
LEMMA TagLevel ==
  ASSUME NEW c, Context(c), NEW B, Byte0 \subseteq B, Absorbed(c) \in Seq(B), NEW n \in Nat
  PROVE  HashTag(c, n) \in Seq(Over(B)) /\ Len(HashTag(c, n)) = n
<1> DEFINE m    == c.method
           hash == c.hash
           inp  == SubSeq(c.buff, 1, c.idx)
           lo   == c.lenLo
           hi   == c.lenHi
           r    == hash \o inp
<1>1. /\ m \in Methods /\ hash \in Seq(Byte) /\ c.buff \in Block
      /\ lo \in 0..(LO_MOD - 1) /\ hi \in 0..(LO_MOD - 1) /\ c.idx \in 0..(m.mbs - 1)
  BY DEF Context
<1>2. m.mbs \in Nat /\ m.mbs <= BUFF_SIZE /\ BUFF_SIZE \in Nat /\ m.mrl \in {1, 2}
  BY <1>1, Sizes
<1>3. inp \in Seq(Byte) /\ Len(inp) = c.idx
  <2>1. c.idx \in 0..BUFF_SIZE
    BY <1>1, <1>2
  <2> QED BY <1>1, <2>1, FrontOfBlock
<1>4. r \in Seq(B)
  BY DEF Absorbed
<1>5. HashTag(c, n) = hashOctStr(m, Finalize(m, hash, inp, lo, hi), n)
  BY Zenon DEF HashTag
<1> HIDE DEF m, hash, inp, lo, hi
<1>6. /\ Len(r) = Len(hash) + Len(inp) /\ Len(hash) \in Nat /\ Len(inp) \in Nat
      /\ \A i \in 1..Len(hash) : r[i] = hash[i]
      /\ \A i \in 1..Len(inp) : r[Len(hash) + i] = inp[i]
  BY <1>1, <1>3, ConcatProperties, LenProperties
<1> HIDE DEF r
<1>7. \A i \in 1..Len(r) : r[i] \in B
  BY <1>4
<1>8. hash \in Seq(B)
  <2>1. \A i \in 1..Len(hash) : hash[i] \in B
    BY <1>6, <1>7
  <2> QED BY <1>1, <2>1
<1>9. inp \in Seq(B)
  <2>1. \A i \in 1..Len(inp) : inp[i] \in B
    <3>1. ASSUME NEW i \in 1..Len(inp) PROVE inp[i] \in B
      <4>1. Len(hash) + i \in 1..Len(r)
        BY <1>6
      <4> QED BY <1>6, <1>7, <4>1
    <3> QED BY <3>1
  <2> QED BY <1>3, <2>1
<1>10. Finalize(m, hash, inp, lo, hi) \in Seq(B)
  BY <1>1, <1>2, <1>8, <1>9, FinalByte
<1> DEFINE f == Finalize(m, hash, inp, lo, hi)
<1> HIDE DEF f
<1>11. f \in Seq(B)
  BY <1>10 DEF f
<1>12. hashOctStr(m, f, n) \in Seq(Over(B)) /\ Len(hashOctStr(m, f, n)) = n
  BY <1>1, <1>11, TagByte
<1> QED BY <1>5, <1>12, ZenonT(60) DEF f

-----------------------------------------------------------------------------
(* Padding and the digest, against FIPS 180-4.                             *)

Standard == INSTANCE HashFunction

\* The fewest zero bytes that complete the block of a message of n bytes.
Fewest(m, n) == CHOOSE z \in 0..(m.mbs - 1) : (n + 1 + z + m.mrl) % m.mbs = 0

\* The zero bytes that the code counts from the index in the block are the fewest that complete
\* the block: one block, or two if the rest leaves no room.
LEMMA FewestZeros ==
  ASSUME NEW m \in Methods, NEW q \in Nat, NEW idx \in 0..(m.mbs - 1), NEW n,
         n = m.mbs * q + idx
  PROVE  LET zeros == BufferLen(m, idx) - (idx + 1) - m.mrl
         IN  zeros \in 0..(m.mbs - 1) /\ zeros = Fewest(m, n)
<1> DEFINE b == m.mbs
           r == m.mrl
           zeros == BufferLen(m, idx) - (idx + 1) - r
           k == IF idx < b - r THEN 1 ELSE 2
           g == b * q
<1>1. b \in Nat \ {0, 1} /\ r \in {1, 2} /\ r < b /\ idx \in 0..(b - 1)
  BY Sizes
<1>2. zeros = b * k - (idx + 1) - r /\ k \in {1, 2}
  BY <1>1 DEF BufferLen
<1>3. zeros \in 0..(b - 1)
  BY <1>1, <1>2
<1> HIDE DEF b, r, zeros
<1>4. g \in Nat /\ n = g + idx /\ k \in Nat
  BY <1>1, <1>2 DEF b
<1>5. (n + 1 + zeros + r) % b = 0
  <2>1. n + 1 + zeros + r = g + b * k
    <3> HIDE DEF g
    <3> QED BY <1>1, <1>2, <1>4
  <2> HIDE DEF k
  <2>2. b * q + b * k = b * (q + k) + 0 /\ q + k \in Nat /\ 0 \in 0..(b - 1)
    BY <1>1, <1>4
  <2>3. (b * (q + k) + 0) % b = 0
    BY <1>1, <2>2, DivModOfSplit
  <2> QED BY <2>1, <2>2, <2>3
<1> HIDE DEF k, g
<1>6. ASSUME NEW z \in 0..(b - 1), (n + 1 + z + r) % b = 0 PROVE z = zeros
  <2> DEFINE x == n + 1 + z + r
             y == n + 1 + zeros + r
  <2>1. x \in Nat /\ y \in Nat /\ x - y = z - zeros
    BY <1>1, <1>3, <1>4
  <2>2. x % b = 0 /\ y % b = 0
    BY <1>5, <1>6
  <2> HIDE DEF x, y
  <2>3. x = b * (x \div b) + 0 /\ x \div b \in Nat /\ y = b * (y \div b) + 0 /\ y \div b \in Nat
    BY <1>1, <2>1, <2>2, DivMod
  <2> DEFINE p == x \div b
             t == y \div b
             bp == b * p
             bt == b * t
  <2>4. p \in Nat /\ t \in Nat /\ x = bp /\ y = bt
    BY <1>1, <2>3
  <2> HIDE DEF p, t
  <2>5. CASE z >= zeros
    <3> DEFINE d == z - zeros
    <3>1. d \in 0..(b - 1)
      BY <1>1, <1>3, <2>5
    <3>2. bp + 0 = bt + d /\ 0 \in 0..(b - 1)
      BY <1>1, <1>3, <2>1, <2>4
    <3> HIDE DEF d
    <3>3. b * p + 0 = b * t + d
      BY <3>2
    <3>4. d = 0
      BY <1>1, <2>4, <3>1, <3>2, <3>3, SplitUnique
    <3> QED BY <1>3, <3>4 DEF d
  <2>6. CASE ~(z >= zeros)
    <3> DEFINE d == zeros - z
    <3>1. d \in 0..(b - 1)
      BY <1>1, <1>3, <2>6
    <3>2. bt + 0 = bp + d /\ 0 \in 0..(b - 1)
      BY <1>1, <1>3, <2>1, <2>4
    <3> HIDE DEF d
    <3>3. b * t + 0 = b * p + d
      BY <3>2
    <3>4. d = 0
      BY <1>1, <2>4, <3>1, <3>2, <3>3, SplitUnique
    <3> QED BY <1>3, <3>4 DEF d
  <2> QED BY <2>5, <2>6
<1>7. zeros = CHOOSE z \in 0..(b - 1) : (n + 1 + z + r) % b = 0
  <2> DEFINE P(z) == z \in 0..(b - 1) /\ (n + 1 + z + r) % b = 0
             e == CHOOSE z \in 0..(b - 1) : (n + 1 + z + r) % b = 0
  <2>1. \E z \in 0..(b - 1) : (n + 1 + z + r) % b = 0
    BY <1>3, <1>5
  <2>2. e \in 0..(b - 1) /\ (n + 1 + e + r) % b = 0
    BY <2>1, Zenon
  <2> HIDE DEF e
  <2>3. e = zeros
    BY <1>6, <2>2
  <2> QED BY <2>3 DEF e
<1> QED BY <1>3, <1>7, Zenon DEF b, r, zeros, Fewest

\* The low word is the length modulo its range.
LEMMA LowWord ==
  ASSUME NEW n \in Nat, NEW lo \in 0..(LO_MOD - 1), NEW hi \in 0..(LO_MOD - 1),
         hi * LO_MOD + lo = n % (LO_MOD * LO_MOD)
  PROVE  lo = n % LO_MOD
<1> DEFINE b == LO_MOD
           w == b * b
           q == n \div w
           k == b * q + hi
<1>1. b \in Nat \ {0} /\ w \in Nat \ {0}
  BY HashAssumption, TwoWords
<1>2. n = w * q + (n % w) /\ q \in Nat
  <2> HIDE DEF w
  <2> QED BY <1>1, DivMod
<1> HIDE DEF q
<1>3. b * q \in Nat /\ k \in Nat
  BY <1>1, <1>2
<1>4. n = b * k + lo
  <2>1. w * q = b * (b * q) /\ b * k = b * (b * q) + hi * b
    BY <1>1, <1>2, <1>3, SMT
  <2> DEFINE x == w * q
             y == hi * b
             z == b * k
  <2>2. x \in Nat /\ y \in Nat /\ z = x + y
    <3>1. x \in Nat /\ y \in Nat
      BY <1>1, <1>2
    <3> QED BY <2>1, <3>1
  <2>3. n = x + (y + lo)
    BY <1>2
  <2> HIDE DEF x, y, z
  <2>4. n = z + lo
    BY <1>1, <2>2, <2>3
  <2> QED BY <2>4 DEF z
<1>5. (b * k + lo) % b = lo
  BY <1>1, <1>3, DivModOfSplit
<1> QED BY <1>4, <1>5

\* The words that end a padded message are its length in bits.  Where there are two words, the
\* message has to be so short that the low word alone counts its bits: the code shifts one bit
\* too far what it puts into the high word.
LEMMA LengthField ==
  ASSUME NEW m \in Methods, NEW n \in Nat, NEW hi,
         m.mrl = 2 => 16 * n < LO_MOD /\ hi = 0
  PROVE  msgLenRep(m, n % LO_MOD, hi)
           = LET bits == 8 * n
             IN  IF m.mrl = 1 THEN << {<<"len", bits % LO_MOD>>} >>
                 ELSE << {<<"len", (bits \div LO_MOD) % LO_MOD>>}, {<<"len", bits % LO_MOD>>} >>
<1> DEFINE b == LO_MOD
           lo == n % b
<1>1. b \in Nat \ {0} /\ b >= 16 /\ b % 16 = 0 /\ 0 \in 0..(b - 1) /\ m.mrl \in {1, 2}
  BY HashAssumption, Sizes
<1>2. (lo * 8) % b = (8 * n) % b
  <2>1. lo \in Nat /\ n \div b \in Nat /\ n = b * (n \div b) + lo
    BY <1>1, DivMod
  <2> HIDE DEF lo
  <2> DEFINE e == lo * 8
             q == n \div b
  <2>2. e \in Nat /\ e = b * (e \div b) + (e % b) /\ e \div b \in Nat /\ e % b \in 0..(b - 1)
    <3>1. e \in Nat
      BY <2>1
    <3> HIDE DEF e
    <3> QED BY <1>1, <3>1, DivMod
  <2> DEFINE p == e \div b
             r == e % b
  <2> HIDE DEF q
  <2>3. 8 * n = b * (8 * q) + e
    BY <1>1, <2>1 DEF q
  <2> HIDE DEF e, p, r
  <2>4. e = b * p + r /\ p \in Nat /\ r \in 0..(b - 1) /\ q \in Nat
    BY <2>1, <2>2 DEF p, r, q
  <2>5. 8 * n = b * (8 * q + p) + r /\ 8 * q + p \in Nat
    <3>1. b * (8 * q + p) = b * (8 * q) + b * p /\ 8 * q + p \in Nat
      BY <1>1, <2>4, SMT
    <3> DEFINE x == b * (8 * q)
               y == b * p
    <3>2. x \in Nat /\ y \in Nat
      BY <1>1, <2>4
    <3>3. 8 * n = x + e /\ e = y + r /\ b * (8 * q + p) = x + y
      BY <2>3, <2>4, <3>1
    <3> HIDE DEF x, y
    <3> QED BY <1>1, <2>4, <3>1, <3>2, <3>3
  <2>6. (b * (8 * q + p) + r) % b = r
    BY <1>1, <2>4, <2>5, DivModOfSplit
  <2> QED BY <2>5, <2>6 DEF r, e
<1>3. CASE m.mrl = 1
  BY <1>2, <1>3 DEF msgLenRep
<1>4. CASE m.mrl # 1
  <2>1. 16 * n < b /\ hi = 0 /\ 8 * n \in 0..(b - 1) /\ n \in 0..(b - 1)
    BY <1>1, <1>4
  <2>2. lo = n
    BY <1>1, <2>1, ModOfSmall
  <2>3. ((8 * n) \div b) % b = 0
    <3> DEFINE x == 8 * n
    <3>1. b * 0 + x = x /\ 0 \in Nat /\ x \in 0..(b - 1)
      BY <1>1, <2>1
    <3> HIDE DEF x
    <3>2. (b * 0 + x) \div b = 0
      BY <1>1, <3>1, DivModOfSplit
    <3>3. 0 % b = 0
      BY <1>1, ModOfSmall
    <3> QED BY <3>1, <3>2, <3>3 DEF x
  <2>4. HiBits(n, 0) = 0
    <3> DEFINE d == b \div 16
    <3>1. b = 16 * d /\ d \in Nat \ {0} /\ n \in 0..(d - 1)
      BY <1>1, <2>1
    <3> HIDE DEF d
    <3>2. d * 0 + n = n /\ 0 \in Nat
      BY <3>1
    <3>3. (d * 0 + n) \div d = 0
      BY <3>1, <3>2, DivModOfSplit
    <3>4. (0 * 8) % b = 0
      BY <1>1, ModOfSmall
    <3>5. n \div (LO_MOD \div 16) = 0
      BY <3>2, <3>3 DEF d
    <3> HIDE DEF b
    <3> QED BY <3>4, <3>5 DEF HiBits, b
  <2> QED BY <1>2, <1>4, <2>1, <2>2, <2>3, <2>4 DEF msgLenRep
<1> QED BY <1>3, <1>4

\* A message that its algorithm's two length words count right.
Countable(m, n) == m.mrl = 2 => 16 * n < LO_MOD

\* Padding the rest of a message after its whole blocks gives the padded message of FIPS 180-4.
LEMMA FinalizePads ==
  ASSUME NEW m \in Methods, NEW hash \in Seq(Byte), NEW inp \in Seq(Byte),
         Len(hash) % m.mbs = 0, Len(inp) < m.mbs, NEW lo, NEW hi,
         lo = Len(hash \o inp) % LO_MOD, Countable(m, Len(hash \o inp)),
         m.mrl = 2 => hi = 0
  PROVE  Finalize(m, hash, inp, lo, hi) = Standard!Padded(m, hash \o inp)
<1> DEFINE n   == Len(hash \o inp)
           idx == Len(inp)
           b   == m.mbs
           q   == Len(hash) \div b
           z   == BufferLen(m, idx) - (idx + 1) - m.mrl
           field == IF m.mrl = 1 THEN << {<<"len", (8 * n) % LO_MOD>>} >>
                    ELSE << {<<"len", ((8 * n) \div LO_MOD) % LO_MOD>>},
                            {<<"len", (8 * n) % LO_MOD>>} >>
           zeros == CHOOSE k \in 0..(b - 1) : (n + 1 + k + m.mrl) % b = 0
<1>1. /\ b \in Nat \ {0} /\ Len(hash) \in Nat /\ idx \in 0..(b - 1) /\ n = Len(hash) + idx
  BY Sizes, ConcatProperties, LenProperties
<1> HIDE DEF n, idx, b
<1>2. Len(hash) = b * q + 0 /\ q \in Nat
  BY <1>1, DivMod DEF b
<1> HIDE DEF q
<1>3. n = b * q + idx /\ n \in Nat
  <2> DEFINE g == b * q
  <2>1. Len(hash) = g + 0 /\ g \in Nat
    BY <1>1, <1>2
  <2> HIDE DEF g
  <2>2. n = g + idx /\ n \in Nat
    BY <1>1, <2>1
  <2> QED BY <2>2 DEF g
<1>4. z \in 0..(b - 1) /\ z = zeros
  <2>1. idx \in 0..(m.mbs - 1) /\ n = m.mbs * q + idx
    BY <1>1, <1>3 DEF b
  <2>2. LET k == BufferLen(m, idx) - (idx + 1) - m.mrl
        IN  k \in 0..(m.mbs - 1) /\ k = Fewest(m, n)
    BY <1>2, <2>1, FewestZeros
  <2> QED BY <2>2, Zenon DEF b, Fewest
<1>5. msgLenRep(m, lo, hi) = field
  <2>1. m.mrl = 2 => 16 * n < LO_MOD /\ hi = 0
    BY DEF Countable, n
  <2>2. lo = n % LO_MOD
    BY DEF n
  <2>3. msgLenRep(m, n % LO_MOD, hi)
          = LET bits == 8 * n
            IN  IF m.mrl = 1 THEN << {<<"len", bits % LO_MOD>>} >>
                ELSE << {<<"len", (bits \div LO_MOD) % LO_MOD>>}, {<<"len", bits % LO_MOD>>} >>
    BY <1>3, <2>1, LengthField
  <2>4. msgLenRep(m, n % LO_MOD, hi) = field
    BY <2>3, Zenon
  <2> HIDE DEF field
  <2> QED BY <2>2, <2>4
<1>6. Finalize(m, hash, inp, lo, hi)
        = hash \o inp \o <<{<<"0x80">>}>> \o ZeroBlock(IF z < 0 THEN 0 ELSE z) \o msgLenRep(m, lo, hi)
  BY Zenon DEF Finalize, idx
<1>7. Standard!Padded(m, hash \o inp)
        = (hash \o inp) \o <<{<<"0x80">>}>> \o Standard!ZeroBlock(zeros) \o field
  BY Zenon DEF Standard!Padded, n, b
<1>8. ~(z < 0)
  BY <1>1, <1>4
<1>9. Standard!ZeroBlock(zeros) = ZeroBlock(zeros)
  BY DEF Standard!ZeroBlock, ZeroBlock
<1> HIDE DEF z, zeros, field
<1> QED BY <1>4, <1>5, <1>6, <1>7, <1>8, <1>9, Zenon

\* The length words of a short message.
LEMMA ShortLength ==
  ASSUME NEW m \in Methods, NEW n \in Nat, NEW lo \in 0..(LO_MOD - 1), NEW hi \in 0..(LO_MOD - 1),
         hi * LO_MOD + lo = n % (LO_MOD * LO_MOD), Countable(m, n)
  PROVE  lo = n % LO_MOD /\ (m.mrl = 2 => hi = 0)
<1> DEFINE b == LO_MOD
           w == b * b
<1>1. lo = n % b
  BY LowWord
<1>2. ASSUME m.mrl = 2 PROVE hi = 0
  <2>1. b \in Nat \ {0} /\ 0 \in 0..(b - 1) /\ n \in 0..(b - 1)
    BY <1>2, HashAssumption DEF Countable
  <2>2. w \in Nat \ {0} /\ w >= b
    BY <2>1, OneBlock
  <2>3. n % w = n
    <3>1. n \in 0..(w - 1)
      <4> HIDE DEF w
      <4> QED BY <2>1, <2>2
    <3> HIDE DEF w
    <3> QED BY <2>2, <3>1, ModOfSmall
  <2>4. b * hi + lo = b * 0 + n /\ hi \in Nat /\ 0 \in Nat
    <3>1. hi * b = b * hi /\ b * 0 = 0
      BY <2>1
    <3> QED BY <2>1, <2>3, <3>1
  <2> HIDE DEF b
  <2>5. lo \in 0..(b - 1)
    BY DEF b
  <2> QED BY <2>1, <2>4, <2>5, SplitUnique
<1> QED BY <1>1, <1>2

\* The tag of a context is the digest of the message it has absorbed, as the standard defines it.
LEMMA TagIsDigest ==
  ASSUME NEW c, Context(c), Countable(c.method, Len(Absorbed(c))), NEW n
  PROVE  HashTag(c, n) = Standard!Digest(c.method, Absorbed(c), n)
<1> DEFINE m    == c.method
           hash == c.hash
           inp  == SubSeq(c.buff, 1, c.idx)
           lo   == c.lenLo
           hi   == c.lenHi
<1>1. /\ m \in Methods /\ hash \in Seq(Byte) /\ Len(hash) % m.mbs = 0 /\ c.buff \in Block
      /\ lo \in 0..(LO_MOD - 1) /\ hi \in 0..(LO_MOD - 1) /\ c.idx \in 0..(m.mbs - 1)
      /\ hi * LO_MOD + lo = Len(Absorbed(c)) % (LO_MOD * LO_MOD)
  BY DEF Context, LengthCounted
<1>2. m.mbs \in Nat /\ m.mbs <= BUFF_SIZE /\ BUFF_SIZE \in Nat
  BY <1>1, Sizes
<1>3. inp \in Seq(Byte) /\ Len(inp) = c.idx /\ Len(inp) < m.mbs
  <2>1. c.idx \in 0..BUFF_SIZE
    BY <1>1, <1>2
  <2>2. inp \in Seq(Byte) /\ Len(inp) = c.idx
    BY <1>1, <2>1, FrontOfBlock
  <2> QED BY <1>1, <1>2, <2>2
<1>4. Absorbed(c) = hash \o inp /\ Len(Absorbed(c)) \in Nat
  BY Absorbs DEF Absorbed
<1>5. lo = Len(Absorbed(c)) % LO_MOD /\ (m.mrl = 2 => hi = 0)
  BY <1>1, <1>4, ShortLength
<1>6. HashTag(c, n) = hashOctStr(m, Finalize(m, hash, inp, lo, hi), n)
  BY Zenon DEF HashTag
<1>7. Countable(m, Len(Absorbed(c)))
  OBVIOUS
<1> HIDE DEF m, hash, inp, lo, hi
<1>8. Finalize(m, hash, inp, lo, hi) = Standard!Padded(m, hash \o inp)
  BY <1>1, <1>3, <1>4, <1>5, <1>7, FinalizePads
<1>9. HashTag(c, n) = hashOctStr(m, Standard!Padded(m, Absorbed(c)), n)
  BY <1>4, <1>6, <1>8
<1> HIDE DEF Standard!Padded
<1> QED BY <1>9 DEF hashOctStr, Standard!Digest, m

\* The one-shot function computes the digest of its message.
LEMMA MessageIsDigest ==
  ASSUME NEW m \in Methods, NEW src \in Seq(Byte), Countable(m, Len(src))
  PROVE  HashMessage(m, src) = Standard!Digest(m, src, m.hashLen)
<1> DEFINE n    == Len(src)
           b    == m.mbs
           main == n - (n % b)
           hash == SubSeq(src, 1, main)
           inp  == SubSeq(src, main + 1, n)
<1>1. b \in Nat \ {0} /\ n \in Nat
  BY Sizes, LenProperties
<1> HIDE DEF b
<1>2. /\ n % b \in 0..(b - 1) /\ n \div b \in Nat /\ main \in Nat /\ main = b * (n \div b)
  BY <1>1, DivMod, WholeBlocksDivide
<1>3. main % b = 0
  <2>1. b * (n \div b) + 0 = main /\ 0 \in 0..(b - 1)
    BY <1>1, <1>2
  <2>2. (b * (n \div b) + 0) % b = 0
    BY <1>1, <1>2, <2>1, DivModOfSplit
  <2> QED BY <2>1, <2>2
<1>4. main <= n /\ n - main < b /\ main <= main
  BY <1>1, <1>2
<1> HIDE DEF main
<1>5. SubSeq(src, 1, main) \o SubSeq(src, main + 1, n) = src
  <2> HIDE DEF n
  <2>1. \A a \in 1..(n + 1) : \A k \in (a - 1)..n : \A j \in k..n :
          SubSeq(src, a, k) \o SubSeq(src, k + 1, j) = SubSeq(src, a, j)
    BY ConcatAdjacentSubSeq, Zenon DEF n
  <2>2. 1 \in 1..(n + 1) /\ main \in (1 - 1)..n /\ n \in main..n
    BY <1>1, <1>2, <1>4
  <2>3. SubSeq(src, 1, n) = src
    BY SubSeqFull DEF n
  <2> QED BY <2>1, <2>2, <2>3, Zenon
<1>6. /\ hash \in Seq(Byte) /\ Len(hash) = main /\ inp \in Seq(Byte) /\ Len(inp) = n - main
  <2>1. 0 \in Nat /\ 0 <= main /\ 0 + 1 = 1 /\ main - 0 = main /\ n <= n
    BY <1>1, <1>2
  <2>2. SubSeq(src, 0 + 1, main) \in Seq(Byte) /\ Len(SubSeq(src, 0 + 1, main)) = main - 0
    BY <1>2, <1>4, <2>1, Part
  <2>3. SubSeq(src, main + 1, n) \in Seq(Byte) /\ Len(SubSeq(src, main + 1, n)) = n - main
    BY <1>1, <1>2, <1>4, <2>1, Part
  <2> QED BY <2>1, <2>2, <2>3
<1>7. HashMessage(m, src) = hashOctStr(m, Finalize(m, hash, inp, n % LO_MOD, 0), m.hashLen)
  BY Zenon DEF HashMessage, main, b
<1> HIDE DEF hash, inp
<1>8. hash \o inp = src
  BY <1>5, Zenon DEF hash, inp
<1>9. Finalize(m, hash, inp, n % LO_MOD, 0) = Standard!Padded(m, hash \o inp)
  <2>1. /\ Len(hash) % m.mbs = 0 /\ Len(inp) < m.mbs /\ n % LO_MOD = Len(hash \o inp) % LO_MOD
        /\ Countable(m, Len(hash \o inp)) /\ (m.mrl = 2 => 0 = 0)
    BY <1>3, <1>4, <1>6, <1>8 DEF b
  <2> HIDE DEF n
  <2> QED BY <1>6, <2>1, FinalizePads
<1>10. HashMessage(m, src) = hashOctStr(m, Standard!Padded(m, src), m.hashLen)
  BY <1>7, <1>8, <1>9
<1> HIDE DEF Standard!Padded
<1> QED BY <1>10 DEF hashOctStr, Standard!Digest

\* The first bytes of a digest.
LEMMA DigestFront ==
  ASSUME NEW m, NEW msg, NEW n \in Nat, NEW k \in 0..n
  PROVE  SubSeq(Standard!Digest(m, msg, n), 1, k) = Standard!Digest(m, msg, k)
<1> DEFINE B(j) == {<<"md", m.name, Standard!Padded(m, msg), j>>}
           s == [j \in 1..n |-> B(j)]
           t == [j \in 1..k |-> B(j)]
           u == SubSeq(s, 1, k)
           S == {B(j) : j \in 1..n}
<1>1. Standard!Digest(m, msg, n) = s /\ Standard!Digest(m, msg, k) = t
  BY Zenon DEF Standard!Digest
<1>2. k \in Nat /\ k <= n /\ \A j \in 1..n : B(j) \in S
  OBVIOUS
<1> HIDE DEF B, S
<1>3. s \in Seq(S) /\ Len(s) = n /\ t \in Seq(S) /\ Len(t) = k
      /\ (\A j \in 1..n : s[j] = B(j)) /\ (\A j \in 1..k : t[j] = B(j))
  BY <1>2
<1> HIDE DEF s, t
<1>4. 0 \in Nat /\ 0 + 1 = 1 /\ k - 0 = k /\ 0 <= k /\ k <= Len(s)
  BY <1>2, <1>3
<1>5. u \in Seq(S) /\ Len(u) = k /\ \A j \in 1..k : u[j] = s[j]
  <2>1. /\ SubSeq(s, 0 + 1, k) \in Seq(S) /\ Len(SubSeq(s, 0 + 1, k)) = k - 0
        /\ \A j \in 1..(k - 0) : SubSeq(s, 0 + 1, k)[j] = s[0 + j]
    BY <1>2, <1>3, <1>4, Part
  <2> QED BY <1>4, <2>1
<1> HIDE DEF u
<1>6. Len(u) = Len(t) /\ \A j \in 1..Len(u) : u[j] = t[j]
  BY <1>2, <1>3, <1>5
<1>7. u = t
  BY <1>3, <1>5, <1>6, SequencesEqual
<1> QED BY <1>1, <1>7 DEF u
=============================================================================
