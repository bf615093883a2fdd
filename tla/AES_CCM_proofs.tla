--------------------------- MODULE AES_CCM_proofs ---------------------------
(***************************************************************************)
(* Proofs about the CCM context, for every block size, IV, sequence of     *)
(* calls and length of message and associated data.                        *)
(***************************************************************************)
EXTENDS AES_CCM, BlockLemmas, SequenceTheorems

-----------------------------------------------------------------------------
(* The CBC MAC is a recursive function: what it computes is proved by      *)
(* induction on the number of blocks.                                      *)

\* f holds the MAC values of the first n blocks of bs.
Chain(f, mac, bs, n) ==
  f = [i \in 0..n |-> IF i = 0 THEN mac ELSE Cipher(XorBlock(bs[i], f[i - 1], 0))]

\* There is such a chain for every number of blocks.
LEMMA ChainExists ==
  ASSUME NEW mac, NEW bs, NEW n \in Nat
  PROVE  \E f : Chain(f, mac, bs, n)
<1> DEFINE S == {k \in Nat : \E f : Chain(f, mac, bs, k)}
<1>1. 0 \in S
  <2> DEFINE f == [i \in 0..0 |-> mac]
  <2>1. Chain(f, mac, bs, 0)
    BY DEF Chain
  <2> QED BY <2>1
<1>2. ASSUME NEW k \in Nat, k \in S
      PROVE  k + 1 \in S
  <2>1. PICK f : Chain(f, mac, bs, k)
    BY <1>2
  <2> DEFINE g == [i \in 0..(k + 1) |-> IF i = k + 1 THEN Cipher(XorBlock(bs[k + 1], f[k], 0)) ELSE f[i]]
  <2>2. ASSUME NEW i \in 0..(k + 1)
        PROVE  g[i] = IF i = 0 THEN mac ELSE Cipher(XorBlock(bs[i], g[i - 1], 0))
    <3>1. CASE i = k + 1
      <4>1. k \in 0..(k + 1) /\ g[k] = f[k] /\ k = i - 1 /\ i # 0
        BY <3>1
      <4>2. g[i] = Cipher(XorBlock(bs[i], f[k], 0))
        BY <3>1
      <4> QED BY <4>1, <4>2
    <3>2. CASE i # k + 1
      <4>1. i \in 0..k /\ g[i] = f[i]
        BY <3>2
      <4>2. f[i] = IF i = 0 THEN mac ELSE Cipher(XorBlock(bs[i], f[i - 1], 0))
        BY <2>1, <4>1, Zenon DEF Chain
      <4>3. i # 0 => g[i - 1] = f[i - 1]
        BY <4>1
      <4> QED BY <4>1, <4>2, <4>3
    <3> QED BY <3>1, <3>2
  <2>3. Chain(g, mac, bs, k + 1)
    <3>1. g = [i \in 0..(k + 1) |-> g[i]]
      OBVIOUS
    <3> HIDE DEF g
    <3> QED BY <2>2, <3>1, Zenon DEF Chain
  <2> QED BY <2>3
<1> HIDE DEF S
<1>3. n \in S
  BY <1>1, <1>2, Induction
<1> QED BY <1>3 DEF S

\* What holds of the elements of a chain.
LEMMA ChainStep ==
  ASSUME NEW f, NEW mac, NEW bs, NEW n \in Nat, Chain(f, mac, bs, n)
  PROVE  f[0] = mac /\ \A i \in 1..n : f[i] = Cipher(XorBlock(bs[i], f[i - 1], 0))
<1>1. \A i \in 0..n : f[i] = IF i = 0 THEN mac ELSE Cipher(XorBlock(bs[i], f[i - 1], 0))
  BY Zenon DEF Chain
<1> QED BY <1>1

\* The MAC is the last element of such a chain.
LEMMA MacOfChain ==
  ASSUME NEW mac, NEW bs, Len(bs) \in Nat
  PROVE  \E f : Chain(f, mac, bs, Len(bs)) /\ CbcMac(mac, bs) = f[Len(bs)]
<1> DEFINE m == CHOOSE f : Chain(f, mac, bs, Len(bs))
<1>1. Chain(m, mac, bs, Len(bs))
  BY ChainExists
<1>2. CbcMac(mac, bs) = m[Len(bs)]
  BY DEF CbcMac, Chain
<1> QED BY <1>1, <1>2

\* Two chains that start from the same value and go over the same blocks.
LEMMA ChainsMeet ==
  ASSUME NEW f, NEW m1, NEW b1, NEW n1 \in Nat, Chain(f, m1, b1, n1),
         NEW g, NEW m2, NEW b2, NEW n2 \in Nat, Chain(g, m2, b2, n2),
         NEW k \in Nat, k + n2 <= n1, f[k] = m2,
         \A i \in 1..n2 : b1[k + i] = b2[i]
  PROVE  f[k + n2] = g[n2]
<1> DEFINE S == {i \in Nat : i <= n2 => f[k + i] = g[i]}
<1>1. f[k + 0] = g[0]
  BY ChainStep, k + 0 = k
<1>2. ASSUME NEW i \in Nat, i \in S
      PROVE  i + 1 \in S
  <2>1. CASE i + 1 <= n2
    <3>1. i + 1 \in 1..n2 /\ k + (i + 1) \in 1..n1 /\ (i + 1) - 1 = i /\ (k + (i + 1)) - 1 = k + i
      BY <2>1
    <3>2. f[k + i] = g[i]
      BY <1>2, <2>1
    <3>3. f[k + (i + 1)] = Cipher(XorBlock(b1[k + (i + 1)], f[k + i], 0))
      BY <3>1, ChainStep
    <3>4. g[i + 1] = Cipher(XorBlock(b2[i + 1], g[i], 0))
      BY <3>1, ChainStep
    <3>5. b1[k + (i + 1)] = b2[i + 1]
      BY <3>1
    <3> QED BY <3>2, <3>3, <3>4, <3>5
  <2> QED BY <2>1
<1>3. 0 \in S
  BY <1>1
<1> HIDE DEF S
<1>4. n2 \in S
  BY <1>2, <1>3, Induction
<1> QED BY <1>4 DEF S

\* The MAC over no block.
LEMMA MacOfNone ==
  ASSUME NEW mac
  PROVE  CbcMac(mac, <<>>) = mac
<1>1. Len(<<>>) = 0
  OBVIOUS
<1>2. PICK f : Chain(f, mac, <<>>, 0) /\ CbcMac(mac, <<>>) = f[0]
  BY <1>1, MacOfChain
<1> QED BY <1>2, ChainStep

\* The MAC over one block.
LEMMA MacOfOne ==
  ASSUME NEW mac, NEW b
  PROVE  CbcMac(mac, <<b>>) = Cipher(XorBlock(b, mac, 0))
<1>1. Len(<<b>>) = 1 /\ <<b>>[1] = b /\ 1 - 1 = 0 /\ 1 \in 1..1 /\ 1 \in Nat
  OBVIOUS
<1>2. PICK f : Chain(f, mac, <<b>>, 1) /\ CbcMac(mac, <<b>>) = f[1]
  BY <1>1, MacOfChain
<1>3. f[0] = mac /\ f[1] = Cipher(XorBlock(b, f[0], 0))
  BY <1>1, <1>2, ChainStep
<1> QED BY <1>2, <1>3

\* The MAC over blocks that come in two parts.
LEMMA MacOfParts ==
  ASSUME NEW X, NEW s \in Seq(X), NEW t \in Seq(X), NEW mac
  PROVE  CbcMac(mac, s \o t) = CbcMac(CbcMac(mac, s), t)
<1> DEFINE k == Len(s)
           n == Len(t)
           st == s \o t
<1>1. /\ k \in Nat /\ n \in Nat /\ Len(st) = k + n
      /\ \A i \in 1..k : st[i] = s[i]
      /\ \A i \in 1..n : st[k + i] = t[i]
  BY SMT
<1> HIDE DEF st, k, n
<1>2. PICK f : Chain(f, mac, st, k + n) /\ CbcMac(mac, st) = f[k + n]
  BY <1>1, MacOfChain
<1>3. PICK g : Chain(g, mac, s, k) /\ CbcMac(mac, s) = g[k]
  BY <1>1, MacOfChain DEF k
<1>4. PICK h : Chain(h, g[k], t, n) /\ CbcMac(g[k], t) = h[n]
  BY <1>1, MacOfChain DEF n
<1>5. f[k] = g[k]
  <2>1. \A i \in 1..k : st[0 + i] = s[i]
    BY <1>1
  <2>2. 0 + k <= k + n /\ f[0] = mac /\ 0 + k = k /\ 0 \in Nat /\ k + n \in Nat
    BY <1>1, <1>2, ChainStep
  <2>3. f[0 + k] = g[k]
    BY <1>1, <1>2, <1>3, <2>1, <2>2, ChainsMeet
  <2> QED BY <2>2, <2>3
<1>6. f[k + n] = h[n]
  <2>1. /\ k \in Nat /\ n \in Nat /\ k + n \in Nat /\ k + n <= k + n
        /\ \A i \in 1..n : st[k + i] = t[i]
    BY <1>1
  <2> DEFINE first == g[k]
             all == k + n
  <2>2. Chain(f, mac, st, all) /\ Chain(h, first, t, n) /\ f[k] = first
    BY <1>2, <1>4, <1>5
  <2>3. all \in Nat /\ k + n <= all
    BY <2>1
  <2> HIDE DEF first, all
  <2> QED BY ONLY <2>1, <2>2, <2>3, ChainsMeet
<1> QED BY <1>2, <1>3, <1>4, <1>6 DEF st

\* The MAC over some block is an output of the cipher.
LEMMA MacIsOutput ==
  ASSUME NEW X, NEW s \in Seq(X), s # <<>>, NEW mac
  PROVE  \E x : CbcMac(mac, s) = Cipher(x)
<1>1. Len(s) \in Nat /\ Len(s) \in 1..Len(s)
  BY SMT
<1>2. PICK f : Chain(f, mac, s, Len(s)) /\ CbcMac(mac, s) = f[Len(s)]
  BY <1>1, MacOfChain
<1>3. f[Len(s)] = Cipher(XorBlock(s[Len(s)], f[Len(s) - 1], 0))
  BY <1>1, <1>2, ChainStep
<1> QED BY <1>2, <1>3

-----------------------------------------------------------------------------
(* Bytes and blocks.                                                       *)

\* A byte of the text or of associated data, which a byte of the key stream may hide.
Counters == {Ctr(iv, n) : iv \in Ivs, n \in Nat}
Atom == ({"ad", "txt"} \X Nat) \cup ({"adLen"} \X Nat \X Nat) \cup ({"E"} \X Counters \X Nat)
Byte == SUBSET Atom
Block == [1..MBS -> Byte]

\* The size of a block, and of the length in front of the associated data.
LEMMA Size == MBS \in Nat \ {0, 1} /\ MBS \in Nat \ {0} /\ AD_HDR \in 1..(MBS - 1)
  BY CcmAssumption

\* The first bytes of a block.
LEMMA FrontOfBlock ==
  ASSUME NEW blk \in Block, NEW n \in 0..MBS
  PROVE  /\ SubSeq(blk, 1, n) \in Seq(Byte) /\ Len(SubSeq(blk, 1, n)) = n
         /\ \A i \in 1..n : SubSeq(blk, 1, n)[i] = blk[i]
<1>1. blk \in Seq(Byte) /\ Len(blk) = MBS
  BY Size, SMT DEF Block
<1>2. 0 \in Nat /\ n \in Nat /\ 0 <= n /\ n <= Len(blk) /\ 0 + 1 = 1
  BY <1>1, Size
<1>3. /\ SubSeq(blk, 0 + 1, n) \in Seq(Byte) /\ Len(SubSeq(blk, 0 + 1, n)) = n - 0
      /\ \A i \in 1..(n - 0) : SubSeq(blk, 0 + 1, n)[i] = blk[0 + i]
  BY <1>1, <1>2, Part
<1> QED BY <1>2, <1>3

\* Copying bytes into a block changes those and no others.
LEMMA Copied ==
  ASSUME NEW s \in Seq(Byte), NEW blk \in Block, NEW off \in Nat, off + Len(s) <= MBS
  PROVE  /\ CopyBlock(s, blk, off) \in Block
         /\ \A j \in 1..off : CopyBlock(s, blk, off)[j] = blk[j]
         /\ \A j \in 1..Len(s) : CopyBlock(s, blk, off)[off + j] = s[j]
         /\ \A j \in (off + Len(s) + 1)..MBS : CopyBlock(s, blk, off)[j] = blk[j]
<1> USE Size
<1>1. DOMAIN blk = 1..MBS
  BY DEF Block
<1>2. ASSUME NEW j \in 1..MBS
      PROVE  (IF j \in (off + 1)..(off + Len(s)) THEN s[j - off] ELSE blk[j]) \in Byte
  <2>1. CASE j \in (off + 1)..(off + Len(s))
    <3>1. j - off \in 1..Len(s)
      BY <2>1
    <3> QED BY <2>1, <3>1
  <2>2. CASE j \notin (off + 1)..(off + Len(s))
    BY <2>2 DEF Block
  <2> QED BY <2>1, <2>2
<1>3. CopyBlock(s, blk, off) \in Block
  BY <1>1, <1>2 DEF CopyBlock, Block
<1>4. \A j \in 1..off : CopyBlock(s, blk, off)[j] = blk[j]
  BY <1>1 DEF CopyBlock
<1>5. \A j \in 1..Len(s) : CopyBlock(s, blk, off)[off + j] = s[j]
  BY <1>1 DEF CopyBlock
<1>6. \A j \in (off + Len(s) + 1)..MBS : CopyBlock(s, blk, off)[j] = blk[j]
  BY <1>1 DEF CopyBlock
<1> QED BY <1>3, <1>4, <1>5, <1>6

\* A block of zero bytes.
LEMMA ZeroIsBlock ==
  ZeroBlock(MBS) \in Block /\ \A j \in 1..MBS : ZeroBlock(MBS)[j] = {}
  BY DEF ZeroBlock, Block, Byte

\* Two blocks with the same bytes.
LEMMA BlocksEqual ==
  ASSUME NEW a \in Block, NEW b \in Block, \A j \in 1..MBS : a[j] = b[j]
  PROVE  a = b
<1>1. a = [j \in 1..MBS |-> a[j]] /\ b = [j \in 1..MBS |-> b[j]]
  BY DEF Block
<1> QED BY <1>1, Zenon

-----------------------------------------------------------------------------
(* Cutting bytes into blocks.                                              *)

\* The number of blocks that n bytes take.
Ceiling(n) == (n + MBS - 1) \div MBS

\* Whole blocks and a rest.
LEMMA CeilingOfSplit ==
  ASSUME NEW q \in Nat, NEW r \in 0..(MBS - 1)
  PROVE  Ceiling(MBS * q + r) = q + (IF r > 0 THEN 1 ELSE 0)
  BY Size, BlocksInSplit DEF Ceiling, BlocksIn

\* Whole blocks in front add their number.
LEMMA CeilingOfSum ==
  ASSUME NEW q \in Nat, NEW n \in Nat
  PROVE  Ceiling(MBS * q + n) = q + Ceiling(n) /\ Ceiling(n) \in Nat
  BY Size, BlocksInSum DEF Ceiling, BlocksIn

\* A block that is begun counts like one that is complete.
LEMMA CeilingOfBegun ==
  ASSUME NEW q \in Nat, NEW g \in 1..MBS
  PROVE  Ceiling(MBS * q + g) = q + 1
  BY Size, BlocksInBegun DEF Ceiling, BlocksIn

\* The place of a byte of the k-th block.
LEMMA PlaceInBlock ==
  ASSUME NEW k \in Nat \ {0}, NEW j \in 1..MBS
  PROVE  /\ (k - 1) * MBS + j \in Nat \ {0}
         /\ \A q \in Nat : (k - 1) * MBS + j <= MBS * q <=> k <= q
         /\ \A q \in Nat : ((q + k) - 1) * MBS + j = MBS * q + ((k - 1) * MBS + j)
  BY Size, PlaceOfByte

\* A block of a text that is cut into blocks.
BlockOf(s, k) ==
  [j \in 1..MBS |->
     IF (k - 1) * MBS + j <= Len(s) THEN s[(k - 1) * MBS + j] ELSE {}]

\* A text cut into blocks.
LEMMA PaddedBlocks ==
  ASSUME NEW s \in Seq(Byte)
  PROVE  /\ ZeroPadded(s, MBS) \in Seq(Block)
         /\ Len(ZeroPadded(s, MBS)) = Ceiling(Len(s))
         /\ \A k \in 1..Ceiling(Len(s)) : ZeroPadded(s, MBS)[k] = BlockOf(s, k)
<1>1. {} \in Byte /\ Block = SizedBlocks(MBS, Byte)
  BY DEF Byte, Block, SizedBlocks
<1>2. \A n, k : Ceiling(n) = BlocksIn(MBS, n) /\ BlockOf(s, k) = CutBlock(MBS, s, k)
  BY Zenon DEF Ceiling, BlocksIn, BlockOf, CutBlock
<1> QED BY <1>1, <1>2, Size, CutBlocks

\* No bytes take no block.
LEMMA PaddedNone ==
  ZeroPadded(<<>>, MBS) = <<>>
  BY Size, CutNone

\* At most a block of bytes.
LEMMA PaddedOne ==
  ASSUME NEW s \in Seq(Byte), Len(s) \in 1..MBS
  PROVE  ZeroPadded(s, MBS) = <<CopyBlock(s, ZeroBlock(MBS), 0)>>
<1>1. {} \in Byte
  BY DEF Byte
<1> QED BY <1>1, Size, CutOne

\* Whole blocks, and what follows them.
LEMMA PaddedParts ==
  ASSUME NEW s \in Seq(Byte), NEW t \in Seq(Byte), NEW q \in Nat, Len(s) = MBS * q
  PROVE  ZeroPadded(s \o t, MBS) = ZeroPadded(s, MBS) \o ZeroPadded(t, MBS)
<1>1. {} \in Byte
  BY DEF Byte
<1> QED BY <1>1, Size, CutParts

-----------------------------------------------------------------------------
(* Values of the cipher.                                                   *)

\* XOR does not depend on the order.
LEMMA XorCommutes ==
  ASSUME NEW a, NEW b
  PROVE  Xor(a, b) = Xor(b, a)
  BY DEF Xor

\* The XOR of two bytes is a byte.
LEMMA XorByte ==
  ASSUME NEW a \in Byte, NEW b \in Byte
  PROVE  Xor(a, b) \in Byte
  BY DEF Xor, Byte

\* An output of the cipher has the size of a block.
LEMMA OutputSize ==
  ASSUME NEW x
  PROVE  DOMAIN Cipher(x) = 1..MBS /\ Len(Cipher(x)) = MBS
<1> DEFINE y == Cipher(x)
<1>1. y \in [1..MBS -> {y[j] : j \in 1..MBS}] /\ DOMAIN y = 1..MBS
  BY DEF Cipher
<1> HIDE DEF y
<1>2. Len(y) = MBS
  BY <1>1, Size, SMT
<1> QED BY <1>1, <1>2 DEF y

\* A block of the key stream.
LEMMA KeyBlock ==
  ASSUME NEW iv \in Ivs, NEW n \in Nat
  PROVE  Cipher(Ctr(iv, n)) \in Block
<1>1. ASSUME NEW j \in 1..MBS
      PROVE  {<<"E", Ctr(iv, n), j>>} \in Byte
  <2>1. j \in Nat
    BY Size
  <2>2. Ctr(iv, n) \in Counters
    BY DEF Counters
  <2>3. <<"E", Ctr(iv, n), j>> \in Atom
    BY <2>1, <2>2 DEF Atom
  <2> QED BY <2>3 DEF Byte
<1>2. Cipher(Ctr(iv, n)) = [j \in 1..MBS |-> {<<"E", Ctr(iv, n), j>>}]
  BY Zenon DEF Cipher
<1> QED BY <1>1, <1>2, Zenon DEF Block

\* What the caller passes.
LEMMA DataBytes ==
  ASSUME NEW kind \in {"ad", "txt"}, NEW first \in Nat, NEW n \in Nat
  PROVE  Data(kind, first, n) \in Seq(Byte) /\ Len(Data(kind, first, n)) = n
<1>1. ASSUME NEW i \in 1..n
      PROVE  {<<kind, first + i>>} \in Byte
  <2>1. first + i \in Nat
    OBVIOUS
  <2>2. <<kind, first + i>> \in Atom
    BY <2>1 DEF Atom
  <2> QED BY <2>2 DEF Byte
<1> DEFINE d == [i \in 1..n |-> {<<kind, first + i>>}]
<1>2. d \in [1..n -> Byte]
  BY <1>1
<1> HIDE DEF d
<1>3. d \in Seq(Byte) /\ Len(d) = n
  BY <1>2, SMT
<1> QED BY <1>3 DEF d, Data

\* The encoded length of the associated data.
LEMMA LengthBytes ==
  ASSUME NEW n \in Nat
  PROVE  AdLenEnc(n) \in Seq(Byte) /\ Len(AdLenEnc(n)) = AD_HDR
<1>1. ASSUME NEW j \in 1..AD_HDR
      PROVE  {<<"adLen", n, j>>} \in Byte
  <2>1. j \in Nat
    BY Size
  <2>2. <<"adLen", n, j>> \in Atom
    BY <2>1 DEF Atom
  <2> QED BY <2>2 DEF Byte
<1> DEFINE d == [j \in 1..AD_HDR |-> {<<"adLen", n, j>>}]
<1>2. d \in [1..AD_HDR -> Byte]
  BY <1>1
<1> HIDE DEF d
<1>3. d \in Seq(Byte) /\ Len(d) = AD_HDR
  BY <1>2, Size, SMT
<1> QED BY <1>3 DEF d, AdLenEnc

\* A value of the MAC: zero before the first block, then an output of the cipher.
MacValue(mac) == mac = ZeroBlock(MBS) \/ \E x : mac = Cipher(x)

\* A value of the MAC has the size of a block.
LEMMA MacSize ==
  ASSUME NEW mac, MacValue(mac)
  PROVE  DOMAIN mac = 1..MBS /\ Len(mac) = MBS
<1>1. CASE mac = ZeroBlock(MBS)
  <2>1. mac \in Block
    BY <1>1, ZeroIsBlock
  <2> QED BY <2>1, Size, SMT DEF Block
<1>2. CASE \E x : mac = Cipher(x)
  BY <1>2, OutputSize
<1> QED BY <1>1, <1>2 DEF MacValue

\* Going on with the MAC gives a value of the MAC.
LEMMA MacStaysValue ==
  ASSUME NEW X, NEW s \in Seq(X), NEW mac, MacValue(mac)
  PROVE  MacValue(CbcMac(mac, s))
<1>1. CASE s = <<>>
  BY <1>1, MacOfNone
<1>2. CASE s # <<>>
  BY <1>2, MacIsOutput DEF MacValue
<1> QED BY <1>1, <1>2

-----------------------------------------------------------------------------
(* Encrypt and Decrypt.                                                    *)

\* A context, whether or not there is a message in it.
Context(c) ==
  /\ c = [valid |-> c.valid, msgLen |-> c.msgLen, lenProcessed |-> c.lenProcessed,
          tagLen |-> c.tagLen, counterVal |-> c.counterVal, iv |-> c.iv, s0 |-> c.s0,
          si |-> c.si, blk |-> c.blk, mac |-> c.mac, aesni |-> c.aesni]
  /\ c.valid \in BOOLEAN /\ c.aesni \in BOOLEAN
  /\ c.msgLen \in MsgLens \cup {0} /\ c.lenProcessed \in Nat /\ c.counterVal \in Nat
  /\ c.tagLen \in {n \in MIN_TAG..MBS : n % 2 = 0}
  /\ c.iv \in Ivs /\ c.si \in Block /\ c.blk \in Block
  /\ MacValue(c.s0) /\ MacValue(c.mac)

\* The context after a call, by the fields it changes.
After(c, lenProcessed, counterVal, si, blk, mac) ==
  [valid |-> c.valid, msgLen |-> c.msgLen, lenProcessed |-> lenProcessed,
   tagLen |-> c.tagLen, counterVal |-> counterVal, iv |-> c.iv, s0 |-> c.s0,
   si |-> si, blk |-> blk, mac |-> mac, aesni |-> c.aesni]

\* What Process sets of a context.
LEMMA Excepted ==
  ASSUME NEW c, Context(c), NEW l, NEW n, NEW si, NEW blk, NEW mac
  PROVE  [c EXCEPT !.lenProcessed = l, !.counterVal = n, !.si = si, !.blk = blk, !.mac = mac]
           = After(c, l, n, si, blk, mac)
<1> DEFINE c1 == [c EXCEPT !.lenProcessed = l]
           c2 == [c1 EXCEPT !.counterVal = n]
           c3 == [c2 EXCEPT !.si = si]
           c4 == [c3 EXCEPT !.blk = blk]
           c5 == [c4 EXCEPT !.mac = mac]
           v == c.valid
           ml == c.msgLen
           lp == c.lenProcessed
           tl == c.tagLen
           cv == c.counterVal
           iv == c.iv
           s0 == c.s0
           s1 == c.si
           b1 == c.blk
           m1 == c.mac
           ni == c.aesni
           R(l9, n9, s9, b9, m9) ==
             [valid |-> v, msgLen |-> ml, lenProcessed |-> l9, tagLen |-> tl, counterVal |-> n9,
              iv |-> iv, s0 |-> s0, si |-> s9, blk |-> b9, mac |-> m9, aesni |-> ni]
<1>1. c = R(lp, cv, s1, b1, m1)
  BY DEF Context
<1>2. [c EXCEPT !.lenProcessed = l, !.counterVal = n, !.si = si, !.blk = blk, !.mac = mac] = c5
  OBVIOUS
<1>8. After(c, l, n, si, blk, mac) = R(l, n, si, blk, mac)
  BY DEF After
<1> HIDE DEF v, ml, lp, tl, cv, iv, s0, s1, b1, m1, ni
<1>3. c1 = R(l, cv, s1, b1, m1)
  BY <1>1
<1> HIDE DEF c1
<1>4. c2 = R(l, n, s1, b1, m1)
  BY <1>3
<1> HIDE DEF c2
<1>5. c3 = R(l, n, si, b1, m1)
  BY <1>4
<1> HIDE DEF c3
<1>6. c4 = R(l, n, si, blk, m1)
  BY <1>5
<1> HIDE DEF c4
<1>7. c5 = R(l, n, si, blk, mac)
  BY <1>6
<1> HIDE DEF c5
<1> QED BY <1>2, <1>7, <1>8 DEF c1, c2, c3, c4, c5

\* The output byte j of a call is src[j] under the byte ks[j] of the key stream.
LEMMA Xored ==
  ASSUME NEW len \in Nat, NEW src, Len(src) = len, NEW ks, DOMAIN ks = 1..len
  PROVE  XorBlock(src, ks, 0) = [j \in 1..len |-> Xor(src[j], ks[j])]
<1>1. XorBlock(src, ks, 0) =
        [j \in 1..len |-> IF j \in (0 + 1)..(0 + Len(src)) THEN Xor(ks[j], src[j - 0]) ELSE ks[j]]
  BY Zenon DEF XorBlock
<1>2. ASSUME NEW j \in 1..len
      PROVE  (IF j \in (0 + 1)..(0 + Len(src)) THEN Xor(ks[j], src[j - 0]) ELSE ks[j]) = Xor(src[j], ks[j])
  <2>1. j \in (0 + 1)..(0 + Len(src)) /\ j - 0 = j
    OBVIOUS
  <2> QED BY <2>1, XorCommutes
<1> QED BY <1>1, <1>2, Zenon

\* The parts of a call as Process names them.
HeadLen(c, len) == IF flag(c) # 0 THEN IPP_MIN(len, MBS - 1) ELSE 0
Blocks(c, len) == (len - HeadLen(c, len)) \div MBS
Rest(c, len) == (len - HeadLen(c, len)) % MBS
Used(c, len) == BlocksUsed(Blocks(c, len), Rest(c, len))
Stream(c, i) == Cipher(Ctr(c.iv, c.counterVal + i))
KeyBytes(c, len) ==
  [j \in 1..len |->
     IF j <= HeadLen(c, len) THEN PendingStream(c, HeadLen(c, len))[j]
     ELSE Stream(c, ((j - HeadLen(c, len) - 1) \div MBS) + 1)[((j - HeadLen(c, len) - 1) % MBS) + 1]]
Output(c, src) == XorBlock(src, KeyBytes(c, Len(src)), 0)
Plain(c, decrypt, src) == IF decrypt THEN Output(c, src) ELSE src
Filled(c, plain, len) == CopyBlock(SubSeq(plain, 1, HeadLen(c, len)), c.blk, flag(c))
HeadMac(c, plain, len) ==
  IF flag(c) # 0 /\ flag(c) + HeadLen(c, len) = MBS
  THEN CbcMac(c.mac, <<Filled(c, plain, len)>>) ELSE c.mac

\* Process in terms of these parts.
LEMMA ProcessParts ==
  ASSUME NEW c, Context(c), NEW decrypt \in BOOLEAN, NEW src
  PROVE  LET len   == Len(src)
             plain == Plain(c, decrypt, src)
         IN  Process(c, decrypt, src) =
               [dst |-> Output(c, src), plain |-> plain,
                ctx |-> After(c,
                  c.lenProcessed + HeadLen(c, len) + Rest(c, len)
                    + (IF c.aesni THEN 0 ELSE Blocks(c, len) * MBS),
                  c.counterVal + Used(c, len),
                  IF Used(c, len) > 0 THEN Stream(c, Used(c, len)) ELSE c.si,
                  CopyBlock(SubSeq(plain, len - Rest(c, len) + 1, len), Filled(c, plain, len), 0),
                  CbcMac(HeadMac(c, plain, len),
                         ZeroPadded(SubSeq(plain, HeadLen(c, len) + 1, len - Rest(c, len)), MBS)))]
<1> DEFINE len   == Len(src)
           plain == Plain(c, decrypt, src)
           l == c.lenProcessed + HeadLen(c, len) + Rest(c, len)
                  + (IF c.aesni THEN 0 ELSE Blocks(c, len) * MBS)
           n == c.counterVal + Used(c, len)
           si == IF Used(c, len) > 0 THEN Stream(c, Used(c, len)) ELSE c.si
           blk == CopyBlock(SubSeq(plain, len - Rest(c, len) + 1, len), Filled(c, plain, len), 0)
           mac == CbcMac(HeadMac(c, plain, len),
                         ZeroPadded(SubSeq(plain, HeadLen(c, len) + 1, len - Rest(c, len)), MBS))
<1>1. Process(c, decrypt, src) =
        [dst |-> Output(c, src), plain |-> plain,
         ctx |-> [c EXCEPT !.lenProcessed = l, !.counterVal = n, !.si = si, !.blk = blk, !.mac = mac]]
  BY DEF Process, HeadLen, Blocks, Rest, Used, Stream, KeyBytes, Output, Plain, Filled, HeadMac
<1> HIDE DEF l, n, si, blk, mac
<1>2. [c EXCEPT !.lenProcessed = l, !.counterVal = n, !.si = si, !.blk = blk, !.mac = mac]
        = After(c, l, n, si, blk, mac)
  <2> DEFINE Claim(x, a, b, g, d, e) ==
               [x EXCEPT !.lenProcessed = a, !.counterVal = b, !.si = g, !.blk = d, !.mac = e]
                 = After(x, a, b, g, d, e)
  <2>1. \A a, b, g, d, e : Claim(c, a, b, g, d, e)
    BY Excepted
  <2> HIDE DEF Claim
  <2>2. Claim(c, l, n, si, blk, mac)
    BY <2>1, Zenon
  <2> QED BY <2>2 DEF Claim
<1> QED BY <1>1, <1>2, Zenon DEF l, n, si, blk, mac, len, plain

\* Nothing is copied.
LEMMA CopiedNone ==
  ASSUME NEW blk \in Block, NEW off \in Nat
  PROVE  CopyBlock(<<>>, blk, off) = blk
<1>1. CopyBlock(<<>>, blk, off) = [j \in 1..MBS |-> blk[j]]
  <2>1. DOMAIN blk = 1..MBS /\ Len(<<>>) = 0
    BY DEF Block
  <2>2. ASSUME NEW j \in 1..MBS
        PROVE  j \notin (off + 1)..(off + Len(<<>>))
    BY <2>1
  <2> QED BY <2>1, <2>2, Zenon DEF CopyBlock
<1>2. blk = [j \in 1..MBS |-> blk[j]]
  BY DEF Block
<1> QED BY <1>1, <1>2, Zenon

\* The bytes of a call that only adds to the pending block.
PendingOut(c, src) == [j \in 1..Len(src) |-> Xor(src[j], c.si[flag(c) + j])]
PendingPlain(c, decrypt, src) == IF decrypt THEN PendingOut(c, src) ELSE src
PendingBlk(c, decrypt, src) == CopyBlock(PendingPlain(c, decrypt, src), c.blk, flag(c))

\* The bytes of such a call, and the pending block with them.
LEMMA PendingTypes ==
  ASSUME NEW c, Context(c), NEW decrypt \in BOOLEAN, NEW src \in Seq(Byte),
         flag(c) + Len(src) <= MBS
  PROVE  /\ flag(c) \in 0..(MBS - 1)
         /\ PendingPlain(c, decrypt, src) \in Seq(Byte)
         /\ Len(PendingPlain(c, decrypt, src)) = Len(src)
         /\ PendingBlk(c, decrypt, src) \in Block
<1> USE Size
<1>1. flag(c) \in 0..(MBS - 1)
  BY DivMod DEF Context, flag
<1> HIDE DEF flag
<1> DEFINE d == PendingOut(c, src)
<1>2. ASSUME NEW j \in 1..Len(src)
      PROVE  Xor(src[j], c.si[flag(c) + j]) \in Byte
  <2>1. flag(c) + j \in 1..MBS /\ Len(src) \in Nat
    BY <1>1
  <2>2. c.si[flag(c) + j] \in Byte
    BY <2>1 DEF Context, Block
  <2>3. src[j] \in Byte
    OBVIOUS
  <2> QED BY <2>2, <2>3, XorByte
<1>3. d \in [1..Len(src) -> Byte] /\ Len(src) \in Nat
  BY <1>2 DEF PendingOut
<1> HIDE DEF d
<1>4. d \in Seq(Byte) /\ Len(d) = Len(src)
  BY <1>3, SMT
<1>5. PendingPlain(c, decrypt, src) \in Seq(Byte) /\ Len(PendingPlain(c, decrypt, src)) = Len(src)
  BY <1>4, Zenon DEF PendingPlain, d
<1>6. PendingBlk(c, decrypt, src) \in Block
  <2> DEFINE s == PendingPlain(c, decrypt, src)
  <2>1. s \in Seq(Byte) /\ flag(c) + Len(s) <= MBS /\ flag(c) \in Nat /\ c.blk \in Block
    BY <1>1, <1>5 DEF Context
  <2> HIDE DEF s
  <2>2. CopyBlock(s, c.blk, flag(c)) \in Block
    BY <2>1, Copied
  <2> QED BY <2>2 DEF PendingBlk, s
<1> QED BY <1>1, <1>5, <1>6

\* A call that fits the pending block.
LEMMA ProcessPending ==
  ASSUME NEW c, Context(c), NEW decrypt \in BOOLEAN, NEW src \in Seq(Byte),
         flag(c) # 0, flag(c) + Len(src) <= MBS
  PROVE  LET len == Len(src)
             blk == PendingBlk(c, decrypt, src)
         IN  Process(c, decrypt, src) =
               [dst |-> PendingOut(c, src), plain |-> PendingPlain(c, decrypt, src),
                ctx |-> After(c, c.lenProcessed + len, c.counterVal, c.si, blk,
                              IF flag(c) + len = MBS THEN CbcMac(c.mac, <<blk>>) ELSE c.mac)]
<1> USE Size
<1> DEFINE len == Len(src)
           f == flag(c)
<1>1. f \in 1..(MBS - 1) /\ len \in Nat /\ f + len <= MBS /\ len <= MBS - 1
  BY PendingTypes
<1>2. HeadLen(c, len) = len
  BY <1>1 DEF HeadLen, IPP_MIN
<1> HIDE DEF f, len
<1>3. Blocks(c, len) = 0 /\ Rest(c, len) = 0
  <2>1. len - len = MBS * 0 + 0 /\ 0 \in 0..(MBS - 1) /\ 0 \in Nat
    BY <1>1, SMT
  <2>2. (MBS * 0 + 0) \div MBS = 0 /\ (MBS * 0 + 0) % MBS = 0
    BY <2>1, DivModOfSplit
  <2> QED BY <1>2, <2>1, <2>2, Zenon DEF Blocks, Rest
<1>4. Used(c, len) = 0
  BY <1>3 DEF Used, BlocksUsed
<1>5. Output(c, src) = PendingOut(c, src)
  <2> DEFINE ks == KeyBytes(c, len)
  <2>1. DOMAIN ks = 1..len
    BY DEF KeyBytes
  <2>2. ASSUME NEW j \in 1..len
        PROVE  ks[j] = c.si[f + j]
    <3>1. j <= len /\ f + j <= MBS
      BY <1>1
    <3>2. ks[j] = PendingStream(c, len)[j]
      BY <1>2, <3>1, Zenon DEF KeyBytes
    <3>3. PendingStream(c, len)[j] = c.si[f + j]
      BY <3>1, Zenon DEF PendingStream, f
    <3> QED BY <3>2, <3>3
  <2> HIDE DEF ks
  <2>3. XorBlock(src, ks, 0) = [j \in 1..len |-> Xor(src[j], ks[j])]
    BY <1>1, <2>1, Xored DEF len
  <2> QED BY <2>2, <2>3, Zenon DEF Output, PendingOut, len, f, ks
<1> DEFINE plain == PendingPlain(c, decrypt, src)
           blk == PendingBlk(c, decrypt, src)
<1>6. Plain(c, decrypt, src) = plain
  BY <1>5, Zenon DEF Plain, PendingPlain
<1>7. plain \in Seq(Byte) /\ Len(plain) = len /\ blk \in Block
  BY PendingTypes DEF len
<1> HIDE DEF plain
<1>8. Filled(c, plain, len) = blk
  <2>1. SubSeq(plain, 1, len) = plain
    BY <1>7, WholePart
  <2> QED BY <1>2, <2>1, Zenon DEF Filled, PendingBlk, plain
<1> HIDE DEF blk
<1>9. HeadMac(c, plain, len) = IF f + len = MBS THEN CbcMac(c.mac, <<blk>>) ELSE c.mac
  BY <1>2, <1>8, Zenon DEF HeadMac, f
<1>10. CopyBlock(SubSeq(plain, len - Rest(c, len) + 1, len), blk, 0) = blk
  <2>1. len - Rest(c, len) = len
    BY <1>1, <1>3
  <2>2. SubSeq(plain, len + 1, len) = <<>>
    BY <1>1, <1>7, NoPart
  <2>3. CopyBlock(<<>>, blk, 0) = blk
    BY <1>7, CopiedNone
  <2>4. len - Rest(c, len) + 1 = len + 1
    BY <1>1, <1>3
  <2> QED BY <2>2, <2>3, <2>4, Zenon
<1> DEFINE hm == HeadMac(c, plain, len)
<1>11. CbcMac(hm, ZeroPadded(SubSeq(plain, HeadLen(c, len) + 1, len - Rest(c, len)), MBS)) = hm
  <2>1. len - Rest(c, len) = len
    BY <1>1, <1>3
  <2>2. SubSeq(plain, len + 1, len) = <<>>
    BY <1>1, <1>7, NoPart
  <2>3. CbcMac(hm, <<>>) = hm
    BY MacOfNone
  <2> QED BY <1>2, <2>1, <2>2, <2>3, PaddedNone, Zenon
<1>12. c.lenProcessed + HeadLen(c, len) + Rest(c, len)
         + (IF c.aesni THEN 0 ELSE Blocks(c, len) * MBS) = c.lenProcessed + len
  BY <1>1, <1>2, <1>3 DEF Context
<1>13. c.counterVal + Used(c, len) = c.counterVal
       /\ (IF Used(c, len) > 0 THEN Stream(c, Used(c, len)) ELSE c.si) = c.si
  BY <1>4 DEF Context
<1>14. Process(c, decrypt, src) =
         [dst |-> Output(c, src), plain |-> plain,
          ctx |-> After(c,
            c.lenProcessed + HeadLen(c, len) + Rest(c, len)
              + (IF c.aesni THEN 0 ELSE Blocks(c, len) * MBS),
            c.counterVal + Used(c, len),
            IF Used(c, len) > 0 THEN Stream(c, Used(c, len)) ELSE c.si,
            CopyBlock(SubSeq(plain, len - Rest(c, len) + 1, len), Filled(c, plain, len), 0),
            CbcMac(hm, ZeroPadded(SubSeq(plain, HeadLen(c, len) + 1, len - Rest(c, len)), MBS)))]
  BY <1>6, ProcessParts, ZenonT(60) DEF len
<1> QED BY <1>5, <1>8, <1>9, <1>10, <1>11, <1>12, <1>13, <1>14, Zenon DEF len, f, plain, blk

\* The bytes of a call that begins with a block of its own.
BlocksOut(c, src) ==
  [j \in 1..Len(src) |->
     Xor(src[j], Stream(c, ((j - 1) \div MBS) + 1)[((j - 1) % MBS) + 1])]
BlocksPlain(c, decrypt, src) == IF decrypt THEN BlocksOut(c, src) ELSE src

\* A block of the key stream of a context.
LEMMA StreamBlock ==
  ASSUME NEW c, Context(c), NEW n \in Nat
  PROVE  Stream(c, n) \in Block
<1>1. c.iv \in Ivs /\ c.counterVal + n \in Nat
  BY DEF Context
<1> QED BY <1>1, KeyBlock DEF Stream

\* The plain text of such a call has as many bytes as it was passed.
LEMMA BlocksTypes ==
  ASSUME NEW c, Context(c), NEW decrypt \in BOOLEAN, NEW src \in Seq(Byte)
  PROVE  /\ BlocksPlain(c, decrypt, src) \in Seq(Byte)
         /\ Len(BlocksPlain(c, decrypt, src)) = Len(src)
<1> USE Size
<1> DEFINE d == BlocksOut(c, src)
<1>1. ASSUME NEW j \in 1..Len(src)
      PROVE  Xor(src[j], Stream(c, ((j - 1) \div MBS) + 1)[((j - 1) % MBS) + 1]) \in Byte
  <2> DEFINE q == (j - 1) \div MBS
             r == (j - 1) % MBS
  <2>1. j - 1 \in Nat
    OBVIOUS
  <2>2. q \in Nat /\ r \in 0..(MBS - 1)
    BY <2>1, DivMod
  <2> HIDE DEF q, r
  <2>3. q + 1 \in Nat /\ r + 1 \in 1..MBS
    BY <2>2
  <2>4. Stream(c, q + 1) \in Block
    BY <2>3, StreamBlock
  <2>5. Stream(c, q + 1)[r + 1] \in Byte
    BY <2>3, <2>4 DEF Block
  <2>6. src[j] \in Byte
    OBVIOUS
  <2> QED BY <2>5, <2>6, XorByte DEF q, r
<1>2. d \in [1..Len(src) -> Byte]
  BY <1>1, Zenon DEF BlocksOut
<1>4. Len(src) \in Nat
  OBVIOUS
<1> HIDE DEF d
<1>3. d \in Seq(Byte) /\ Len(d) = Len(src)
  BY <1>2, <1>4, SMT
<1> QED BY <1>3, Zenon DEF BlocksPlain, d

\* How a call of n bytes that begins with a block of its own is cut.
LEMMA CallCut ==
  ASSUME NEW n \in Nat
  PROVE  /\ n \div MBS \in Nat /\ n % MBS \in 0..(MBS - 1)
         /\ n = MBS * (n \div MBS) + (n % MBS)
         /\ n - (n % MBS) = MBS * (n \div MBS)
         /\ n - (n % MBS) \in 0..n
         /\ Ceiling(n) = (n \div MBS) + (IF n % MBS > 0 THEN 1 ELSE 0)
<1> DEFINE q == n \div MBS
           r == n % MBS
<1>1. q \in Nat /\ r \in 0..(MBS - 1) /\ n = MBS * q + r
  BY Size, DivMod
<1> HIDE DEF q, r
<1>2. MBS * q \in Nat
  BY <1>1, Size, SMT
<1>3. n - r = MBS * q /\ n - r \in 0..n
  BY <1>1, <1>2, Size
<1>4. Ceiling(n) = q + (IF r > 0 THEN 1 ELSE 0)
  BY <1>1, CeilingOfSplit
<1> QED BY <1>1, <1>3, <1>4 DEF q, r

\* A call that begins with a block of its own.
LEMMA ProcessBlocks ==
  ASSUME NEW c, Context(c), NEW decrypt \in BOOLEAN, NEW src \in Seq(Byte), flag(c) = 0
  PROVE  LET len   == Len(src)
             rest  == len % MBS
             plain == BlocksPlain(c, decrypt, src)
         IN  Process(c, decrypt, src) =
               [dst |-> BlocksOut(c, src), plain |-> plain,
                ctx |-> After(c,
                  c.lenProcessed + rest + (IF c.aesni THEN 0 ELSE (len \div MBS) * MBS),
                  c.counterVal + Ceiling(len),
                  IF Ceiling(len) > 0 THEN Stream(c, Ceiling(len)) ELSE c.si,
                  CopyBlock(SubSeq(plain, len - rest + 1, len), c.blk, 0),
                  CbcMac(c.mac, ZeroPadded(SubSeq(plain, 1, len - rest), MBS)))]
<1> USE Size
<1> DEFINE len == Len(src)
           rest == len % MBS
           q == len \div MBS
           plain == BlocksPlain(c, decrypt, src)
<1>1. len \in Nat
  OBVIOUS
<1>2. HeadLen(c, len) = 0
  BY DEF HeadLen
<1> HIDE DEF len
<1>3. Blocks(c, len) = q /\ Rest(c, len) = rest
  <2>1. len - 0 = len
    BY <1>1
  <2> QED BY <1>2, <2>1, Zenon DEF Blocks, Rest
<1>4. Used(c, len) = Ceiling(len)
  BY <1>1, <1>3, CallCut, Zenon DEF Used, BlocksUsed
<1>5. Output(c, src) = BlocksOut(c, src)
  <2> DEFINE ks == KeyBytes(c, len)
  <2>1. DOMAIN ks = 1..len
    BY DEF KeyBytes
  <2>2. ASSUME NEW j \in 1..len
        PROVE  ks[j] = Stream(c, ((j - 1) \div MBS) + 1)[((j - 1) % MBS) + 1]
    <3>1. ~(j <= 0) /\ (j - 0) - 1 = j - 1
      BY <1>1
    <3> QED BY <1>2, <3>1, Zenon DEF KeyBytes
  <2> HIDE DEF ks
  <2>3. XorBlock(src, ks, 0) = [j \in 1..len |-> Xor(src[j], ks[j])]
    BY <1>1, <2>1, Xored DEF len
  <2> QED BY <2>2, <2>3, Zenon DEF Output, BlocksOut, len, ks
<1>6. Plain(c, decrypt, src) = plain
  BY <1>5, Zenon DEF Plain, BlocksPlain
<1>7. plain \in Seq(Byte) /\ Len(plain) = len
  BY BlocksTypes DEF len
<1> HIDE DEF plain
<1>8. Filled(c, plain, len) = c.blk
  <2>1. SubSeq(plain, 0 + 1, 0) = <<>> /\ 0 + 1 = 1
    BY <1>7, NoPart
  <2>2. CopyBlock(<<>>, c.blk, 0) = c.blk /\ flag(c) = 0
    BY CopiedNone DEF Context
  <2> QED BY <1>2, <2>1, <2>2, Zenon DEF Filled
<1>9. HeadMac(c, plain, len) = c.mac
  BY DEF HeadMac
<1>10. c.lenProcessed + HeadLen(c, len) + Rest(c, len)
         + (IF c.aesni THEN 0 ELSE Blocks(c, len) * MBS)
       = c.lenProcessed + rest + (IF c.aesni THEN 0 ELSE q * MBS)
  <2>1. c.lenProcessed + 0 = c.lenProcessed
    BY DEF Context
  <2> QED BY <1>2, <1>3, <2>1, Zenon
<1>11. HeadLen(c, len) + 1 = 1
  BY <1>2
<1> HIDE DEF rest, q
<1> DEFINE Built(pl) ==
         [dst |-> Output(c, src), plain |-> pl,
          ctx |-> After(c,
            c.lenProcessed + HeadLen(c, len) + Rest(c, len)
              + (IF c.aesni THEN 0 ELSE Blocks(c, len) * MBS),
            c.counterVal + Used(c, len),
            IF Used(c, len) > 0 THEN Stream(c, Used(c, len)) ELSE c.si,
            CopyBlock(SubSeq(pl, len - Rest(c, len) + 1, len), Filled(c, pl, len), 0),
            CbcMac(HeadMac(c, pl, len),
                   ZeroPadded(SubSeq(pl, HeadLen(c, len) + 1, len - Rest(c, len)), MBS)))]
<1>12. Process(c, decrypt, src) = Built(plain)
  <2>1. Process(c, decrypt, src) = Built(Plain(c, decrypt, src))
    BY ProcessParts, ZenonT(60) DEF len
  <2> HIDE DEF Built
  <2> QED BY <1>6, <2>1
<1>13. Process(c, decrypt, src) =
         [dst |-> BlocksOut(c, src), plain |-> plain,
          ctx |-> After(c,
            c.lenProcessed + rest + (IF c.aesni THEN 0 ELSE q * MBS),
            c.counterVal + Ceiling(len),
            IF Ceiling(len) > 0 THEN Stream(c, Ceiling(len)) ELSE c.si,
            CopyBlock(SubSeq(plain, len - rest + 1, len), c.blk, 0),
            CbcMac(c.mac, ZeroPadded(SubSeq(plain, 1, len - rest), MBS)))]
  BY <1>3, <1>4, <1>5, <1>8, <1>9, <1>10, <1>11, <1>12, Zenon
<1> QED BY <1>13, Zenon DEF len, q, rest, plain

-----------------------------------------------------------------------------
(* A context in mid-message.                                               *)

\* The part of a text that the MAC covers before the tag is asked for.
Whole(text) == SubSeq(text, 1, Len(text) - (Len(text) % MBS))

\* The context c has taken in text after a header with the MAC start.
InMessage(c, start, text) ==
  /\ flag(c) = Len(text) % MBS
  /\ c.counterVal = Ceiling(Len(text))
  /\ \A i \in 1..flag(c) : c.blk[i] = text[(Len(text) - flag(c)) + i]
  /\ flag(c) # 0 => c.si = Cipher(Ctr(c.iv, c.counterVal))
  /\ c.mac = CbcMac(start, ZeroPadded(Whole(text), MBS))
  /\ ~c.aesni => c.lenProcessed = Len(text)

\* The fields of a context after a call.
LEMMA AfterFields ==
  ASSUME NEW c, NEW l, NEW n, NEW si, NEW blk, NEW mac
  PROVE  LET d == After(c, l, n, si, blk, mac)
         IN  /\ d.valid = c.valid /\ d.msgLen = c.msgLen /\ d.tagLen = c.tagLen
             /\ d.iv = c.iv /\ d.s0 = c.s0 /\ d.aesni = c.aesni
             /\ d.lenProcessed = l /\ d.counterVal = n /\ d.si = si /\ d.blk = blk /\ d.mac = mac
  BY DEF After

\* A context with fields of the right kinds is a context again.
LEMMA AfterContext ==
  ASSUME NEW c, Context(c), NEW l \in Nat, NEW n \in Nat, NEW si \in Block, NEW blk \in Block,
         NEW mac, MacValue(mac)
  PROVE  Context(After(c, l, n, si, blk, mac))
<1> DEFINE d == After(c, l, n, si, blk, mac)
<1>1. /\ d.valid = c.valid /\ d.msgLen = c.msgLen /\ d.tagLen = c.tagLen
      /\ d.iv = c.iv /\ d.s0 = c.s0 /\ d.aesni = c.aesni
      /\ d.lenProcessed = l /\ d.counterVal = n /\ d.si = si /\ d.blk = blk /\ d.mac = mac
  BY AfterFields
<1>2. d = [valid |-> c.valid, msgLen |-> c.msgLen, lenProcessed |-> l,
           tagLen |-> c.tagLen, counterVal |-> n, iv |-> c.iv, s0 |-> c.s0,
           si |-> si, blk |-> blk, mac |-> mac, aesni |-> c.aesni]
  BY DEF After
<1> HIDE DEF d
<1>3. d = [valid |-> d.valid, msgLen |-> d.msgLen, lenProcessed |-> d.lenProcessed,
           tagLen |-> d.tagLen, counterVal |-> d.counterVal, iv |-> d.iv, s0 |-> d.s0,
           si |-> d.si, blk |-> d.blk, mac |-> d.mac, aesni |-> d.aesni]
  BY <1>1, <1>2, Zenon
<1>4. Context(d)
  BY <1>1, <1>3, Zenon DEF Context
<1> QED BY <1>4 DEF d

\* What a call leaves is a context again.
LEMMA ProcessKeepsContext ==
  ASSUME NEW c, Context(c), NEW decrypt \in BOOLEAN, NEW src \in Seq(Byte),
         flag(c) # 0 => flag(c) + Len(src) <= MBS
  PROVE  LET p == Process(c, decrypt, src)
         IN  /\ Context(p.ctx)
             /\ p.plain \in Seq(Byte) /\ Len(p.plain) = Len(src)
<1> USE Size
<1> DEFINE len == Len(src)
<1>1. /\ len \in Nat /\ c.lenProcessed \in Nat /\ c.counterVal \in Nat /\ c.si \in Block
      /\ c.blk \in Block /\ MacValue(c.mac)
  BY DEF Context
<1>2. CASE flag(c) # 0
  <2> DEFINE plain == PendingPlain(c, decrypt, src)
             blk == PendingBlk(c, decrypt, src)
             mac == IF flag(c) + len = MBS THEN CbcMac(c.mac, <<blk>>) ELSE c.mac
  <2>1. plain \in Seq(Byte) /\ Len(plain) = len /\ blk \in Block
    BY <1>2, PendingTypes
  <2>2. Process(c, decrypt, src) =
          [dst |-> PendingOut(c, src), plain |-> plain,
           ctx |-> After(c, c.lenProcessed + len, c.counterVal, c.si, blk, mac)]
    BY <1>2, ProcessPending, Zenon
  <2> HIDE DEF len, plain, blk
  <2>3. MacValue(mac)
    <3>1. <<blk>> \in Seq(Block)
      BY <2>1
    <3>2. MacValue(CbcMac(c.mac, <<blk>>))
      BY <1>1, <3>1, MacStaysValue
    <3> QED BY <1>1, <3>2
  <2> HIDE DEF mac
  <2> DEFINE n == c.lenProcessed + len
  <2>4. n \in Nat
    BY <1>1
  <2> HIDE DEF n
  <2>5. Context(After(c, n, c.counterVal, c.si, blk, mac))
    BY <1>1, <2>1, <2>3, <2>4, AfterContext
  <2> QED BY <2>1, <2>2, <2>5 DEF n, len
<1>3. CASE flag(c) = 0
  <2> DEFINE rest == len % MBS
             plain == BlocksPlain(c, decrypt, src)
             n == c.lenProcessed + rest + (IF c.aesni THEN 0 ELSE (len \div MBS) * MBS)
             ctr == c.counterVal + Ceiling(len)
             si == IF Ceiling(len) > 0 THEN Stream(c, Ceiling(len)) ELSE c.si
             tail == SubSeq(plain, len - rest + 1, len)
             blk == CopyBlock(tail, c.blk, 0)
             whole == SubSeq(plain, 1, len - rest)
             mac == CbcMac(c.mac, ZeroPadded(whole, MBS))
  <2>1. plain \in Seq(Byte) /\ Len(plain) = len
    BY BlocksTypes
  <2>2. Process(c, decrypt, src) =
          [dst |-> BlocksOut(c, src), plain |-> plain, ctx |-> After(c, n, ctr, si, blk, mac)]
    BY <1>3, ProcessBlocks, ZenonT(60)
  <2> HIDE DEF plain, len
  <2>3. /\ rest \in 0..(MBS - 1) /\ len \div MBS \in Nat /\ len - rest \in 0..len
        /\ Ceiling(len) \in Nat
    <3>1. Ceiling(len) \in Nat
      BY <1>1, CeilingOfSum, 0 \in Nat
    <3> QED BY <1>1, <3>1, CallCut
  <2>4. n \in Nat /\ ctr \in Nat
    <3>1. (len \div MBS) * MBS \in Nat
      BY <2>3, SMT
    <3> DEFINE w == IF c.aesni THEN 0 ELSE (len \div MBS) * MBS
    <3>2. w \in Nat
      BY <3>1, 0 \in Nat, Zenon
    <3> HIDE DEF rest, w
    <3>3. c.lenProcessed + rest + w \in Nat
      BY <1>1, <2>3, <3>2
    <3>4. n \in Nat
      BY <3>3, Zenon DEF w
    <3>5. ctr \in Nat
      BY <1>1, <2>3, SMTT(60)
    <3> QED BY <3>4, <3>5
  <2>5. si \in Block
    BY <1>1, <2>3, StreamBlock
  <2> HIDE DEF rest, n, ctr, si
  <2>6. blk \in Block
    <3>1. len - rest \in Nat /\ len - rest <= len /\ len <= Len(plain) /\ len \in Nat
      BY <1>1, <2>1, <2>3
    <3>2. SubSeq(plain, (len - rest) + 1, len) \in Seq(Byte)
          /\ Len(SubSeq(plain, (len - rest) + 1, len)) = len - (len - rest)
      BY <2>1, <3>1, Part
    <3>3. tail \in Seq(Byte) /\ 0 + Len(tail) <= MBS /\ 0 \in Nat
      BY <1>1, <2>3, <3>2
    <3> HIDE DEF tail
    <3> QED BY <1>1, <3>3, Copied
  <2>7. MacValue(mac)
    <3>1. 0 \in Nat /\ len - rest \in Nat /\ 0 <= len - rest /\ len - rest <= Len(plain) /\ 0 + 1 = 1
      BY <1>1, <2>1, <2>3
    <3>2. SubSeq(plain, 0 + 1, len - rest) \in Seq(Byte)
      BY <2>1, <3>1, Part
    <3>3. whole \in Seq(Byte)
      BY <3>1, <3>2
    <3> HIDE DEF whole
    <3>4. ZeroPadded(whole, MBS) \in Seq(Block)
      BY <3>3, PaddedBlocks
    <3> QED BY <1>1, <3>4, MacStaysValue
  <2> HIDE DEF blk, mac
  <2>8. Context(After(c, n, ctr, si, blk, mac))
    BY <2>4, <2>5, <2>6, <2>7, AfterContext
  <2> QED BY <2>1, <2>2, <2>8 DEF len
<1> QED BY <1>2, <1>3

\* A text is its whole blocks and the rest.
LEMMA Decomposed ==
  ASSUME NEW text \in Seq(Byte)
  PROVE  LET n    == Len(text)
             f    == n % MBS
             rest == SubSeq(text, n - f + 1, n)
         IN  /\ n \in Nat /\ f \in 0..(MBS - 1) /\ n - f \in Nat
             /\ n - f = MBS * (n \div MBS) /\ n \div MBS \in Nat
             /\ Whole(text) \in Seq(Byte) /\ Len(Whole(text)) = n - f
             /\ rest \in Seq(Byte) /\ Len(rest) = f
             /\ \A i \in 1..f : rest[i] = text[(n - f) + i]
             /\ text = Whole(text) \o rest
<1> DEFINE n == Len(text)
           f == n % MBS
           a == n - f
           w == SubSeq(text, 1, a)
           rest == SubSeq(text, a + 1, n)
<1>1. n \in Nat
  OBVIOUS
<1>2. f \in 0..(MBS - 1) /\ a \in 0..n /\ a = MBS * (n \div MBS) /\ n \div MBS \in Nat
  BY <1>1, CallCut
<1> HIDE DEF f
<1>3. a \in Nat /\ n - a = f /\ a <= n /\ 0 \in Nat /\ 0 <= a /\ 0 + 1 = 1 /\ n <= n /\ a - 0 = a
      /\ f \in Nat /\ a + f = n
  BY <1>1, <1>2, Size
<1> HIDE DEF a, n
<1>4. w \in Seq(Byte) /\ Len(w) = a /\ \A i \in 1..a : w[i] = text[0 + i]
  <2>1. /\ SubSeq(text, 0 + 1, a) \in Seq(Byte) /\ Len(SubSeq(text, 0 + 1, a)) = a - 0
        /\ \A i \in 1..(a - 0) : SubSeq(text, 0 + 1, a)[i] = text[0 + i]
    BY <1>1, <1>3, Part DEF n
  <2> QED BY <1>3, <2>1
<1>5. rest \in Seq(Byte) /\ Len(rest) = f /\ \A i \in 1..f : rest[i] = text[a + i]
  <2>1. /\ rest \in Seq(Byte) /\ Len(rest) = n - a
        /\ \A i \in 1..(n - a) : rest[i] = text[a + i]
    BY <1>1, <1>3, Part DEF n
  <2> QED BY <1>3, <2>1
<1> HIDE DEF w, rest
<1>6. text = w \o rest
  <2> DEFINE r == w \o rest
  <2>1. /\ r \in Seq(Byte) /\ Len(r) = a + f
        /\ \A i \in 1..a : r[i] = w[i]
        /\ \A i \in 1..f : r[a + i] = rest[i]
    <3>1. w \in Seq(Byte) /\ rest \in Seq(Byte) /\ Len(w) = a /\ Len(rest) = f
      BY <1>4, <1>5
    <3>2. r \in Seq(Byte) /\ Len(r) = Len(w) + Len(rest)
      BY <3>1, Joined
    <3>3. \A i \in 1..Len(w) : r[i] = w[i]
      BY <3>1, Joined
    <3>4. \A i \in 1..Len(rest) : r[Len(w) + i] = rest[i]
      BY <3>1, Joined
    <3> HIDE DEF r
    <3> QED BY <3>1, <3>2, <3>3, <3>4, Zenon
  <2> HIDE DEF r
  <2>2. ASSUME NEW i \in 1..n
        PROVE  text[i] = r[i]
    <3>1. CASE i <= a
      <4>1. i \in 1..a /\ 0 + i = i
        BY <1>3, <3>1
      <4> QED BY <1>4, <2>1, <4>1
    <3>2. CASE i > a
      <4> DEFINE j == i - a
      <4>1. j \in 1..f /\ a + j = i
        BY <1>1, <1>3, <3>2
      <4> HIDE DEF j
      <4> QED BY <1>5, <2>1, <4>1
    <3> QED BY <1>1, <1>3, <3>1, <3>2
  <2>3. text = r
    BY <1>3, <2>1, <2>2, SequencesEqual DEF n
  <2> QED BY <2>3 DEF r
<1>7. Whole(text) = w
  BY DEF Whole, w, a, f, n
<1>8. SubSeq(text, n - f + 1, n) = rest
  <2>1. n - f = a
    BY DEF a
  <2> QED BY <2>1 DEF rest
<1> QED BY <1>1, <1>2, <1>3, <1>4, <1>5, <1>6, <1>7, <1>8 DEF n, f, a

\* Whole blocks followed by less than a block.
LEMMA WholeOfParts ==
  ASSUME NEW s \in Seq(Byte), NEW t \in Seq(Byte), NEW q \in Nat,
         Len(s) = MBS * q, Len(t) \in 0..(MBS - 1)
  PROVE  /\ s \o t \in Seq(Byte) /\ Len(s \o t) = Len(s) + Len(t)
         /\ Len(s \o t) % MBS = Len(t) /\ Whole(s \o t) = s
<1> USE Size
<1> DEFINE st == s \o t
           a == Len(s)
           b == Len(t)
<1>1. /\ a \in Nat /\ b \in Nat /\ st \in Seq(Byte) /\ Len(st) = a + b
      /\ \A i \in 1..a : st[i] = s[i]
  BY SMT
<1>2. (MBS * q + b) % MBS = b
  BY DivModOfSplit
<1> HIDE DEF st, b
<1>3. Len(st) % MBS = b
  BY <1>1, <1>2
<1>4. Whole(st) = s
  <2> DEFINE w == SubSeq(st, 1, a)
  <2>1. Len(st) - b = a
    BY <1>1
  <2>2. Whole(st) = w
    BY <1>3, <2>1, Zenon DEF Whole
  <2> HIDE DEF a
  <2>3. 0 \in Nat /\ a \in Nat /\ 0 <= a /\ a <= Len(st) /\ 0 + 1 = 1 /\ a - 0 = a
    BY <1>1
  <2>4. /\ SubSeq(st, 0 + 1, a) \in Seq(Byte) /\ Len(SubSeq(st, 0 + 1, a)) = a - 0
        /\ \A i \in 1..(a - 0) : SubSeq(st, 0 + 1, a)[i] = st[0 + i]
    BY <1>1, <2>3, Part
  <2>5. w \in Seq(Byte) /\ Len(w) = a /\ \A i \in 1..a : w[i] = s[i]
    <3>1. \A i \in 1..a : 0 + i = i
      BY <2>3
    <3> QED BY <1>1, <2>3, <2>4, <3>1
  <2> HIDE DEF w
  <2>6. w = s
    BY <2>5, SequencesEqual DEF a
  <2> QED BY <2>2, <2>6
<1> QED BY <1>1, <1>3, <1>4 DEF st, b, a

\* The MAC goes on with whole blocks.
LEMMA MacGoesOn ==
  ASSUME NEW start, NEW s \in Seq(Byte), NEW t \in Seq(Byte), NEW q \in Nat, Len(s) = MBS * q
  PROVE  CbcMac(start, ZeroPadded(s \o t, MBS))
           = CbcMac(CbcMac(start, ZeroPadded(s, MBS)), ZeroPadded(t, MBS))
<1> DEFINE zs == ZeroPadded(s, MBS)
           zt == ZeroPadded(t, MBS)
<1>1. ZeroPadded(s \o t, MBS) = zs \o zt
  BY PaddedParts
<1>2. zs \in Seq(Block) /\ zt \in Seq(Block)
  BY PaddedBlocks
<1> HIDE DEF zs, zt
<1>3. CbcMac(start, zs \o zt) = CbcMac(CbcMac(start, zs), zt)
  BY <1>2, MacOfParts
<1> QED BY <1>1, <1>3, Zenon DEF zs, zt

\* A call that fits the pending block continues the message.
LEMMA PendingExtends ==
  ASSUME NEW c, Context(c), NEW start, NEW text \in Seq(Byte), InMessage(c, start, text),
         NEW plain \in Seq(Byte), flag(c) # 0, flag(c) + Len(plain) <= MBS
  PROVE  LET blk == CopyBlock(plain, c.blk, flag(c))
             mac == IF flag(c) + Len(plain) = MBS THEN CbcMac(c.mac, <<blk>>) ELSE c.mac
         IN  InMessage(After(c, c.lenProcessed + Len(plain), c.counterVal, c.si, blk, mac),
                       start, text \o plain)
<1> USE Size
<1> DEFINE n    == Len(text)
           len  == Len(plain)
           f    == flag(c)
           q    == n \div MBS
           a    == n - f
           w    == Whole(text)
           rest == SubSeq(text, a + 1, n)
           new  == text \o plain
           tail == rest \o plain
           blk  == CopyBlock(plain, c.blk, f)
           mac  == IF f + len = MBS THEN CbcMac(c.mac, <<blk>>) ELSE c.mac
           d    == After(c, c.lenProcessed + len, c.counterVal, c.si, blk, mac)
<1>1. f = n % MBS
  BY DEF InMessage
<1>2. /\ n \in Nat /\ f \in 1..(MBS - 1) /\ f \in 1..MBS /\ q \in Nat /\ a \in Nat
      /\ a + f = n /\ len \in Nat /\ f + len \in 1..MBS /\ f \in Nat
  <2>1. n \in Nat /\ f \in 0..(MBS - 1) /\ a \in Nat /\ q \in Nat
    BY <1>1, Decomposed
  <2>2. len \in Nat /\ f # 0 /\ f + len <= MBS
    OBVIOUS
  <2> HIDE DEF f, n, len, q
  <2> QED BY <2>1, <2>2 DEF a
<1>3. a = MBS * q
  BY <1>1, Decomposed
<1>4. /\ w \in Seq(Byte) /\ Len(w) = a
      /\ rest \in Seq(Byte) /\ Len(rest) = f
      /\ \A i \in 1..f : rest[i] = text[a + i]
      /\ text = w \o rest
  BY <1>1, Decomposed
<1>5. /\ c.counterVal = Ceiling(n) /\ c.si = Cipher(Ctr(c.iv, c.counterVal))
      /\ c.mac = CbcMac(start, ZeroPadded(w, MBS))
      /\ (~c.aesni => c.lenProcessed = n)
      /\ \A i \in 1..f : c.blk[i] = text[a + i]
  BY DEF InMessage
<1>6. c.lenProcessed \in Nat /\ c.blk \in Block
  BY DEF Context
<1>7. /\ d.counterVal = c.counterVal /\ d.iv = c.iv /\ d.si = c.si /\ d.blk = blk /\ d.mac = mac
      /\ d.aesni = c.aesni /\ d.lenProcessed = c.lenProcessed + len
  BY AfterFields
<1>8. flag(d) = (f + len) % MBS
  <2>1. ((c.lenProcessed % MBS) + len) % MBS = (c.lenProcessed + len) % MBS
    BY <1>2, <1>6, ModOfSum
  <2> HIDE DEF len, d
  <2> QED BY <1>7, <2>1, Zenon DEF flag
<1> HIDE DEF a, f, q, d
<1>9. /\ blk \in Block
      /\ \A j \in 1..f : blk[j] = c.blk[j]
      /\ \A j \in 1..len : blk[f + j] = plain[j]
  BY <1>2, <1>6, Copied
<1> HIDE DEF blk, w, rest
<1>10. /\ tail \in Seq(Byte) /\ Len(tail) = f + len
       /\ (\A i \in 1..f : tail[i] = rest[i]) /\ \A i \in 1..len : tail[f + i] = plain[i]
  <2>1. tail \in Seq(Byte) /\ Len(tail) = f + len
    <3>1. rest \in Seq(Byte) /\ plain \in Seq(Byte)
      BY <1>4
    <3>2. tail \in Seq(Byte) /\ Len(tail) = Len(rest) + Len(plain)
      BY ONLY <3>1, Joined
    <3> HIDE DEF tail
    <3> QED BY <1>4, <3>2, Zenon
  <2>2. \A i \in 1..f : tail[i] = rest[i]
    BY <1>4, Joined
  <2>3. \A i \in 1..len : tail[f + i] = plain[i]
    BY <1>4, Joined
  <2> QED BY <2>1, <2>2, <2>3
<1>11. new \in Seq(Byte) /\ Len(new) = n + len /\ new = w \o tail
  <2>1. new \in Seq(Byte) /\ Len(new) = n + len
    BY Joined
  <2>2. (w \o rest) \o plain = w \o (rest \o plain)
    BY <1>4, SMTT(60)
  <2>3. new = w \o tail
    BY <1>4, <2>2, Zenon
  <2> QED BY <2>1, <2>3
<1> HIDE DEF n, len, tail, new
<1>12. Len(new) = a + (f + len)
  BY <1>2, <1>11
<1>13. \A i \in 1..(f + len) : blk[i] = tail[i]
  <2>1. ASSUME NEW i \in 1..(f + len)
        PROVE  blk[i] = tail[i]
    <3>1. CASE i <= f
      <4>1. i \in 1..f
        BY <1>2, <3>1
      <4>2. blk[i] = c.blk[i] /\ c.blk[i] = text[a + i]
        BY <1>5, <1>9, <4>1
      <4>3. tail[i] = rest[i] /\ rest[i] = text[a + i]
        BY <1>4, <1>10, <4>1
      <4> QED BY <4>2, <4>3
    <3>2. CASE i > f
      <4> DEFINE j == i - f
      <4>1. j \in 1..len /\ f + j = i
        BY <1>2, <3>2
      <4> HIDE DEF j
      <4> QED BY <1>9, <1>10, <4>1, Zenon
    <3> QED BY <1>2, <3>1, <3>2
  <2> QED BY <2>1
<1>14. c.counterVal = Ceiling(Len(new))
  <2>1. Ceiling(MBS * q + f) = q + 1
    BY <1>2, CeilingOfBegun
  <2> DEFINE g == f + len
  <2>2. g \in 1..MBS
    BY <1>2
  <2> HIDE DEF g
  <2>3. Ceiling(MBS * q + g) = q + 1
    BY <1>2, <2>2, CeilingOfBegun
  <2> QED BY <1>2, <1>3, <1>5, <1>12, <2>1, <2>3, Zenon DEF g
<1>15. ~d.aesni => d.lenProcessed = Len(new)
  BY <1>5, <1>7, <1>11
<1>16. CASE f + len < MBS
  <2>1. Len(new) % MBS = f + len /\ Whole(new) = w
    <3>1. Len(tail) \in 0..(MBS - 1)
      BY <1>2, <1>10, <1>16
    <3>2. Len(w) = MBS * q
      BY <1>3, <1>4
    <3>3. Len(w \o tail) % MBS = Len(tail) /\ Whole(w \o tail) = w
      BY <1>2, <1>4, <1>10, <3>1, <3>2, WholeOfParts, ZenonT(60)
    <3> QED BY <1>10, <1>11, <3>3, Zenon
  <2>2. flag(d) = f + len
    <3> DEFINE g == f + len
    <3>1. g \in 0..(MBS - 1)
      BY <1>2, <1>16
    <3> HIDE DEF g
    <3>2. g % MBS = g
      BY <3>1, ModOfSmall
    <3> QED BY <1>8, <3>2 DEF g
  <2>3. mac = c.mac
    BY <1>2, <1>16
  <2>4. \A i \in 1..(f + len) : blk[i] = new[(Len(new) - (f + len)) + i]
    <3>1. Len(new) - (f + len) = Len(w)
      BY <1>2, <1>4, <1>12
    <3>2. \A i \in 1..Len(tail) : (w \o tail)[Len(w) + i] = tail[i]
      BY <1>4, <1>10, Joined, SMTT(60)
    <3> QED BY <1>10, <1>11, <1>13, <3>1, <3>2, Zenon
  <2> HIDE DEF mac
  <2>5. InMessage(d, start, new)
    BY <1>5, <1>7, <1>14, <1>15, <2>1, <2>2, <2>3, <2>4, Zenon DEF InMessage
  <2> QED BY <2>5 DEF d, new, f, len, blk, mac
<1>17. CASE f + len = MBS
  <2>1. Len(new) % MBS = 0 /\ MBS % MBS = 0
    <3> DEFINE r == 0
               p == q + 1
               one == 1
    <3>1. r \in 0..(MBS - 1) /\ p \in Nat /\ r = 0 /\ one \in Nat
      BY <1>2
    <3>2. Len(new) = MBS * p + r /\ MBS = MBS * one + r
      BY <1>2, <1>3, <1>12, <1>17, SMT
    <3> HIDE DEF r, p, one
    <3>3. (MBS * p + r) % MBS = r /\ (MBS * one + r) % MBS = r
      BY <3>1, DivModOfSplit
    <3> QED BY <3>1, <3>2, <3>3, Zenon
  <2>2. flag(d) = 0
    BY <1>8, <1>17, <2>1, Zenon
  <2>3. Whole(new) = new
    <3>1. Len(new) - 0 = Len(new)
      BY <1>2, <1>11
    <3> QED BY <1>11, <2>1, <3>1, WholePart, Zenon DEF Whole
  <2>4. ZeroPadded(tail, MBS) = <<blk>>
    <3> DEFINE b == CopyBlock(tail, ZeroBlock(MBS), 0)
    <3>1. Len(tail) = MBS /\ Len(tail) \in 1..MBS /\ 0 + Len(tail) <= MBS /\ 0 \in Nat
      BY <1>10, <1>17
    <3>2. ZeroPadded(tail, MBS) = <<b>>
      BY <1>10, <3>1, PaddedOne
    <3>3. b \in Block /\ \A j \in 1..Len(tail) : b[0 + j] = tail[j]
      BY <1>10, <3>1, ZeroIsBlock, Copied
    <3> HIDE DEF b
    <3>4. \A j \in 1..MBS : b[j] = blk[j]
      <4>1. \A j \in 1..MBS : 0 + j = j
        OBVIOUS
      <4> QED BY <1>13, <1>17, <3>1, <3>3, <4>1, Zenon
    <3>5. b = blk
      BY <1>9, <3>3, <3>4, BlocksEqual
    <3> QED BY <3>2, <3>5
  <2>5. mac = CbcMac(start, ZeroPadded(new, MBS))
    <3>1. Len(w) = MBS * q
      BY <1>3, <1>4
    <3>2. CbcMac(start, ZeroPadded(w \o tail, MBS))
            = CbcMac(CbcMac(start, ZeroPadded(w, MBS)), ZeroPadded(tail, MBS))
      BY ONLY <1>2, <1>4, <1>10, <3>1, MacGoesOn
    <3>3. mac = CbcMac(c.mac, <<blk>>)
      BY <1>17
    <3> QED BY <1>5, <1>11, <2>4, <3>2, <3>3, Zenon
  <2>6. \A i \in 1..flag(d) : FALSE
    BY <2>2
  <2> HIDE DEF mac
  <2>7. InMessage(d, start, new)
    BY <1>5, <1>7, <1>14, <1>15, <2>1, <2>2, <2>3, <2>5, <2>6, Zenon DEF InMessage
  <2> QED BY <2>7 DEF d, new, f, len, blk, mac
<1>18. f + len < MBS \/ f + len = MBS
  BY <1>2
<1> QED BY <1>16, <1>17, <1>18

\* A call that begins with a block of its own continues the message.
LEMMA BlocksExtends ==
  ASSUME NEW c, Context(c), NEW start, NEW text \in Seq(Byte), InMessage(c, start, text),
         NEW plain \in Seq(Byte), flag(c) = 0
  PROVE  LET len  == Len(plain)
             rest == len % MBS
             l    == c.lenProcessed + rest + (IF c.aesni THEN 0 ELSE (len \div MBS) * MBS)
             ctr  == c.counterVal + Ceiling(len)
             si   == IF Ceiling(len) > 0 THEN Stream(c, Ceiling(len)) ELSE c.si
             blk  == CopyBlock(SubSeq(plain, len - rest + 1, len), c.blk, 0)
             mac  == CbcMac(c.mac, ZeroPadded(SubSeq(plain, 1, len - rest), MBS))
         IN  InMessage(After(c, l, ctr, si, blk, mac), start, text \o plain)
<1> USE Size
<1> DEFINE n    == Len(text)
           q    == n \div MBS
           len  == Len(plain)
           k    == len \div MBS
           r    == len % MBS
           x    == Whole(plain)
           y    == SubSeq(plain, len - r + 1, len)
           s    == text \o x
           new  == text \o plain
           m    == IF c.aesni THEN 0 ELSE k * MBS
           l    == c.lenProcessed + r + m
           ctr  == c.counterVal + Ceiling(len)
           si   == IF Ceiling(len) > 0 THEN Stream(c, Ceiling(len)) ELSE c.si
           blk  == CopyBlock(y, c.blk, 0)
           mac  == CbcMac(c.mac, ZeroPadded(x, MBS))
           d    == After(c, l, ctr, si, blk, mac)
<1>1. n % MBS = 0
  BY DEF InMessage
<1>2. n \in Nat /\ q \in Nat /\ n = MBS * q /\ Whole(text) = text
  <2>1. n \in Nat /\ n = MBS * q + 0 /\ q \in Nat
    BY <1>1, DivMod
  <2>2. n - 0 = n
    BY <2>1
  <2> HIDE DEF n, q
  <2>3. Whole(text) = text
    BY <1>1, <2>2, WholePart, Zenon DEF Whole, n
  <2>4. n = MBS * q
    BY <2>1, SMT
  <2> QED BY <2>1, <2>3, <2>4
<1>3. /\ len \in Nat /\ r \in 0..(MBS - 1) /\ k \in Nat /\ len - r \in Nat
      /\ len - r = MBS * k
      /\ x \in Seq(Byte) /\ Len(x) = len - r
      /\ y \in Seq(Byte) /\ Len(y) = r
      /\ plain = x \o y
  BY Decomposed
<1>4. /\ c.counterVal = Ceiling(n) /\ c.mac = CbcMac(start, ZeroPadded(text, MBS))
      /\ (~c.aesni => c.lenProcessed = n)
  BY <1>2 DEF InMessage
<1>5. c.lenProcessed \in Nat /\ c.blk \in Block
  BY DEF Context
<1>6. c.lenProcessed % MBS = 0
  BY DEF flag
<1>7. /\ d.counterVal = ctr /\ d.iv = c.iv /\ d.si = si /\ d.blk = blk /\ d.mac = mac
      /\ d.aesni = c.aesni /\ d.lenProcessed = l
  BY AfterFields
<1> HIDE DEF d
<1>8. blk \in Block /\ \A j \in 1..r : blk[j] = y[j]
  <2>1. 0 \in Nat /\ 0 + Len(y) <= MBS
    BY <1>3
  <2> HIDE DEF y
  <2>2. blk \in Block /\ \A j \in 1..Len(y) : blk[0 + j] = y[j]
    BY <1>3, <1>5, <2>1, Copied, SMTT(60)
  <2>3. \A j \in 1..r : 0 + j = j
    BY <1>3
  <2> HIDE DEF blk
  <2> QED BY <1>3, <2>2, <2>3
<1> HIDE DEF q, k, r, x, y, n, len, blk
<1>9. Ceiling(len) = k + (IF r > 0 THEN 1 ELSE 0) /\ Ceiling(len) \in Nat
  <2>1. Ceiling(len) = k + (IF r > 0 THEN 1 ELSE 0)
    BY <1>3, CallCut DEF k, r
  <2> QED BY <1>3, <2>1
<1>10. s \in Seq(Byte) /\ Len(s) = MBS * (q + k) /\ q + k \in Nat
  <2>1. s \in Seq(Byte) /\ Len(s) = n + Len(x)
    <3>1. text \in Seq(Byte) /\ x \in Seq(Byte)
      BY <1>3
    <3> QED BY ONLY <3>1, Joined DEF n, s
  <2>2. MBS * q + MBS * k = MBS * (q + k)
    BY <1>2, <1>3, SMT
  <2>3. Len(s) = MBS * q + MBS * k
    BY <1>2, <1>3, <2>1, Zenon
  <2> QED BY <1>2, <1>3, <2>1, <2>2, <2>3
<1>11. new = s \o y
  <2>1. text \o (x \o y) = (text \o x) \o y
    <3>1. text \in Seq(Byte) /\ x \in Seq(Byte) /\ y \in Seq(Byte)
      BY <1>3
    <3> QED BY ONLY <3>1, SMT
  <2> QED BY <1>3, <2>1, Zenon
<1> HIDE DEF s
<1>12. /\ s \o y \in Seq(Byte) /\ Len(s \o y) = Len(s) + Len(y)
       /\ Len(s \o y) % MBS = Len(y) /\ Whole(s \o y) = s
       /\ \A i \in 1..Len(y) : (s \o y)[Len(s) + i] = y[i]
  <2>1. Len(y) \in 0..(MBS - 1)
    BY <1>3
  <2>2. /\ s \o y \in Seq(Byte) /\ Len(s \o y) = Len(s) + Len(y)
        /\ Len(s \o y) % MBS = Len(y) /\ Whole(s \o y) = s
    BY ONLY <1>3, <1>10, <2>1, WholeOfParts
  <2>3. \A i \in 1..Len(y) : (s \o y)[Len(s) + i] = y[i]
    <3>1. s \in Seq(Byte) /\ y \in Seq(Byte)
      BY <1>3, <1>10
    <3> QED BY ONLY <3>1, Joined
  <2> QED BY <2>2, <2>3
<1>13. Len(new) = n + len
  BY Joined DEF n, len
<1> HIDE DEF new
<1>14. flag(d) = r
  <2> DEFINE p == c.lenProcessed \div MBS
             h == IF c.aesni THEN 0 ELSE k
  <2>1. p \in Nat /\ c.lenProcessed = MBS * p + 0 /\ h \in Nat
    BY <1>3, <1>5, <1>6, DivMod
  <2> HIDE DEF p
  <2>2. m = MBS * h
    BY <1>3, SMT
  <2> HIDE DEF h, m
  <2>3. l = MBS * (p + h) + r /\ p + h \in Nat
    BY <1>3, <2>1, <2>2, SMT
  <2> HIDE DEF l
  <2>4. (MBS * (p + h) + r) % MBS = r
    BY <1>3, <2>3, DivModOfSplit
  <2> QED BY <1>7, <2>3, <2>4, Zenon DEF flag
<1>15. ~d.aesni => d.lenProcessed = Len(new)
  <2>1. ASSUME ~c.aesni PROVE l = n + len
    <3>1. m = MBS * k
      BY <1>3, <2>1, SMT
    <3>2. m = len - r /\ c.lenProcessed = n
      BY <1>3, <1>4, <2>1, <3>1, Zenon
    <3> HIDE DEF m
    <3> QED BY <1>2, <1>3, <3>2
  <2> HIDE DEF l
  <2> QED BY <1>7, <1>13, <2>1
<1> HIDE DEF l
<1>16. d.counterVal = Ceiling(Len(new))
  <2>1. Ceiling(MBS * q + len) = q + Ceiling(len)
    BY <1>2, <1>3, CeilingOfSum
  <2>2. Ceiling(n) = q
    <3> DEFINE z == 0
    <3>1. z \in 0..(MBS - 1) /\ MBS * q + z = n /\ q + (IF z > 0 THEN 1 ELSE 0) = q
      BY <1>2, SMT
    <3> HIDE DEF z
    <3>2. Ceiling(MBS * q + z) = q + (IF z > 0 THEN 1 ELSE 0)
      BY <1>2, <3>1, CeilingOfSplit
    <3> QED BY <3>1, <3>2, Zenon
  <2> QED BY <1>2, <1>4, <1>7, <1>13, <2>1, <2>2, Zenon
<1>17. flag(d) # 0 => d.si = Cipher(Ctr(d.iv, d.counterVal))
  <2>1. ASSUME r # 0 PROVE Ceiling(len) > 0
    BY <1>3, <1>9, <2>1
  <2> QED BY <1>7, <1>14, <2>1, Zenon DEF Stream
<1>18. d.mac = CbcMac(start, ZeroPadded(Whole(new), MBS))
  <2>1. Len(text) = MBS * q
    BY <1>2 DEF n
  <2>2. CbcMac(start, ZeroPadded(text \o x, MBS))
          = CbcMac(CbcMac(start, ZeroPadded(text, MBS)), ZeroPadded(x, MBS))
    BY ONLY text \in Seq(Byte), <1>2, <1>3, <2>1, MacGoesOn
  <2> QED BY <1>4, <1>7, <1>11, <1>12, <2>2, Zenon DEF s
<1>19. \A i \in 1..flag(d) : d.blk[i] = new[(Len(new) - flag(d)) + i]
  <2>1. Len(new) - r = Len(s)
    <3>1. Len(new) = Len(s) + r
      BY <1>3, <1>11, <1>12, Zenon
    <3>2. Len(s) \in Nat /\ r \in Nat
      BY ONLY <1>3, <1>10, Size, Joined
    <3> QED BY ONLY <3>1, <3>2
  <2> QED BY <1>3, <1>7, <1>8, <1>11, <1>12, <1>14, <2>1, ZenonT(60)
<1>20. flag(d) = Len(new) % MBS
  BY <1>3, <1>11, <1>12, <1>14, Zenon
<1>21. InMessage(d, start, new)
  BY <1>15, <1>16, <1>17, <1>18, <1>19, <1>20, Zenon DEF InMessage
<1>22. SubSeq(plain, 1, len - r) = x
  BY DEF x, Whole, r, len
<1> QED BY <1>21, <1>22, Zenon DEF d, new, l, m, y, blk, len, r, k

-----------------------------------------------------------------------------
(* The blocks before the text.                                             *)

\* The header block and the associated data behind their length, as CCM has them.
HeaderBlocks(h, iv) ==
  <<B0(h.adLen, h.hdrTagLen, h.hdrMsgLen, iv)>>
    \o (IF h.adLen = 0 THEN <<>>
        ELSE ZeroPadded(AdLenEnc(h.adLen) \o Data("ad", 0, h.adLen), MBS))

\* The MAC of them.
Header(h, iv) == CbcMac(ZeroBlock(MBS), HeaderBlocks(h, iv))

\* A part that ends before it begins.
LEMMA EmptyPart ==
  ASSUME NEW X, NEW s \in Seq(X), NEW a \in Nat, NEW b \in Nat, b < a
  PROVE  SubSeq(s, a, b) = <<>>
  BY SMT

\* Encrypting the header block is a MAC over it.
LEMMA MacOfHeaderBlock ==
  ASSUME NEW a, NEW t, NEW l, NEW iv
  PROVE  CbcMac(ZeroBlock(MBS), <<B0(a, t, l, iv)>>) = Cipher(B0(a, t, l, iv))
<1> USE Size
<1> DEFINE b == B0(a, t, l, iv)
           z == ZeroBlock(MBS)
<1>1. DOMAIN z = 1..MBS /\ \A j \in 1..MBS : z[j] = {}
  BY ZeroIsBlock DEF Block
<1>2. b = [j \in 1..MBS |-> b[j]] /\ Len(b) = MBS
  <2>1. b = [j \in 1..MBS |-> b[j]]
    BY DEF B0
  <2>2. b \in [1..MBS -> {b[j] : j \in 1..MBS}]
    BY DEF B0
  <2> HIDE DEF b
  <2>3. Len(b) = MBS
    BY <2>2, SMT
  <2> QED BY <2>1, <2>3
<1> HIDE DEF b, z
<1>3. ASSUME NEW j \in 1..MBS
      PROVE  (IF j \in (0 + 1)..(0 + Len(b)) THEN Xor(z[j], b[j - 0]) ELSE z[j]) = b[j]
  <2>1. j \in (0 + 1)..(0 + Len(b)) /\ j - 0 = j
    BY <1>2
  <2>2. Xor({}, b[j]) = b[j]
    BY DEF Xor
  <2> QED BY <1>1, <2>1, <2>2, Zenon
<1>4. XorBlock(b, z, 0) = b
  <2>1. XorBlock(b, z, 0)
          = [j \in 1..MBS |->
               IF j \in (0 + 1)..(0 + Len(b)) THEN Xor(z[j], b[j - 0]) ELSE z[j]]
    BY <1>1, Zenon DEF XorBlock
  <2> QED BY <1>2, <1>3, <2>1, Zenon
<1>5. CbcMac(z, <<b>>) = Cipher(XorBlock(b, z, 0))
  BY MacOfOne
<1> QED BY <1>4, <1>5, Zenon DEF b, z

\* The first block of associated data behind its length, and the blocks of the rest.
LEMMA AdBlocks ==
  ASSUME NEW ad \in Seq(Byte), ad # <<>>
  PROVE  <<CopyBlock(AdLenEnc(Len(ad)) \o ad, ZeroBlock(MBS), 0)>>
           \o ZeroPadded(SubSeq(ad, MBS - AD_HDR + 1, Len(ad)), MBS)
         = ZeroPadded(AdLenEnc(Len(ad)) \o ad, MBS)
<1> USE Size
<1> DEFINE n     == Len(ad)
           h     == AdLenEnc(n)
           x     == h \o ad
           z     == ZeroBlock(MBS)
           first == CopyBlock(x, z, 0)
           room  == MBS - AD_HDR
           rest  == SubSeq(ad, room + 1, n)
<1>1. n \in Nat /\ n > 0 /\ room \in Nat /\ AD_HDR \in Nat /\ room + AD_HDR = MBS
  BY SMT
<1>2. h \in Seq(Byte) /\ Len(h) = AD_HDR
  BY <1>1, LengthBytes
<1> HIDE DEF h
<1>3. /\ x \in Seq(Byte) /\ Len(x) = AD_HDR + n
      /\ \A i \in 1..AD_HDR : x[i] = h[i]
      /\ \A i \in 1..n : x[AD_HDR + i] = ad[i]
  <2>1. x \in Seq(Byte) /\ Len(x) = AD_HDR + n
    BY <1>2, Joined
  <2>2. \A i \in 1..AD_HDR : x[i] = h[i]
    BY <1>2, Joined
  <2>3. \A i \in 1..n : x[AD_HDR + i] = ad[i]
    BY <1>2, Joined
  <2> QED BY <2>1, <2>2, <2>3
<1> HIDE DEF room
<1>4. CASE n <= room
  <2>1. Len(x) \in 1..MBS
    BY <1>1, <1>3, <1>4
  <2>2. ZeroPadded(x, MBS) = <<first>>
    BY <1>3, <2>1, PaddedOne
  <2>3. rest = <<>>
    <3>1. room + 1 \in Nat /\ n < room + 1
      BY <1>1, <1>4
    <3> QED BY <1>1, <3>1, EmptyPart
  <2>4. <<first>> \o <<>> = <<first>>
    <3> HIDE DEF first
    <3>1. <<first>> \in Seq({first})
      BY SMT
    <3> QED BY <3>1, SMT
  <2> HIDE DEF first, x, rest
  <2>5. <<first>> \o ZeroPadded(rest, MBS) = ZeroPadded(x, MBS)
    BY <2>2, <2>3, <2>4, PaddedNone, Zenon
  <2> QED BY <2>5 DEF first, x, rest, room, h
<1>5. CASE n > room
  <2> DEFINE front == SubSeq(ad, 1, room)
             u     == h \o front
             b     == CopyBlock(u, z, 0)
  <2>1. /\ front \in Seq(Byte) /\ Len(front) = room /\ (\A i \in 1..room : front[i] = ad[i])
        /\ rest \in Seq(Byte) /\ ad = front \o rest
    <3>1. 0 \in Nat /\ 0 <= room /\ room <= n /\ n <= n /\ 0 + 1 = 1 /\ room - 0 = room
          /\ \A i \in 1..room : 0 + i = i
      BY <1>1, <1>5
    <3>2. /\ SubSeq(ad, 0 + 1, room) \in Seq(Byte) /\ Len(SubSeq(ad, 0 + 1, room)) = room - 0
          /\ \A i \in 1..(room - 0) : SubSeq(ad, 0 + 1, room)[i] = ad[0 + i]
      BY <1>1, <3>1, Part
    <3>3. front \in Seq(Byte) /\ Len(front) = room /\ \A i \in 1..room : front[i] = ad[i]
      BY <3>1, <3>2
    <3>4. /\ rest \in Seq(Byte) /\ Len(rest) = n - room
          /\ \A i \in 1..(n - room) : rest[i] = ad[room + i]
      BY <1>1, <3>1, Part
    <3> DEFINE r == front \o rest
    <3> HIDE DEF front, rest
    <3>5. r \in Seq(Byte) /\ Len(r) = room + (n - room)
      <4>1. r \in Seq(Byte) /\ Len(r) = Len(front) + Len(rest)
        <5>1. front \in Seq(Byte) /\ rest \in Seq(Byte)
          BY <3>3, <3>4
        <5> QED BY ONLY <5>1, Joined DEF r
      <4> QED BY <3>3, <3>4, <4>1, Zenon
    <3>6. \A i \in 1..room : r[i] = front[i]
      BY <3>3, <3>4, Joined
    <3>7. \A i \in 1..(n - room) : r[room + i] = rest[i]
      BY <3>3, <3>4, Joined
    <3> HIDE DEF r
    <3>8. ASSUME NEW i \in 1..n
          PROVE  ad[i] = r[i]
      <4>1. CASE i <= room
        <5>1. i \in 1..room
          BY <1>1, <4>1
        <5> QED BY <3>3, <3>6, <5>1
      <4>2. CASE i > room
        <5> DEFINE j == i - room
        <5>1. j \in 1..(n - room) /\ room + j = i
          BY <1>1, <4>2
        <5> HIDE DEF j
        <5> QED BY <3>4, <3>7, <5>1
      <4> QED BY <1>1, <4>1, <4>2
    <3>9. ad = r
      <4>1. Len(r) = n
        BY <1>1, <3>5
      <4> QED BY <3>5, <3>8, <4>1, SequencesEqual
    <3> QED BY <3>3, <3>4, <3>9 DEF r
  <2> HIDE DEF front, rest
  <2>2. u \in Seq(Byte) /\ Len(u) = MBS
    <3>1. u \in Seq(Byte) /\ Len(u) = AD_HDR + room
      BY <1>2, <2>1, Joined, ZenonT(60)
    <3> QED BY <1>1, <3>1
  <2>3. \A i \in 1..MBS : u[i] = x[i]
    <3>1. \A i \in 1..AD_HDR : u[i] = h[i]
      BY <1>2, <2>1, Joined
    <3>2. \A i \in 1..room : u[AD_HDR + i] = front[i]
      BY <1>2, <2>1, Joined
    <3> HIDE DEF u, x
    <3>3. ASSUME NEW i \in 1..MBS
          PROVE  u[i] = x[i]
      <4>1. CASE i <= AD_HDR
        <5>1. i \in 1..AD_HDR
          BY <1>1, <4>1
        <5> QED BY <1>3, <3>1, <5>1
      <4>2. CASE i > AD_HDR
        <5> DEFINE j == i - AD_HDR
        <5>1. j \in 1..room /\ AD_HDR + j = i /\ j \in 1..n
          BY <1>1, <1>5, <4>2
        <5> HIDE DEF j
        <5>2. u[AD_HDR + j] = front[j] /\ x[AD_HDR + j] = ad[j] /\ front[j] = ad[j]
          BY <1>3, <2>1, <3>2, <5>1
        <5> QED BY <5>1, <5>2
      <4> QED BY <1>1, <4>1, <4>2
    <3> QED BY <3>3
  <2>4. x = u \o rest
    <3>1. h \in Seq(Byte) /\ front \in Seq(Byte) /\ rest \in Seq(Byte)
      BY <1>2, <2>1
    <3>2. h \o (front \o rest) = (h \o front) \o rest
      BY ONLY <3>1, SMT
    <3> QED BY <2>1, <3>2, Zenon
  <2> HIDE DEF u
  <2>5. ZeroPadded(u, MBS) = <<b>>
    <3>1. Len(u) \in 1..MBS
      BY <2>2
    <3> QED BY <2>2, <3>1, PaddedOne
  <2>6. b = first
    <3>1. DOMAIN z = 1..MBS
      BY ZeroIsBlock DEF Block
    <3> HIDE DEF z
    <3>2. ASSUME NEW j \in 1..MBS
          PROVE  /\ j \in (0 + 1)..(0 + Len(u)) /\ j \in (0 + 1)..(0 + Len(x))
                 /\ u[j - 0] = x[j - 0]
      <4>1. j \in (0 + 1)..(0 + Len(u)) /\ j - 0 = j
        BY <2>2
      <4>2. j \in (0 + 1)..(0 + Len(x))
        <5> HIDE DEF x
        <5> QED BY <1>1, <1>3, <1>5
      <4> QED BY <2>3, <4>1, <4>2
    <3> HIDE DEF x
    <3>3. CopyBlock(u, z, 0) = [j \in 1..MBS |-> u[j - 0]]
      BY <3>1, <3>2, Zenon DEF CopyBlock
    <3>4. CopyBlock(x, z, 0) = [j \in 1..MBS |-> x[j - 0]]
      BY <3>1, <3>2, Zenon DEF CopyBlock
    <3> QED BY <3>2, <3>3, <3>4, Zenon
  <2>7. ZeroPadded(u \o rest, MBS) = ZeroPadded(u, MBS) \o ZeroPadded(rest, MBS)
    <3> DEFINE one == 1
    <3>1. Len(u) = MBS * one /\ one \in Nat
      BY <2>2
    <3> HIDE DEF one
    <3> QED BY <2>1, <2>2, <3>1, PaddedParts
  <2> HIDE DEF x, b, first
  <2>8. <<first>> \o ZeroPadded(rest, MBS) = ZeroPadded(x, MBS)
    BY <2>4, <2>5, <2>6, <2>7, Zenon
  <2> QED BY <2>8 DEF first, x, rest, room, h
<1> QED BY <1>1, <1>4, <1>5

\* Start leaves the MAC of the header.
LEMMA StartsWithHeader ==
  ASSUME NEW h, h.adLen \in Nat, NEW iv
  PROVE  AdMac(Cipher(B0(h.adLen, h.hdrTagLen, h.hdrMsgLen, iv)), Data("ad", 0, h.adLen)) = Header(h, iv)
<1> DEFINE b0 == B0(h.adLen, h.hdrTagLen, h.hdrMsgLen, iv)
           ad == Data("ad", 0, h.adLen)
           z  == ZeroBlock(MBS)
<1>1. ad \in Seq(Byte) /\ Len(ad) = h.adLen
  BY DataBytes, 0 \in Nat
<1>2. CbcMac(z, <<b0>>) = Cipher(b0)
  BY MacOfHeaderBlock
<1> HIDE DEF b0, ad, z
<1>3. CASE h.adLen = 0
  <2>1. ad = <<>>
    BY <1>1, <1>3, SMT
  <2>2. <<b0>> \o <<>> = <<b0>>
    BY <<b0>> \in Seq({b0}), SMT
  <2>3. Header(h, iv) = CbcMac(z, <<b0>> \o <<>>)
    BY <1>3, Zenon DEF Header, HeaderBlocks, b0, z
  <2>4. AdMac(Cipher(b0), ad) = Cipher(b0)
    BY <2>1, Zenon DEF AdMac
  <2> QED BY <1>2, <2>2, <2>3, <2>4, Zenon DEF b0, ad
<1>4. CASE h.adLen # 0
  <2> DEFINE x == AdLenEnc(Len(ad)) \o ad
             zx == ZeroPadded(x, MBS)
             Y == Block \cup {b0}
  <2>1. ad # <<>>
    BY <1>1, <1>4, SMT
  <2>2. <<CopyBlock(AdLenEnc(Len(ad)) \o ad, ZeroBlock(MBS), 0)>>
          \o ZeroPadded(SubSeq(ad, MBS - AD_HDR + 1, Len(ad)), MBS) = zx
    BY <1>1, <2>1, AdBlocks
  <2>3. AdMac(Cipher(b0), ad) = CbcMac(Cipher(b0), zx)
    BY <2>1, <2>2, Zenon DEF AdMac
  <2>4. Header(h, iv) = CbcMac(z, <<b0>> \o zx)
    BY <1>1, <1>4, Zenon DEF Header, HeaderBlocks, b0, z, ad
  <2>5. zx \in Seq(Block)
    <3>1. AdLenEnc(Len(ad)) \in Seq(Byte)
      BY <1>1, LengthBytes
    <3>2. x \in Seq(Byte)
      BY <1>1, <3>1, Joined
    <3> HIDE DEF x
    <3> QED BY <3>2, PaddedBlocks
  <2> HIDE DEF zx
  <2>6. zx \in Seq(Y) /\ <<b0>> \in Seq(Y)
    <3>1. zx \in Seq(Y)
      BY <2>5, SeqMonotonic
    <3>2. b0 \in Y
      OBVIOUS
    <3> HIDE DEF Y
    <3> QED BY <3>1, <3>2
  <2>7. CbcMac(z, <<b0>> \o zx) = CbcMac(CbcMac(z, <<b0>>), zx)
    <3> HIDE DEF Y
    <3> QED BY <2>6, MacOfParts
  <2> QED BY <1>2, <2>3, <2>4, <2>7, Zenon DEF b0, ad
<1> QED BY <1>3, <1>4

-----------------------------------------------------------------------------
(* The invariant.                                                          *)

\* What the caller has done since Start.
History(h) ==
  /\ h = [started |-> h.started, starts |-> h.starts, decrypt |-> h.decrypt, adLen |-> h.adLen,
          hdrMsgLen |-> h.hdrMsgLen, hdrTagLen |-> h.hdrTagLen, text |-> h.text]
  /\ h.started \in BOOLEAN /\ h.starts \in Nat /\ h.decrypt \in BOOLEAN /\ h.adLen \in Nat
  /\ h.text \in Seq(Byte)

\* The context of a started message.
InProgress(c, h) ==
  /\ h.starts # 0 /\ c.s0 = Cipher(Ctr(c.iv, 0))
  /\ InMessage(c, Header(h, c.iv), h.text)

\* The context holds exactly what the calls since Start determine.
IInv ==
  /\ Context(ccmCtx) /\ ccmCtx.counterVal <= MAX_CTR
  /\ History(hist)
  /\ hist.started => InProgress(ccmCtx, hist)

\* A context by its fields.
ContextOf(valid, msgLen, lenProcessed, tagLen, counterVal, iv, s0, si, blk, mac, aesni) ==
  [valid |-> valid, msgLen |-> msgLen, lenProcessed |-> lenProcessed, tagLen |-> tagLen,
   counterVal |-> counterVal, iv |-> iv, s0 |-> s0, si |-> si, blk |-> blk, mac |-> mac,
   aesni |-> aesni]

\* The fields of such a context.
LEMMA ContextFields ==
  ASSUME NEW va, NEW ml, NEW lp, NEW tl, NEW cv, NEW iv, NEW s0, NEW si, NEW bl, NEW ma, NEW ae
  PROVE  LET c == ContextOf(va, ml, lp, tl, cv, iv, s0, si, bl, ma, ae)
         IN  /\ c.valid = va /\ c.msgLen = ml /\ c.lenProcessed = lp /\ c.tagLen = tl
             /\ c.counterVal = cv /\ c.iv = iv /\ c.s0 = s0 /\ c.si = si /\ c.blk = bl
             /\ c.mac = ma /\ c.aesni = ae
BY DEF ContextOf

\* What Init, MessageLen and TagLen set.
Cleared(c, valid, msgLen, tagLen) == [c EXCEPT !.valid = valid, !.msgLen = msgLen, !.tagLen = tagLen]
WithMsgLen(c, msgLen) == [c EXCEPT !.msgLen = msgLen]
WithTagLen(c, tagLen) == [c EXCEPT !.tagLen = tagLen]

\* Setting the fields that Init, MessageLen and TagLen set.
LEMMA LengthsSet ==
  ASSUME NEW c, Context(c), NEW v, NEW m, NEW t
  PROVE  /\ Cleared(c, v, m, t)
              = ContextOf(v, m, c.lenProcessed, t, c.counterVal, c.iv, c.s0, c.si, c.blk, c.mac, c.aesni)
         /\ WithMsgLen(c, m)
              = ContextOf(c.valid, m, c.lenProcessed, c.tagLen, c.counterVal, c.iv, c.s0, c.si, c.blk,
                          c.mac, c.aesni)
         /\ WithTagLen(c, t)
              = ContextOf(c.valid, c.msgLen, c.lenProcessed, t, c.counterVal, c.iv, c.s0, c.si, c.blk,
                          c.mac, c.aesni)
<1> DEFINE c1 == [c EXCEPT !.valid = v]
           c2 == [c1 EXCEPT !.msgLen = m]
           c3 == [c2 EXCEPT !.tagLen = t]
           v1 == c.valid
           m1 == c.msgLen
           t1 == c.tagLen
           lp == c.lenProcessed
           cv == c.counterVal
           iv == c.iv
           s0 == c.s0
           s1 == c.si
           b1 == c.blk
           a1 == c.mac
           n1 == c.aesni
           R(v9, m9, t9) ==
             [valid |-> v9, msgLen |-> m9, lenProcessed |-> lp, tagLen |-> t9, counterVal |-> cv,
              iv |-> iv, s0 |-> s0, si |-> s1, blk |-> b1, mac |-> a1, aesni |-> n1]
<1>1. c = R(v1, m1, t1)
  BY DEF Context
<1>2. Cleared(c, v, m, t) = c3
  BY DEF Cleared
<1>3. \A v9, m9, t9 : ContextOf(v9, m9, lp, t9, cv, iv, s0, s1, b1, a1, n1) = R(v9, m9, t9)
  BY DEF ContextOf
<1> HIDE DEF v1, m1, t1, lp, cv, iv, s0, s1, b1, a1, n1
<1>4. c1 = R(v, m1, t1)
  BY <1>1
<1>5. WithMsgLen(c, m) = R(v1, m, t1)
  BY <1>1 DEF WithMsgLen
<1>6. WithTagLen(c, t) = R(v1, m1, t)
  BY <1>1 DEF WithTagLen
<1> HIDE DEF c1
<1>7. c2 = R(v, m, t1)
  BY <1>4
<1> HIDE DEF c2
<1>8. c3 = R(v, m, t)
  BY <1>7
<1> HIDE DEF c3, R
<1>9. Cleared(c, v, m, t)
        = ContextOf(v, m, lp, t, cv, iv, s0, s1, b1, a1, n1)
  BY <1>2, <1>3, <1>8, Zenon DEF c1, c2, c3
<1>10. WithMsgLen(c, m) = ContextOf(v1, m, lp, t1, cv, iv, s0, s1, b1, a1, n1)
  BY <1>3, <1>5, Zenon
<1>11. WithTagLen(c, t) = ContextOf(v1, m1, lp, t, cv, iv, s0, s1, b1, a1, n1)
  BY <1>3, <1>6, Zenon
<1> QED BY <1>9, <1>10, <1>11, Zenon DEF v1, m1, t1, lp, cv, iv, s0, s1, b1, a1, n1

\* Setting the fields that Start sets.
LEMMA StartSet ==
  ASSUME NEW c, Context(c), NEW iv, NEW s, NEW m
  PROVE  [c EXCEPT !.lenProcessed = 0, !.counterVal = 0, !.iv = iv, !.s0 = s, !.mac = m]
           = ContextOf(c.valid, c.msgLen, 0, c.tagLen, 0, iv, s, c.si, c.blk, m, c.aesni)
<1> DEFINE c1 == [c EXCEPT !.lenProcessed = 0]
           c2 == [c1 EXCEPT !.counterVal = 0]
           c3 == [c2 EXCEPT !.iv = iv]
           c4 == [c3 EXCEPT !.s0 = s]
           c5 == [c4 EXCEPT !.mac = m]
           v1 == c.valid
           m1 == c.msgLen
           t1 == c.tagLen
           lp == c.lenProcessed
           cv == c.counterVal
           i1 == c.iv
           s0 == c.s0
           s1 == c.si
           b1 == c.blk
           a1 == c.mac
           n1 == c.aesni
           R(l9, c9, i9, s9, a9) ==
             [valid |-> v1, msgLen |-> m1, lenProcessed |-> l9, tagLen |-> t1, counterVal |-> c9,
              iv |-> i9, s0 |-> s9, si |-> s1, blk |-> b1, mac |-> a9, aesni |-> n1]
<1>1. c = R(lp, cv, i1, s0, a1)
  BY DEF Context
<1>2. [c EXCEPT !.lenProcessed = 0, !.counterVal = 0, !.iv = iv, !.s0 = s, !.mac = m] = c5
  OBVIOUS
<1>3. ContextOf(c.valid, c.msgLen, 0, c.tagLen, 0, iv, s, c.si, c.blk, m, c.aesni) = R(0, 0, iv, s, m)
  BY DEF ContextOf
<1> HIDE DEF v1, m1, t1, lp, cv, i1, s0, s1, b1, a1, n1
<1>4. c1 = R(0, cv, i1, s0, a1)
  BY <1>1
<1> HIDE DEF c1
<1>5. c2 = R(0, 0, i1, s0, a1)
  BY <1>4
<1> HIDE DEF c2
<1>6. c3 = R(0, 0, iv, s0, a1)
  BY <1>5
<1> HIDE DEF c3
<1>7. c4 = R(0, 0, iv, s, a1)
  BY <1>6
<1> HIDE DEF c4
<1>8. c5 = R(0, 0, iv, s, m)
  BY <1>7
<1> HIDE DEF c5
<1> QED BY <1>2, <1>3, <1>8 DEF c1, c2, c3, c4, c5

\* Fields of the right kinds make a context.
LEMMA ContextMade ==
  ASSUME NEW va \in BOOLEAN, NEW ml \in MsgLens \cup {0}, NEW lp \in Nat,
         NEW tl \in {n \in MIN_TAG..MBS : n % 2 = 0}, NEW cv \in Nat, NEW iv \in Ivs,
         NEW s0, MacValue(s0), NEW si \in Block, NEW bl \in Block, NEW ma, MacValue(ma),
         NEW ae \in BOOLEAN
  PROVE  Context(ContextOf(va, ml, lp, tl, cv, iv, s0, si, bl, ma, ae))
<1> DEFINE c == ContextOf(va, ml, lp, tl, cv, iv, s0, si, bl, ma, ae)
<1>1. /\ c.valid = va /\ c.msgLen = ml /\ c.lenProcessed = lp /\ c.tagLen = tl
      /\ c.counterVal = cv /\ c.iv = iv /\ c.s0 = s0 /\ c.si = si /\ c.blk = bl
      /\ c.mac = ma /\ c.aesni = ae
  BY ContextFields
<1>2. c = [valid |-> va, msgLen |-> ml, lenProcessed |-> lp, tagLen |-> tl, counterVal |-> cv,
           iv |-> iv, s0 |-> s0, si |-> si, blk |-> bl, mac |-> ma, aesni |-> ae]
  BY DEF ContextOf
<1> HIDE DEF c
<1>3. c = [valid |-> c.valid, msgLen |-> c.msgLen, lenProcessed |-> c.lenProcessed,
           tagLen |-> c.tagLen, counterVal |-> c.counterVal, iv |-> c.iv, s0 |-> c.s0,
           si |-> c.si, blk |-> c.blk, mac |-> c.mac, aesni |-> c.aesni]
  BY <1>1, <1>2, Zenon
<1>4. Context(c)
  BY <1>1, <1>3, Zenon DEF Context
<1> QED BY <1>4 DEF c

\* Init, MessageLen and TagLen leave a message in progress as it is.
LEMMA InProgressKept ==
  ASSUME NEW c, NEW d, NEW h, InProgress(c, h),
         d.lenProcessed = c.lenProcessed, d.counterVal = c.counterVal, d.iv = c.iv, d.s0 = c.s0,
         d.si = c.si, d.blk = c.blk, d.mac = c.mac, d.aesni = c.aesni
  PROVE  InProgress(d, h)
BY Zenon DEF InProgress, InMessage, flag

-----------------------------------------------------------------------------
(* Every call keeps the invariant.                                         *)

\* The history by its fields.
HistoryOf(started, starts, decrypt, adLen, hdrMsgLen, hdrTagLen, text) ==
  [started |-> started, starts |-> starts, decrypt |-> decrypt, adLen |-> adLen,
   hdrMsgLen |-> hdrMsgLen, hdrTagLen |-> hdrTagLen, text |-> text]

\* The fields of a history.
LEMMA HistoryFields ==
  ASSUME NEW st, NEW n, NEW de, NEW al, NEW hm, NEW ht, NEW tx
  PROVE  LET h == HistoryOf(st, n, de, al, hm, ht, tx)
         IN  /\ h.started = st /\ h.starts = n /\ h.decrypt = de /\ h.adLen = al
             /\ h.hdrMsgLen = hm /\ h.hdrTagLen = ht /\ h.text = tx
             /\ h = HistoryOf(h.started, h.starts, h.decrypt, h.adLen, h.hdrMsgLen, h.hdrTagLen, h.text)
BY DEF HistoryOf

\* Fields of the right kinds make a history.
LEMMA HistoryMade ==
  ASSUME NEW h, h = HistoryOf(h.started, h.starts, h.decrypt, h.adLen, h.hdrMsgLen, h.hdrTagLen, h.text),
         h.started \in BOOLEAN, h.starts \in Nat, h.decrypt \in BOOLEAN, h.adLen \in Nat,
         h.text \in Seq(Byte)
  PROVE  History(h)
BY Zenon DEF HistoryOf, History

\* What Init and Encrypt set of it.
Reset(h, started, text) == [h EXCEPT !.started = started, !.text = text]
WithText(h, text) == [h EXCEPT !.text = text]

\* The history they leave.
LEMMA HistorySet ==
  ASSUME NEW h, History(h), NEW st, NEW tx
  PROVE  /\ Reset(h, st, tx)
              = HistoryOf(st, h.starts, h.decrypt, h.adLen, h.hdrMsgLen, h.hdrTagLen, tx)
         /\ WithText(h, tx)
              = HistoryOf(h.started, h.starts, h.decrypt, h.adLen, h.hdrMsgLen, h.hdrTagLen, tx)
<1> DEFINE h1 == [h EXCEPT !.started = st]
           h2 == [h1 EXCEPT !.text = tx]
           s0 == h.started
           n0 == h.starts
           d0 == h.decrypt
           a0 == h.adLen
           m0 == h.hdrMsgLen
           t0 == h.hdrTagLen
           x0 == h.text
           R(s9, x9) == [started |-> s9, starts |-> n0, decrypt |-> d0, adLen |-> a0,
                         hdrMsgLen |-> m0, hdrTagLen |-> t0, text |-> x9]
<1>1. h = R(s0, x0)
  BY DEF History
<1>2. Reset(h, st, tx) = h2
  BY DEF Reset
<1>3. \A s9, x9 : HistoryOf(s9, n0, d0, a0, m0, t0, x9) = R(s9, x9)
  BY DEF HistoryOf
<1> HIDE DEF s0, n0, d0, a0, m0, t0, x0
<1>4. h1 = R(st, x0)
  BY <1>1
<1>5. WithText(h, tx) = R(s0, tx)
  BY <1>1 DEF WithText
<1> HIDE DEF h1
<1>6. h2 = R(st, tx)
  BY <1>4
<1> HIDE DEF h2, R
<1>7. Reset(h, st, tx) = HistoryOf(st, n0, d0, a0, m0, t0, tx)
  BY <1>2, <1>3, <1>6, Zenon DEF h1, h2
<1>8. WithText(h, tx) = HistoryOf(s0, n0, d0, a0, m0, t0, tx)
  BY <1>3, <1>5, Zenon
<1> QED BY <1>7, <1>8, Zenon DEF s0, n0, d0, a0, m0, t0

\* The least tag length is one that Start can encode, and no bytes are a text.
LEMMA Defaults ==
  /\ MIN_TAG \in {n \in MIN_TAG..MBS : n % 2 = 0}
  /\ <<>> \in Seq(Byte) /\ 0 \in MsgLens \cup {0} /\ MAX_CTR \in Nat
BY CcmAssumption

\* The caller's memory before the first call.
LEMMA InitHolds == ASSUME CcmInit PROVE IInv
<1>1. PICK aesni \in BOOLEAN, junk \in {0, 1}, iv \in Ivs :
        ccmCtx = ContextOf(FALSE, 0, junk, MIN_TAG, 0, iv, ZeroBlock(MBS), ZeroBlock(MBS),
                        ZeroBlock(MBS), ZeroBlock(MBS), aesni)
  BY DEF CcmInit, ContextOf
<1>2. junk \in Nat /\ 0 \in Nat
  OBVIOUS
<1>3. MacValue(ZeroBlock(MBS)) /\ ZeroBlock(MBS) \in Block
  BY ZeroIsBlock DEF MacValue
<1>4. Context(ccmCtx)
  <2> DEFINE z == ZeroBlock(MBS)
  <2>1. FALSE \in BOOLEAN /\ aesni \in BOOLEAN /\ iv \in Ivs
    OBVIOUS
  <2>2. ccmCtx = ContextOf(FALSE, 0, junk, MIN_TAG, 0, iv, z, z, z, z, aesni)
    BY <1>1
  <2>3. MacValue(z) /\ z \in Block
    BY <1>3
  <2> HIDE DEF z
  <2>4. Context(ContextOf(FALSE, 0, junk, MIN_TAG, 0, iv, z, z, z, z, aesni))
    BY ONLY <1>2, <2>1, <2>3, Defaults, ContextMade
  <2> QED BY <2>2, <2>4, Zenon
<1>5. ccmCtx.counterVal = 0
  <2> DEFINE no == FALSE
             z == ZeroBlock(MBS)
  <2>1. ccmCtx = ContextOf(no, 0, junk, MIN_TAG, 0, iv, z, z, z, z, aesni)
    BY <1>1
  <2> HIDE DEF no, z
  <2> QED BY <2>1, ContextFields
<1>6. hist = HistoryOf(FALSE, 0, FALSE, 0, 0, 0, <<>>)
  BY DEF CcmInit, NoMessage, HistoryOf
<1>7. History(hist) /\ ~hist.started
  <2> DEFINE no == FALSE
  <2>1. no \in BOOLEAN /\ ~no /\ hist = HistoryOf(no, 0, no, 0, 0, 0, <<>>)
    BY <1>6
  <2> HIDE DEF no
  <2>2. /\ hist.started = no /\ hist.starts = 0 /\ hist.decrypt = no /\ hist.adLen = 0 /\ hist.text = <<>>
        /\ hist = HistoryOf(hist.started, hist.starts, hist.decrypt, hist.adLen, hist.hdrMsgLen,
                            hist.hdrTagLen, hist.text)
    BY <2>1, HistoryFields
  <2> QED BY <1>2, <2>1, <2>2, Defaults, HistoryMade, Zenon
<1> QED BY <1>4, <1>5, <1>7, Defaults DEF IInv

\* A new key ends the message.
LEMMA CCMInitHolds == ASSUME IInv, CCMInit PROVE IInv'
<1>1. ccmCtx' = ContextOf(TRUE, 0, ccmCtx.lenProcessed, MIN_TAG, ccmCtx.counterVal, ccmCtx.iv, ccmCtx.s0, ccmCtx.si,
                       ccmCtx.blk, ccmCtx.mac, ccmCtx.aesni)
  <2> DEFINE yes == TRUE
  <2>1. Context(ccmCtx) /\ ccmCtx' = Cleared(ccmCtx, yes, 0, MIN_TAG)
    BY DEF CCMInit, IInv, Cleared
  <2> HIDE DEF yes
  <2>2. ccmCtx' = ContextOf(yes, 0, ccmCtx.lenProcessed, MIN_TAG, ccmCtx.counterVal, ccmCtx.iv, ccmCtx.s0, ccmCtx.si,
                         ccmCtx.blk, ccmCtx.mac, ccmCtx.aesni)
    BY <2>1, LengthsSet
  <2> QED BY <2>2 DEF yes
<1>2. Context(ccmCtx') /\ ccmCtx'.counterVal = ccmCtx.counterVal
  <2>1. Context(ccmCtx)
    BY DEF IInv
  <2>2. /\ TRUE \in BOOLEAN /\ ccmCtx.lenProcessed \in Nat /\ ccmCtx.counterVal \in Nat /\ ccmCtx.iv \in Ivs
        /\ MacValue(ccmCtx.s0) /\ ccmCtx.si \in Block /\ ccmCtx.blk \in Block /\ MacValue(ccmCtx.mac)
        /\ ccmCtx.aesni \in BOOLEAN
    BY <2>1, Zenon DEF Context
  <2>3. Context(ContextOf(TRUE, 0, ccmCtx.lenProcessed, MIN_TAG, ccmCtx.counterVal, ccmCtx.iv, ccmCtx.s0, ccmCtx.si,
                          ccmCtx.blk, ccmCtx.mac, ccmCtx.aesni))
    BY ONLY <2>2, Defaults, ContextMade
  <2> DEFINE yes == TRUE
  <2>4. ccmCtx' = ContextOf(yes, 0, ccmCtx.lenProcessed, MIN_TAG, ccmCtx.counterVal, ccmCtx.iv, ccmCtx.s0, ccmCtx.si,
                         ccmCtx.blk, ccmCtx.mac, ccmCtx.aesni)
    BY <1>1
  <2> HIDE DEF yes
  <2>5. ccmCtx'.counterVal = ccmCtx.counterVal
    BY <2>4, ContextFields
  <2> QED BY <1>1, <2>3, <2>5, Zenon
<1>3. hist' = HistoryOf(FALSE, hist.starts, hist.decrypt, hist.adLen, hist.hdrMsgLen, hist.hdrTagLen, <<>>)
  <2> DEFINE no == FALSE
  <2>1. History(hist) /\ hist' = Reset(hist, no, <<>>)
    BY DEF CCMInit, IInv, Reset
  <2> HIDE DEF no
  <2>2. hist' = HistoryOf(no, hist.starts, hist.decrypt, hist.adLen, hist.hdrMsgLen, hist.hdrTagLen, <<>>)
    BY <2>1, HistorySet
  <2> QED BY <2>2 DEF no
<1>4. History(hist') /\ ~hist'.started
  <2> DEFINE no == FALSE
             h == HistoryOf(no, hist.starts, hist.decrypt, hist.adLen, hist.hdrMsgLen, hist.hdrTagLen, <<>>)
  <2>1. hist.starts \in Nat /\ hist.decrypt \in BOOLEAN /\ hist.adLen \in Nat
    BY Zenon DEF IInv, History
  <2>2. no \in BOOLEAN /\ ~no /\ hist' = h
    BY <1>3
  <2> HIDE DEF no
  <2>3. /\ h.started = no /\ h.starts = hist.starts /\ h.decrypt = hist.decrypt /\ h.adLen = hist.adLen
        /\ h.text = <<>>
        /\ h = HistoryOf(h.started, h.starts, h.decrypt, h.adLen, h.hdrMsgLen, h.hdrTagLen, h.text)
    BY HistoryFields
  <2> HIDE DEF h
  <2> QED BY <2>1, <2>2, <2>3, Defaults, HistoryMade, Zenon
<1> QED BY <1>2, <1>4 DEF IInv

\* The lengths may be set at any time.
LEMMA LengthsHold ==
  ASSUME IInv, NEW m \in MsgLens \cup {0}, NEW t \in {n \in MIN_TAG..MBS : n % 2 = 0},
         ccmCtx' = ContextOf(ccmCtx.valid, m, ccmCtx.lenProcessed, t, ccmCtx.counterVal, ccmCtx.iv, ccmCtx.s0, ccmCtx.si,
                          ccmCtx.blk, ccmCtx.mac, ccmCtx.aesni),
         UNCHANGED hist
  PROVE  IInv'
<1>1. Context(ccmCtx)
  BY DEF IInv
<1>2. Context(ccmCtx')
  <2>1. /\ ccmCtx.valid \in BOOLEAN /\ ccmCtx.lenProcessed \in Nat /\ ccmCtx.counterVal \in Nat /\ ccmCtx.iv \in Ivs
        /\ MacValue(ccmCtx.s0) /\ ccmCtx.si \in Block /\ ccmCtx.blk \in Block /\ MacValue(ccmCtx.mac)
        /\ ccmCtx.aesni \in BOOLEAN
    BY <1>1, Zenon DEF Context
  <2>2. Context(ContextOf(ccmCtx.valid, m, ccmCtx.lenProcessed, t, ccmCtx.counterVal, ccmCtx.iv, ccmCtx.s0, ccmCtx.si,
                          ccmCtx.blk, ccmCtx.mac, ccmCtx.aesni))
    BY ONLY <2>1, m \in MsgLens \cup {0}, t \in {n \in MIN_TAG..MBS : n % 2 = 0}, ContextMade
  <2> QED BY <2>2, Zenon
<1>3. /\ ccmCtx'.lenProcessed = ccmCtx.lenProcessed /\ ccmCtx'.counterVal = ccmCtx.counterVal /\ ccmCtx'.iv = ccmCtx.iv
      /\ ccmCtx'.s0 = ccmCtx.s0 /\ ccmCtx'.si = ccmCtx.si /\ ccmCtx'.blk = ccmCtx.blk /\ ccmCtx'.mac = ccmCtx.mac
      /\ ccmCtx'.aesni = ccmCtx.aesni
  BY ContextFields
<1>4. ASSUME hist.started PROVE InProgress(ccmCtx', hist)
  <2>1. InProgress(ccmCtx, hist)
    BY <1>4 DEF IInv
  <2> QED BY <1>3, <2>1, InProgressKept
<1>5. hist' = hist /\ History(hist) /\ ccmCtx.counterVal <= MAX_CTR
  BY DEF IInv
<1> QED BY <1>2, <1>3, <1>4, <1>5, Zenon DEF IInv

\* A call that changes neither the context nor the message.
LEMMA UnchangedHolds == ASSUME IInv, UNCHANGED <<ccmCtx, hist>> PROVE IInv'
BY Zenon DEF IInv

\* MessageLen keeps the invariant.
LEMMA MessageLenHolds == ASSUME IInv, NEW m \in MsgLens, CCMMessageLen(m) PROVE IInv'
<1>1. CASE ccmCtx.valid
  <2>1. Context(ccmCtx) /\ m \in MsgLens \cup {0} /\ ccmCtx.tagLen \in {n \in MIN_TAG..MBS : n % 2 = 0}
    BY DEF IInv, Context
  <2>2. ccmCtx' = ContextOf(ccmCtx.valid, m, ccmCtx.lenProcessed, ccmCtx.tagLen, ccmCtx.counterVal, ccmCtx.iv, ccmCtx.s0,
                         ccmCtx.si, ccmCtx.blk, ccmCtx.mac, ccmCtx.aesni)
    BY <1>1, <2>1, LengthsSet DEF CCMMessageLen, WithMsgLen
  <2> QED BY <2>1, <2>2, LengthsHold DEF CCMMessageLen
<1>2. CASE ~ccmCtx.valid
  BY <1>2, UnchangedHolds DEF CCMMessageLen
<1> QED BY <1>1, <1>2

\* TagLen keeps the invariant.
LEMMA TagLenHolds == ASSUME IInv, NEW t \in TagLens, CCMTagLen(t) PROVE IInv'
<1>1. CASE ccmCtx.valid /\ TagLenOk(t)
  <2>1. Context(ccmCtx) /\ ccmCtx.msgLen \in MsgLens \cup {0} /\ t \in {n \in MIN_TAG..MBS : n % 2 = 0}
    BY <1>1 DEF IInv, Context, TagLenOk
  <2>2. ccmCtx' = ContextOf(ccmCtx.valid, ccmCtx.msgLen, ccmCtx.lenProcessed, t, ccmCtx.counterVal, ccmCtx.iv, ccmCtx.s0,
                         ccmCtx.si, ccmCtx.blk, ccmCtx.mac, ccmCtx.aesni)
    BY <1>1, <2>1, LengthsSet DEF CCMTagLen, WithTagLen
  <2> QED BY <2>1, <2>2, LengthsHold DEF CCMTagLen
<1>2. CASE ~(ccmCtx.valid /\ TagLenOk(t))
  BY <1>2, UnchangedHolds DEF CCMTagLen
<1> QED BY <1>1, <1>2

\* GetTag changes neither context nor message.
LEMMA GetTagHolds == ASSUME IInv, NEW t \in TagLens, CCMGetTag(t) PROVE IInv'
BY UnchangedHolds DEF CCMGetTag

\* A message before its first byte of text.
LEMMA NothingYet ==
  ASSUME NEW c, NEW start, c.lenProcessed = 0, c.counterVal = 0, c.mac = start
  PROVE  InMessage(c, start, <<>>)
<1> USE Size
<1> DEFINE z == 0
<1>1. z % MBS = 0 /\ Ceiling(z) = 0
  <2>1. z \in 0..(MBS - 1) /\ MBS * 0 + z = z /\ 0 + (IF z > 0 THEN 1 ELSE 0) = 0 /\ 0 \in Nat
    OBVIOUS
  <2> HIDE DEF z
  <2>2. (MBS * 0 + z) % MBS = z
    BY <2>1, DivModOfSplit
  <2>3. Ceiling(MBS * 0 + z) = 0 + (IF z > 0 THEN 1 ELSE 0)
    BY <2>1, CeilingOfSplit
  <2>4. z = 0
    BY DEF z
  <2> QED BY <2>1, <2>2, <2>3, <2>4, Zenon
<1>2. Len(<<>>) = z
  OBVIOUS
<1>3. Whole(<<>>) = <<>>
  <2>1. 0 - 0 = 0 /\ <<>> \in Seq(Byte)
    OBVIOUS
  <2>2. SubSeq(<<>>, 1, 0) = <<>>
    OBVIOUS
  <2> QED BY <1>1, <1>2, <2>1, <2>2, Zenon DEF Whole
<1>4. CbcMac(start, ZeroPadded(Whole(<<>>), MBS)) = start
  BY <1>3, PaddedNone, MacOfNone, Zenon
<1>5. flag(c) = 0
  BY <1>1, Zenon DEF flag
<1> HIDE DEF z
<1>6. \A i \in 1..flag(c) : FALSE
  BY <1>5
<1>7. z = 0
  BY DEF z
<1> QED BY <1>1, <1>2, <1>4, <1>5, <1>6, <1>7, Zenon DEF InMessage

\* Start begins a message with the MAC of its header.
LEMMA StartHolds ==
  ASSUME IInv, NEW iv \in Ivs, NEW adLen \in AdLens, NEW decrypt \in BOOLEAN, CCMStart(iv, adLen, decrypt)
  PROVE  IInv'
<1>1. CASE ccmCtx.valid /\ adLen >= 0
  <2> DEFINE h == hist'
             s == Cipher(Ctr(iv, 0))
             m == AdMac(Cipher(B0(adLen, ccmCtx.tagLen, ccmCtx.msgLen, iv)), Data("ad", 0, adLen))
  <2>1. Context(ccmCtx) /\ History(hist)
    BY DEF IInv
  <2>2. adLen \in Nat
    BY <1>1, CcmAssumption
  <2>3. ccmCtx' = ContextOf(ccmCtx.valid, ccmCtx.msgLen, 0, ccmCtx.tagLen, 0, iv, s, ccmCtx.si, ccmCtx.blk, m, ccmCtx.aesni)
    BY <1>1, <2>1, StartSet DEF CCMStart
  <2>4. h = HistoryOf(TRUE, hist.starts + 1, decrypt, adLen, ccmCtx.msgLen, ccmCtx.tagLen, <<>>)
    BY <1>1 DEF CCMStart, HistoryOf
  <2>5. hist.starts \in Nat
    BY <2>1 DEF History
  <2>6. /\ History(h) /\ h.started = TRUE /\ h.starts = hist.starts + 1 /\ h.adLen = adLen
        /\ h.hdrMsgLen = ccmCtx.msgLen /\ h.hdrTagLen = ccmCtx.tagLen /\ h.text = <<>>
    <3>1. hist.starts + 1 \in Nat
      BY <2>5
    <3> DEFINE yes == TRUE
               m0 == ccmCtx.msgLen
               t0 == ccmCtx.tagLen
               n0 == hist.starts + 1
               g == HistoryOf(yes, n0, decrypt, adLen, m0, t0, <<>>)
    <3>2. yes \in BOOLEAN /\ yes = TRUE /\ decrypt \in BOOLEAN /\ h = g
      BY <2>4
    <3> HIDE DEF h, yes, n0, m0, t0
    <3>3. /\ g.started = yes /\ g.starts = n0 /\ g.decrypt = decrypt /\ g.adLen = adLen
          /\ g.hdrMsgLen = m0 /\ g.hdrTagLen = t0 /\ g.text = <<>>
          /\ g = HistoryOf(g.started, g.starts, g.decrypt, g.adLen, g.hdrMsgLen, g.hdrTagLen, g.text)
      BY HistoryFields
    <3> HIDE DEF g
    <3>4. History(g)
      BY <2>2, <3>1, <3>2, <3>3, Defaults, HistoryMade, Zenon DEF n0
    <3> QED BY <3>2, <3>3, <3>4, Zenon DEF n0, m0, t0
  <2>7. m = Header(h, iv)
    <3>1. h.adLen \in Nat
      BY <2>2, <2>6
    <3> HIDE DEF h
    <3>2. AdMac(Cipher(B0(h.adLen, h.hdrTagLen, h.hdrMsgLen, iv)), Data("ad", 0, h.adLen)) = Header(h, iv)
      BY <3>1, StartsWithHeader
    <3> QED BY <2>6, <3>2, Zenon
  <2>8. MacValue(m)
    <3> DEFINE b0 == B0(adLen, ccmCtx.tagLen, ccmCtx.msgLen, iv)
               ad == Data("ad", 0, adLen)
    <3>1. MacValue(Cipher(b0))
      BY Zenon DEF MacValue
    <3>2. ad \in Seq(Byte) /\ Len(ad) = adLen
      BY <2>2, DataBytes, 0 \in Nat
    <3> HIDE DEF b0, ad
    <3>3. CASE ad = <<>>
      <4>1. m = Cipher(b0)
        BY <3>3, Zenon DEF AdMac, b0, ad
      <4> QED BY <3>1, <4>1, Zenon
    <3>4. CASE ad # <<>>
      <4> DEFINE bs == ZeroPadded(AdLenEnc(Len(ad)) \o ad, MBS)
                 x == AdLenEnc(Len(ad)) \o ad
      <4>1. m = CbcMac(Cipher(b0), bs)
        <5>1. <<CopyBlock(AdLenEnc(Len(ad)) \o ad, ZeroBlock(MBS), 0)>>
                \o ZeroPadded(SubSeq(ad, MBS - AD_HDR + 1, Len(ad)), MBS) = bs
          BY <3>2, <3>4, AdBlocks
        <5> QED BY <3>4, <5>1, Zenon DEF AdMac, b0, ad
      <4>2. AdLenEnc(Len(ad)) \in Seq(Byte)
        BY <2>2, <3>2, LengthBytes
      <4>3. x \in Seq(Byte)
        BY <3>2, <4>2, Joined
      <4>4. bs = ZeroPadded(x, MBS)
        OBVIOUS
      <4> HIDE DEF bs, x
      <4>5. bs \in Seq(Block)
        BY <4>3, <4>4, PaddedBlocks
      <4> QED BY <3>1, <4>1, <4>5, MacStaysValue, Zenon
    <3> QED BY <3>3, <3>4
  <2>9. MacValue(s)
    BY Zenon DEF MacValue
  <2> HIDE DEF m, s
  <2>10. Context(ccmCtx')
    <3>1. /\ ccmCtx.valid \in BOOLEAN /\ ccmCtx.msgLen \in MsgLens \cup {0}
          /\ ccmCtx.tagLen \in {n \in MIN_TAG..MBS : n % 2 = 0}
          /\ ccmCtx.si \in Block /\ ccmCtx.blk \in Block /\ ccmCtx.aesni \in BOOLEAN
      BY <2>1, Zenon DEF Context
    <3>2. Context(ContextOf(ccmCtx.valid, ccmCtx.msgLen, 0, ccmCtx.tagLen, 0, iv, s, ccmCtx.si, ccmCtx.blk, m, ccmCtx.aesni))
      <4> DEFINE lengths == {n \in MIN_TAG..MBS : n % 2 = 0}
                 va == ccmCtx.valid
                 ml == ccmCtx.msgLen
                 tl == ccmCtx.tagLen
                 si == ccmCtx.si
                 bl == ccmCtx.blk
                 ae == ccmCtx.aesni
                 z  == 0
      <4>1. /\ va \in BOOLEAN /\ ml \in MsgLens \cup {0} /\ tl \in lengths /\ si \in Block
            /\ bl \in Block /\ ae \in BOOLEAN /\ z \in Nat /\ iv \in Ivs
        BY <3>1
      <4> HIDE DEF va, ml, tl, si, bl, ae, z
      <4>2. Context(ContextOf(va, ml, z, tl, z, iv, s, si, bl, m, ae))
        BY ONLY <2>8, <2>9, <4>1, ContextMade
      <4> QED BY <4>2 DEF va, ml, tl, si, bl, ae, z
    <3> QED BY <2>3, <3>2, Zenon
  <2>11. /\ ccmCtx'.lenProcessed = 0 /\ ccmCtx'.counterVal = 0 /\ ccmCtx'.iv = iv /\ ccmCtx'.s0 = s /\ ccmCtx'.mac = m
    BY <2>3, ContextFields
  <2>12. InMessage(ccmCtx', Header(h, iv), <<>>)
    BY <2>7, <2>11, NothingYet
  <2> HIDE DEF h
  <2>13. InProgress(ccmCtx', h)
    <3>1. h.starts # 0
      BY <2>5, <2>6
    <3>2. ccmCtx'.s0 = Cipher(Ctr(ccmCtx'.iv, 0))
      BY <2>11, Zenon DEF s
    <3> QED BY <2>6, <2>11, <2>12, <3>1, <3>2, Zenon DEF InProgress
  <2>14. ccmCtx'.counterVal <= MAX_CTR
    BY <2>11, Defaults
  <2> QED BY <2>6, <2>10, <2>13, <2>14, Zenon DEF IInv, h
<1>2. CASE ~(ccmCtx.valid /\ adLen >= 0)
  BY <1>2, UnchangedHolds DEF CCMStart
<1> QED BY <1>1, <1>2

\* What a call leaves as it was, how far it advances the counter, and that it continues the message.
LEMMA ProcessExtends ==
  ASSUME NEW c, Context(c), NEW decrypt \in BOOLEAN, NEW src \in Seq(Byte),
         flag(c) # 0 => flag(c) + Len(src) <= MBS,
         NEW start, NEW text \in Seq(Byte)
  PROVE  LET p == Process(c, decrypt, src)
             d == p.ctx
         IN  /\ d.valid = c.valid /\ d.msgLen = c.msgLen /\ d.tagLen = c.tagLen /\ d.iv = c.iv
             /\ d.s0 = c.s0 /\ d.aesni = c.aesni
             /\ d.counterVal <= c.counterVal + (Len(src) \div MBS) + 1
             /\ InMessage(c, start, text) => InMessage(d, start, text \o p.plain)
<1> USE Size
<1> DEFINE len == Len(src)
<1>1. len \in Nat /\ c.lenProcessed \in Nat /\ c.counterVal \in Nat
  BY DEF Context
<1>2. len \div MBS \in Nat /\ Ceiling(len) <= (len \div MBS) + 1 /\ Ceiling(len) \in Nat
  <2>1. /\ len \div MBS \in Nat /\ len % MBS \in 0..(MBS - 1)
        /\ Ceiling(len) = (len \div MBS) + (IF len % MBS > 0 THEN 1 ELSE 0)
    BY <1>1, CallCut
  <2> HIDE DEF len
  <2> DEFINE k == len \div MBS
             r == len % MBS
  <2> HIDE DEF k, r
  <2>2. k \in Nat /\ Ceiling(len) = k + (IF r > 0 THEN 1 ELSE 0)
    BY <2>1 DEF k, r
  <2>3. k \in Nat /\ Ceiling(len) <= k + 1 /\ Ceiling(len) \in Nat
    BY <2>2
  <2> QED BY <2>3 DEF k
<1>3. CASE flag(c) # 0
  <2> DEFINE plain == PendingPlain(c, decrypt, src)
             blk == PendingBlk(c, decrypt, src)
             mac == IF flag(c) + len = MBS THEN CbcMac(c.mac, <<blk>>) ELSE c.mac
             d == After(c, c.lenProcessed + len, c.counterVal, c.si, blk, mac)
  <2>1. plain \in Seq(Byte) /\ Len(plain) = len
    BY <1>3, PendingTypes
  <2>2. Process(c, decrypt, src) = [dst |-> PendingOut(c, src), plain |-> plain, ctx |-> d]
    BY <1>3, ProcessPending, Zenon
  <2>3. /\ d.valid = c.valid /\ d.msgLen = c.msgLen /\ d.tagLen = c.tagLen /\ d.iv = c.iv
        /\ d.s0 = c.s0 /\ d.aesni = c.aesni /\ d.counterVal = c.counterVal
    BY AfterFields
  <2>4. blk = CopyBlock(plain, c.blk, flag(c))
    BY DEF PendingBlk
  <2> HIDE DEF plain, blk
  <2>5. ASSUME InMessage(c, start, text) PROVE InMessage(d, start, text \o plain)
    <3> DEFINE b2 == CopyBlock(plain, c.blk, flag(c))
               m2 == IF flag(c) + Len(plain) = MBS THEN CbcMac(c.mac, <<b2>>) ELSE c.mac
    <3>1. flag(c) + Len(plain) <= MBS
      BY <1>3, <2>1
    <3>2. InMessage(After(c, c.lenProcessed + Len(plain), c.counterVal, c.si, b2, m2), start, text \o plain)
      BY <1>3, <2>1, <2>5, <3>1, PendingExtends, Zenon
    <3>3. b2 = blk /\ m2 = mac
      BY <2>1, <2>4, Zenon
    <3> HIDE DEF b2, m2, mac, len
    <3> QED BY <2>1, <3>2, <3>3, Zenon
  <2> HIDE DEF d
  <2>6. d.counterVal <= c.counterVal + (len \div MBS) + 1
    <3> DEFINE k == len \div MBS
    <3>1. k \in Nat
      BY <1>2
    <3> HIDE DEF k, len
    <3>2. d.counterVal <= c.counterVal + k + 1
      BY <1>1, <2>3, <3>1
    <3> QED BY <3>2 DEF k
  <2> QED BY <2>2, <2>3, <2>5, <2>6
<1>4. CASE flag(c) = 0
  <2> DEFINE rest == len % MBS
             plain == BlocksPlain(c, decrypt, src)
             l(n) == c.lenProcessed + (n % MBS) + (IF c.aesni THEN 0 ELSE (n \div MBS) * MBS)
             ctr(n) == c.counterVal + Ceiling(n)
             si(n) == IF Ceiling(n) > 0 THEN Stream(c, Ceiling(n)) ELSE c.si
             blk(n) == CopyBlock(SubSeq(plain, n - (n % MBS) + 1, n), c.blk, 0)
             mac(n) == CbcMac(c.mac, ZeroPadded(SubSeq(plain, 1, n - (n % MBS)), MBS))
             d(n) == After(c, l(n), ctr(n), si(n), blk(n), mac(n))
  <2>1. plain \in Seq(Byte) /\ Len(plain) = len
    BY BlocksTypes
  <2>2. Process(c, decrypt, src) = [dst |-> BlocksOut(c, src), plain |-> plain, ctx |-> d(len)]
    BY <1>4, ProcessBlocks, ZenonT(60)
  <2>3. LET e == d(len)
        IN /\ e.valid = c.valid /\ e.msgLen = c.msgLen /\ e.tagLen = c.tagLen /\ e.iv = c.iv
           /\ e.s0 = c.s0 /\ e.aesni = c.aesni /\ e.counterVal = ctr(len)
    BY AfterFields
  <2> HIDE DEF plain
  <2>5. ASSUME InMessage(c, start, text) PROVE InMessage(d(len), start, text \o plain)
    <3>1. InMessage(d(Len(plain)), start, text \o plain)
      BY <1>4, <2>1, <2>5, BlocksExtends, Zenon
    <3> HIDE DEF d, len
    <3> QED BY <2>1, <3>1, Zenon
  <2>6. ctr(len) <= c.counterVal + (len \div MBS) + 1
    <3> DEFINE k == len \div MBS
    <3> HIDE DEF k, len
    <3>1. k \in Nat /\ Ceiling(len) <= k + 1 /\ Ceiling(len) \in Nat
      BY <1>2 DEF k, len
    <3>2. c.counterVal + Ceiling(len) <= c.counterVal + k + 1
      BY <1>1, <3>1
    <3> QED BY <3>2 DEF k, len
  <2> HIDE DEF d, ctr
  <2> QED BY <2>2, <2>3, <2>5, <2>6
<1> QED BY <1>3, <1>4

\* What a call that is not refused passes.
LEMMA CallPasses ==
  ASSUME IInv, NEW len \in CcmCallLens, CryptStatus(ccmCtx, len) = "ippStsNoErr"
  PROVE  LET src == Data("txt", Len(hist.text), len)
         IN  /\ len \in Nat /\ hist.text \in Seq(Byte) /\ hist.decrypt \in BOOLEAN /\ Context(ccmCtx)
             /\ src \in Seq(Byte) /\ Len(src) = len
             /\ ccmCtx.valid /\ ccmCtx.lenProcessed + len <= ccmCtx.msgLen
<1>1. hist.text \in Seq(Byte) /\ hist.decrypt \in BOOLEAN /\ Context(ccmCtx)
  BY Zenon DEF IInv, History
<1>2. ccmCtx.valid /\ len >= 0 /\ ccmCtx.lenProcessed + len <= ccmCtx.msgLen
  <2>1. ccmCtx.valid /\ ~(len < 0 \/ ccmCtx.lenProcessed + len > ccmCtx.msgLen)
    BY DEF CryptStatus
  <2>2. ccmCtx.lenProcessed \in Nat /\ ccmCtx.msgLen \in Nat
    BY <1>1, CcmAssumption DEF Context
  <2> QED BY <2>1, <2>2, CcmAssumption
<1>3. len \in Nat
  BY <1>2, CcmAssumption
<1>4. Len(hist.text) \in Nat
  BY <1>1
<1>5. Data("txt", Len(hist.text), len) \in Seq(Byte) /\ Len(Data("txt", Len(hist.text), len)) = len
  BY <1>3, <1>4, DataBytes
<1> QED BY <1>1, <1>2, <1>3, <1>5

\* Encrypt and Decrypt continue the message.
LEMMA CryptHolds ==
  ASSUME IInv, CALLER_FITS, NEW len \in CcmCallLens, CCMCrypt(len)
  PROVE  IInv'
<1> DEFINE src == Data("txt", Len(hist.text), len)
           p == Process(ccmCtx, hist.decrypt, src)
<1>1. CASE CryptStatus(ccmCtx, len) = "ippStsNoErr"
  <2>1. /\ len \in Nat /\ hist.text \in Seq(Byte) /\ hist.decrypt \in BOOLEAN /\ Context(ccmCtx)
        /\ src \in Seq(Byte) /\ Len(src) = len
    BY <1>1, CallPasses
  <2>2. /\ flag(ccmCtx) # 0 => flag(ccmCtx) + len <= MBS
        /\ ccmCtx.counterVal + (len \div MBS) < MAX_CTR
        /\ ccmCtx' = p.ctx
        /\ hist' = IF hist.started THEN WithText(hist, hist.text \o p.plain) ELSE hist
    BY <1>1 DEF CCMCrypt, Fits, WithText
  <2> HIDE DEF src
  <2>3. flag(ccmCtx) # 0 => flag(ccmCtx) + Len(src) <= MBS
    BY <2>1, <2>2, Zenon
  <2>4. Context(p.ctx) /\ p.plain \in Seq(Byte)
    BY <2>1, <2>3, ProcessKeepsContext
  <2>5. \A start : /\ p.ctx.iv = ccmCtx.iv /\ p.ctx.s0 = ccmCtx.s0
                   /\ p.ctx.counterVal <= ccmCtx.counterVal + (Len(src) \div MBS) + 1
                   /\ InMessage(ccmCtx, start, hist.text) => InMessage(p.ctx, start, hist.text \o p.plain)
    BY <2>1, <2>3, ProcessExtends, Zenon
  <2> HIDE DEF p
  <2>6. ccmCtx'.counterVal <= MAX_CTR
    <3>1. /\ ccmCtx'.counterVal \in Nat /\ ccmCtx.counterVal \in Nat /\ MAX_CTR \in Nat
      BY <2>1, <2>2, <2>4, CcmAssumption DEF Context
    <3>2. len \div MBS \in Nat
      BY <2>1, CallCut
    <3> DEFINE k == len \div MBS
    <3> HIDE DEF k
    <3>3. k \in Nat /\ ccmCtx.counterVal + k < MAX_CTR /\ ccmCtx'.counterVal <= ccmCtx.counterVal + k + 1
      BY <2>1, <2>2, <2>5, <3>2 DEF k
    <3> QED BY <3>1, <3>3
  <2>7. CASE ~hist.started
    BY <2>2, <2>4, <2>6, <2>7, Zenon DEF IInv
  <2>8. CASE hist.started
    <3> DEFINE new == hist.text \o p.plain
               h == HistoryOf(hist.started, hist.starts, hist.decrypt, hist.adLen, hist.hdrMsgLen,
                              hist.hdrTagLen, new)
    <3>1. new \in Seq(Byte)
      BY <2>1, <2>4, Joined
    <3>2. History(hist)
      BY DEF IInv
    <3> HIDE DEF new
    <3>3. hist' = h
      BY <2>2, <2>8, <3>2, HistorySet DEF new
    <3>4. /\ h.started = hist.started /\ h.starts = hist.starts /\ h.decrypt = hist.decrypt
          /\ h.adLen = hist.adLen /\ h.hdrMsgLen = hist.hdrMsgLen /\ h.hdrTagLen = hist.hdrTagLen
          /\ h.text = new
          /\ h = HistoryOf(h.started, h.starts, h.decrypt, h.adLen, h.hdrMsgLen, h.hdrTagLen, h.text)
      BY HistoryFields
    <3> HIDE DEF h
    <3>5. History(h)
      BY <3>1, <3>2, <3>4, HistoryMade, Zenon DEF History
    <3>6. Header(h, ccmCtx.iv) = Header(hist, ccmCtx.iv)
      BY <3>4, Zenon DEF Header, HeaderBlocks
    <3>7. InProgress(ccmCtx, hist)
      BY <2>8, Zenon DEF IInv
    <3>8. InMessage(p.ctx, Header(hist, ccmCtx.iv), new)
      BY <2>5, <3>7, Zenon DEF InProgress, new
    <3>9. InProgress(p.ctx, h)
      BY <2>5, <3>4, <3>6, <3>7, <3>8, Zenon DEF InProgress
    <3> QED BY <2>2, <2>4, <2>6, <3>3, <3>5, <3>9, Zenon DEF IInv
  <2> QED BY <2>7, <2>8
<1>2. CASE CryptStatus(ccmCtx, len) # "ippStsNoErr"
  BY <1>2, UnchangedHolds DEF CCMCrypt
<1> QED BY <1>1, <1>2

\* The invariant is inductive for callers that avoid the calls of the findings.
LEMMA NextHolds == ASSUME IInv, CALLER_FITS, [CcmNext]_ccmVars PROVE IInv'
<1> HIDE DEF IInv
<1>1. CASE UNCHANGED ccmVars
  BY <1>1, UnchangedHolds DEF ccmVars
<1>2. CASE CcmNext
  <2>1. ASSUME CCMInit PROVE IInv'
    BY <2>1, CCMInitHolds
  <2>2. ASSUME NEW m \in MsgLens, CCMMessageLen(m) PROVE IInv'
    BY <2>2, MessageLenHolds
  <2>3. ASSUME NEW t \in TagLens, CCMTagLen(t) PROVE IInv'
    BY <2>3, TagLenHolds
  <2>4. ASSUME NEW t \in TagLens, CCMGetTag(t) PROVE IInv'
    BY <2>4, GetTagHolds
  <2>5. ASSUME NEW iv \in Ivs, NEW adLen \in AdLens, NEW decrypt \in BOOLEAN, CCMStart(iv, adLen, decrypt)
        PROVE  IInv'
    BY <2>5, StartHolds
  <2>6. ASSUME NEW len \in CcmCallLens, CCMCrypt(len) PROVE IInv'
    BY <2>6, CryptHolds
  <2> QED BY <1>2, <2>1, <2>2, <2>3, <2>4, <2>5, <2>6 DEF CcmNext
<1> QED BY <1>1, <1>2

\* In every state the context holds exactly what the calls since Start determine.
THEOREM Invariance == ASSUME CALLER_FITS PROVE CcmSpec => []IInv
<1>1. CcmInit => IInv
  BY InitHolds
<1>2. IInv /\ [CcmNext]_ccmVars => IInv'
  BY NextHolds
<1> QED BY <1>1, <1>2, PTL DEF CcmSpec

-----------------------------------------------------------------------------
(* What the invariant says.                                                *)

\* The size of a block.
LEMMA BlockSize == ASSUME NEW b \in Block PROVE Len(b) = MBS
<1>1. MBS \in Nat /\ 1..MBS = DOMAIN b
  BY Size DEF Block
<1>2. b \in Seq(Byte)
  BY Size DEF Block
<1> QED BY <1>1, <1>2

\* The fields of a context have their types.
LEMMA ContextTyped == ASSUME IInv PROVE CcmTypeOK
<1>1. Context(ccmCtx) /\ ccmCtx.counterVal <= MAX_CTR
  BY DEF IInv
<1>2. ccmCtx.counterVal \in 0..MAX_CTR
  BY <1>1, CcmAssumption DEF Context
<1>3. Len(ccmCtx.s0) = MBS /\ Len(ccmCtx.mac) = MBS
  BY <1>1, MacSize DEF Context
<1>4. Len(ccmCtx.si) = MBS /\ Len(ccmCtx.blk) = MBS
  BY <1>1, BlockSize DEF Context
<1> QED BY <1>1, <1>2, <1>3, <1>4, Zenon DEF CcmTypeOK, Context

\* The pending bytes are the end of the text.
LEMMA PendingPart ==
  ASSUME NEW c, Context(c), NEW start, NEW text \in Seq(Byte), InMessage(c, start, text)
  PROVE  LET n == Len(text)
         IN  SubSeq(c.blk, 1, flag(c)) = SubSeq(text, n - flag(c) + 1, n)
<1> DEFINE n == Len(text)
           f == flag(c)
           rest == SubSeq(text, n - f + 1, n)
           front == SubSeq(c.blk, 1, f)
<1>1. f = n % MBS /\ \A i \in 1..f : c.blk[i] = text[(n - f) + i]
  BY DEF InMessage
<1>2. /\ f \in 0..(MBS - 1) /\ rest \in Seq(Byte) /\ Len(rest) = f
      /\ \A i \in 1..f : rest[i] = text[(n - f) + i]
  <2> DEFINE g == n % MBS
             r == SubSeq(text, n - g + 1, n)
  <2>1. g \in 0..(MBS - 1) /\ r \in Seq(Byte) /\ Len(r) = g /\ \A i \in 1..g : r[i] = text[(n - g) + i]
    BY Decomposed
  <2>2. f = g
    BY <1>1
  <2> HIDE DEF f, g, n
  <2> QED BY <2>1, <2>2, Zenon
<1>3. f \in 0..MBS /\ c.blk \in Block
  BY <1>2, Size DEF Context
<1>4. front \in Seq(Byte) /\ Len(front) = f /\ \A i \in 1..f : front[i] = c.blk[i]
  BY <1>3, FrontOfBlock
<1> HIDE DEF n, f, rest, front
<1>5. \A i \in 1..f : front[i] = rest[i]
  BY <1>1, <1>2, <1>4, Zenon
<1>6. front = rest
  BY <1>2, <1>4, <1>5, SequencesEqual
<1> QED BY <1>6 DEF n, f, rest, front

\* The invariant implies the one the run checks.
LEMMA Synchronised == ASSUME IInv PROVE CcmInStep
<1>1. CcmTypeOK
  BY ContextTyped
<1>2. ASSUME hist.started
      PROVE  LET n == Len(hist.text)
             IN  /\ flag(ccmCtx) = n % MBS
                 /\ ccmCtx.counterVal = (n + MBS - 1) \div MBS
                 /\ SubSeq(ccmCtx.blk, 1, flag(ccmCtx)) = SubSeq(hist.text, n - flag(ccmCtx) + 1, n)
                 /\ flag(ccmCtx) # 0 => ccmCtx.si = Cipher(Ctr(ccmCtx.iv, ccmCtx.counterVal))
  <2> DEFINE start == Header(hist, ccmCtx.iv)
  <2>1. InMessage(ccmCtx, start, hist.text) /\ Context(ccmCtx) /\ hist.text \in Seq(Byte)
    BY <1>2, Zenon DEF IInv, InProgress, History
  <2> HIDE DEF start
  <2>2. SubSeq(ccmCtx.blk, 1, flag(ccmCtx)) = SubSeq(hist.text, Len(hist.text) - flag(ccmCtx) + 1, Len(hist.text))
    BY <2>1, PendingPart
  <2> QED BY <2>1, <2>2, Zenon DEF InMessage, Ceiling
<1> QED BY <1>1, <1>2, Zenon DEF CcmInStep

\* In every state of a caller that avoids the calls of the findings, the counter, the pending block
\* and its key stream are those of the text passed since Start, for every block size, IV, cut of the
\* text into calls and length: InStep.
THEOREM StaysInStep == ASSUME CALLER_FITS PROVE CcmSpec => []CcmInStep
<1>1. IInv => CcmInStep
  BY Synchronised
<1> QED BY <1>1, Invariance, PTL

-----------------------------------------------------------------------------
(* The promise.                                                            *)

\* The promise's operators are the context's own.
LEMMA SameOperators ==
  /\ \A x : Promise!Cipher(x) = Cipher(x)
  /\ \A iv, n : Promise!Ctr(iv, n) = Ctr(iv, n)
  /\ \A a, t, l, iv : Promise!B0(a, t, l, iv) = B0(a, t, l, iv)
  /\ \A n : Promise!AdLenEnc(n) = AdLenEnc(n)
  /\ \A kind, first, n : Promise!Data(kind, first, n) = Data(kind, first, n)
  /\ \A a, b : Promise!Xor(a, b) = Xor(a, b)
  /\ \A s, n : Promise!ZeroPadded(s, n) = ZeroPadded(s, n)
  /\ \A n : Promise!ZeroBlock(n) = ZeroBlock(n)
<1>1. \A x : Promise!Cipher(x) = Cipher(x)
  BY DEF Promise!Cipher, Cipher
<1>2. \A iv, n : Promise!Ctr(iv, n) = Ctr(iv, n)
  BY DEF Promise!Ctr, Ctr
<1>3. \A a, t, l, iv : Promise!B0(a, t, l, iv) = B0(a, t, l, iv)
  BY DEF Promise!B0, B0
<1>4. \A n : Promise!AdLenEnc(n) = AdLenEnc(n)
  BY DEF Promise!AdLenEnc, AdLenEnc
<1>5. \A kind, first, n : Promise!Data(kind, first, n) = Data(kind, first, n)
  BY DEF Promise!Data, Data
<1>6. \A a, b : Promise!Xor(a, b) = Xor(a, b)
  BY DEF Promise!Xor, Xor
<1>7. \A s, n : Promise!ZeroPadded(s, n) = ZeroPadded(s, n)
  BY DEF Promise!ZeroPadded, ZeroPadded
<1>8. \A n : Promise!ZeroBlock(n) = ZeroBlock(n)
  BY DEF Promise!ZeroBlock, ZeroBlock
<1> QED BY <1>1, <1>2, <1>3, <1>4, <1>5, <1>6, <1>7, <1>8

\* The promise's MAC is the context's own.
LEMMA SameMac == \A mac, bs : Promise!CbcMac(mac, bs) = CbcMac(mac, bs)
BY DEF Promise!CbcMac, CbcMac, Promise!Cipher, Cipher, Promise!XorBlock, XorBlock, Promise!Xor, Xor

\* The key-stream byte for byte j of a piece of text behind first bytes.
KeyByte(iv, first, j) ==
  Cipher(Ctr(iv, ((first + j - 1) \div MBS) + 1))[((first + j - 1) % MBS) + 1]

\* The bytes of the pending block are under the key stream of its counter.
LEMMA PendingStreams ==
  ASSUME NEW c, Context(c), NEW decrypt \in BOOLEAN, NEW src \in Seq(Byte),
         NEW start, NEW text \in Seq(Byte), InMessage(c, start, text),
         flag(c) # 0, flag(c) + Len(src) <= MBS
  PROVE  \A j \in 1..Len(src) : c.si[flag(c) + j] = KeyByte(c.iv, Len(text), j)
<1> USE Size
<1> DEFINE n == Len(text)
           f == flag(c)
           q == n \div MBS
<1>1. /\ f \in 1..(MBS - 1) /\ q \in Nat /\ n \in Nat /\ n = MBS * q + f
      /\ c.si = Cipher(Ctr(c.iv, c.counterVal)) /\ c.counterVal = Ceiling(n)
  <2>1. f = n % MBS /\ c.si = Cipher(Ctr(c.iv, c.counterVal)) /\ c.counterVal = Ceiling(n)
    BY DEF InMessage
  <2>2. n \in Nat
    OBVIOUS
  <2> HIDE DEF n, f
  <2>3. q \in Nat /\ n % MBS \in 0..(MBS - 1) /\ n = MBS * q + (n % MBS)
    BY <2>2, CallCut
  <2> HIDE DEF q
  <2> QED BY <2>1, <2>2, <2>3 DEF f
<1> HIDE DEF n, f, q
<1>2. c.counterVal = q + 1
  <2>1. f \in 1..MBS
    BY <1>1
  <2> QED BY <1>1, <2>1, CeilingOfBegun
<1> TAKE j \in 1..Len(src)
<1> DEFINE r == f + j - 1
           x == n + j - 1
<1>3. r \in 0..(MBS - 1) /\ x = MBS * q + r /\ r + 1 = f + j
  <2>1. j \in Nat /\ j >= 1 /\ f + j <= MBS
    BY <1>1 DEF f
  <2> DEFINE b == MBS * q
  <2>2. b \in Int /\ n = b + f
    BY <1>1
  <2> HIDE DEF b
  <2>3. r \in 0..(MBS - 1) /\ x = b + r /\ r + 1 = f + j
    BY <1>1, <2>1, <2>2
  <2> QED BY <2>3 DEF b
<1>4. x \div MBS = q /\ x % MBS = r
  <2> HIDE DEF r, x
  <2>1. (MBS * q + r) \div MBS = q /\ (MBS * q + r) % MBS = r
    BY <1>1, <1>3, DivModOfSplit
  <2> QED BY <1>3, <2>1, Zenon
<1>5. KeyByte(c.iv, n, j) = Cipher(Ctr(c.iv, (x \div MBS) + 1))[(x % MBS) + 1]
  BY DEF KeyByte
<1> HIDE DEF r, x
<1>6. KeyByte(c.iv, n, j) = Cipher(Ctr(c.iv, q + 1))[f + j]
  BY <1>3, <1>4, <1>5, Zenon
<1>7. c.si[f + j] = KeyByte(c.iv, n, j)
  BY <1>1, <1>2, <1>6, Zenon
<1> QED BY <1>7 DEF n, f

\* The bytes of a call that begins with a block of its own are under the counters that follow.
LEMMA BlocksStream ==
  ASSUME NEW c, Context(c), NEW src \in Seq(Byte),
         NEW start, NEW text \in Seq(Byte), InMessage(c, start, text), flag(c) = 0
  PROVE  \A j \in 1..Len(src) :
           Stream(c, ((j - 1) \div MBS) + 1)[((j - 1) % MBS) + 1]
             = KeyByte(c.iv, Len(text), j)
<1> USE Size
<1> DEFINE n == Len(text)
           q == n \div MBS
<1>1. q \in Nat /\ n \in Nat /\ n = MBS * q /\ c.counterVal = Ceiling(n)
  <2>1. n % MBS = 0 /\ c.counterVal = Ceiling(n)
    BY DEF InMessage
  <2>2. n \in Nat
    OBVIOUS
  <2> HIDE DEF n
  <2>3. q \in Nat /\ n = MBS * q + (n % MBS)
    BY <2>2, CallCut
  <2> HIDE DEF q
  <2> QED BY <2>1, <2>2, <2>3
<1> HIDE DEF n, q
<1>2. c.counterVal = q
  <2> DEFINE z == 0
  <2>1. z \in 0..(MBS - 1) /\ MBS * q + z = n /\ q + (IF z > 0 THEN 1 ELSE 0) = q
    BY <1>1, SMT
  <2> HIDE DEF z
  <2>2. Ceiling(MBS * q + z) = q + (IF z > 0 THEN 1 ELSE 0)
    BY <1>1, <2>1, CeilingOfSplit
  <2> QED BY <1>1, <2>1, <2>2, Zenon
<1> TAKE j \in 1..Len(src)
<1> DEFINE i == j - 1
           k == i \div MBS
           r == i % MBS
           x == n + j - 1
<1>3. i \in Nat
  OBVIOUS
<1> HIDE DEF i
<1>4. k \in Nat /\ r \in 0..(MBS - 1) /\ i = MBS * k + r
  BY <1>3, CallCut
<1> HIDE DEF k, r
<1>5. x = MBS * (q + k) + r /\ q + k \in Nat
  <2>1. MBS * (q + k) = MBS * q + MBS * k
    BY <1>1, <1>4, SMT
  <2> DEFINE a == MBS * q
             b == MBS * k
  <2>2. a \in Int /\ b \in Int /\ n = a /\ i = b + r /\ MBS * (q + k) = a + b
    BY <1>1, <1>4, <2>1
  <2> HIDE DEF a, b
  <2>3. x = (a + b) + r
    BY <1>1, <1>4, <2>2 DEF i
  <2> HIDE DEF x
  <2> QED BY <1>1, <1>4, <2>2, <2>3
<1>6. x \div MBS = q + k /\ x % MBS = r
  <2> HIDE DEF x
  <2> DEFINE s == q + k
  <2>1. s \in Nat /\ x = MBS * s + r
    BY <1>5
  <2> HIDE DEF s
  <2>2. (MBS * s + r) \div MBS = s /\ (MBS * s + r) % MBS = r
    BY <1>4, <2>1, DivModOfSplit
  <2> QED BY <2>1, <2>2, Zenon DEF s
<1>7. KeyByte(c.iv, n, j) = Cipher(Ctr(c.iv, (x \div MBS) + 1))[(x % MBS) + 1]
  BY DEF KeyByte
<1>8. Stream(c, k + 1)[r + 1] = Cipher(Ctr(c.iv, c.counterVal + (k + 1)))[r + 1]
  BY DEF Stream
<1> HIDE DEF x
<1>9. c.counterVal + (k + 1) = (q + k) + 1
  BY <1>1, <1>2, <1>4, SMTT(60)
<1>10. Stream(c, k + 1)[r + 1] = KeyByte(c.iv, n, j)
  BY <1>6, <1>7, <1>8, <1>9, Zenon
<1> QED BY <1>10 DEF n, k, r, i

\* Every output byte of a call is under its own byte of the key stream, and the plain text is on
\* the side of the direction.
LEMMA OutputIsStream ==
  ASSUME NEW c, Context(c), NEW decrypt \in BOOLEAN, NEW src \in Seq(Byte),
         NEW start, NEW text \in Seq(Byte), InMessage(c, start, text),
         flag(c) # 0 => flag(c) + Len(src) <= MBS
  PROVE  LET p == Process(c, decrypt, src)
         IN  /\ p.dst = [j \in 1..Len(src) |-> Xor(src[j], KeyByte(c.iv, Len(text), j))]
             /\ p.plain = IF decrypt THEN p.dst ELSE src
<1> DEFINE n == Len(text)
           dst == [j \in 1..Len(src) |-> Xor(src[j], KeyByte(c.iv, n, j))]
<1>1. CASE flag(c) # 0
  <2>1. \A j \in 1..Len(src) : c.si[flag(c) + j] = KeyByte(c.iv, n, j)
    BY <1>1, PendingStreams
  <2>2. PendingOut(c, src) = dst
    BY <2>1, Zenon DEF PendingOut
  <2>3. Process(c, decrypt, src).dst = PendingOut(c, src)
        /\ Process(c, decrypt, src).plain = PendingPlain(c, decrypt, src)
    <3> DEFINE len == Len(src)
               blk == PendingBlk(c, decrypt, src)
               d == After(c, c.lenProcessed + len, c.counterVal, c.si, blk,
                          IF flag(c) + len = MBS THEN CbcMac(c.mac, <<blk>>) ELSE c.mac)
               out0 == PendingOut(c, src)
               plain == PendingPlain(c, decrypt, src)
    <3>1. Process(c, decrypt, src) = [dst |-> out0, plain |-> plain, ctx |-> d]
      BY <1>1, ProcessPending, Zenon
    <3> HIDE DEF d, out0, plain
    <3>2. Process(c, decrypt, src).dst = out0 /\ Process(c, decrypt, src).plain = plain
      BY ONLY <3>1
    <3> QED BY <3>2 DEF out0, plain
  <2> QED BY <2>2, <2>3, Zenon DEF PendingPlain
<1>2. CASE flag(c) = 0
  <2>1. \A j \in 1..Len(src) :
           Stream(c, ((j - 1) \div MBS) + 1)[((j - 1) % MBS) + 1] = KeyByte(c.iv, n, j)
    BY <1>2, BlocksStream
  <2>2. BlocksOut(c, src) = dst
    BY <2>1, Zenon DEF BlocksOut
  <2>3. Process(c, decrypt, src).dst = BlocksOut(c, src)
        /\ Process(c, decrypt, src).plain = BlocksPlain(c, decrypt, src)
    BY <1>2, ProcessBlocks
  <2> QED BY <2>2, <2>3, Zenon DEF BlocksPlain
<1> QED BY <1>1, <1>2

\* The MAC with the pending bytes padded is the MAC over the header and the text.
LEMMA FinalMac ==
  ASSUME NEW c, Context(c), NEW start, NEW text \in Seq(Byte), InMessage(c, start, text)
  PROVE  LET pending == CopyBlock(SubSeq(c.blk, 1, flag(c)), ZeroBlock(MBS), 0)
         IN  (IF flag(c) # 0 THEN CbcMac(c.mac, <<pending>>) ELSE c.mac)
               = CbcMac(start, ZeroPadded(text, MBS))
<1> DEFINE n == Len(text)
           g == n % MBS
           f == flag(c)
           w == Whole(text)
           rest == SubSeq(text, n - g + 1, n)
           front == SubSeq(c.blk, 1, f)
           q == n \div MBS
<1>1. /\ g \in 0..(MBS - 1) /\ q \in Nat
      /\ w \in Seq(Byte) /\ Len(w) = MBS * q
      /\ rest \in Seq(Byte) /\ Len(rest) = g /\ text = w \o rest
  <2>1. /\ g \in 0..(MBS - 1) /\ n - g = MBS * q /\ q \in Nat
        /\ w \in Seq(Byte) /\ Len(w) = n - g
        /\ rest \in Seq(Byte) /\ Len(rest) = g /\ text = w \o rest
    BY Decomposed
  <2> HIDE DEF n, g, w, rest, q
  <2> QED BY <2>1, Zenon
<1>2. front = rest /\ f = g /\ c.mac = CbcMac(start, ZeroPadded(w, MBS))
  <2>1. f = g /\ c.mac = CbcMac(start, ZeroPadded(w, MBS))
    BY DEF InMessage
  <2>2. front = SubSeq(text, n - f + 1, n)
    BY PendingPart
  <2> HIDE DEF f, front
  <2> QED BY <2>1, <2>2, Zenon
<1> HIDE DEF n, g, w, rest, q
<1>3. CbcMac(start, ZeroPadded(w \o rest, MBS)) = CbcMac(c.mac, ZeroPadded(rest, MBS))
  <2>1. CbcMac(start, ZeroPadded(w \o rest, MBS))
          = CbcMac(CbcMac(start, ZeroPadded(w, MBS)), ZeroPadded(rest, MBS))
    BY <1>1, MacGoesOn
  <2> QED BY <1>2, <2>1, Zenon
<1>4. CASE f # 0
  <2>1. Len(rest) \in 1..MBS
    BY <1>1, <1>2, <1>4, Size
  <2>2. ZeroPadded(rest, MBS) = <<CopyBlock(rest, ZeroBlock(MBS), 0)>>
    BY <1>1, <2>1, PaddedOne
  <2> HIDE DEF front
  <2> QED BY <1>1, <1>2, <1>3, <1>4, <2>2, Zenon DEF front, f
<1>5. CASE f = 0
  <2>1. rest = <<>>
    BY <1>1, <1>2, <1>5
  <2>2. CbcMac(c.mac, ZeroPadded(rest, MBS)) = c.mac
    BY <2>1, PaddedNone, MacOfNone, Zenon
  <2> QED BY <1>1, <1>3, <1>5, <2>2, Zenon DEF f
<1> QED BY <1>4, <1>5

\* The MAC over the header and the text is the MAC over all the blocks of the message.
LEMMA MacOfMessage ==
  ASSUME NEW h, h.adLen \in Nat, NEW iv, NEW text \in Seq(Byte)
  PROVE  CbcMac(Header(h, iv), ZeroPadded(text, MBS))
           = CbcMac(ZeroBlock(MBS), HeaderBlocks(h, iv) \o ZeroPadded(text, MBS))
<1> DEFINE b0 == B0(h.adLen, h.hdrTagLen, h.hdrMsgLen, iv)
           ad == Data("ad", 0, h.adLen)
           x == AdLenEnc(h.adLen) \o ad
           zx == IF h.adLen = 0 THEN <<>> ELSE ZeroPadded(x, MBS)
           zt == ZeroPadded(text, MBS)
           hb == HeaderBlocks(h, iv)
           Y == Block \cup {b0}
<1>1. x \in Seq(Byte)
  <2>1. AdLenEnc(h.adLen) \in Seq(Byte)
    BY LengthBytes
  <2>2. ad \in Seq(Byte)
    BY DataBytes, 0 \in Nat
  <2> HIDE DEF ad
  <2> QED BY <2>1, <2>2, Joined
<1>2. zx \in Seq(Block)
  <2> HIDE DEF x
  <2>1. ZeroPadded(x, MBS) \in Seq(Block)
    BY <1>1, PaddedBlocks
  <2>2. <<>> \in Seq(Block)
    OBVIOUS
  <2> QED BY <2>1, <2>2, Zenon
<1>3. zt \in Seq(Block)
  BY PaddedBlocks
<1>4. hb = <<b0>> \o zx
  BY Zenon DEF HeaderBlocks
<1> HIDE DEF zx, zt, b0, hb
<1>5. hb \in Seq(Y) /\ zt \in Seq(Y)
  <2>1. zx \in Seq(Y) /\ zt \in Seq(Y)
    BY <1>2, <1>3, SeqMonotonic
  <2>2. b0 \in Y
    OBVIOUS
  <2> HIDE DEF Y
  <2>3. <<b0>> \in Seq(Y)
    BY <2>2
  <2> QED BY <1>4, <2>1, <2>3, Joined
<1> HIDE DEF Y
<1>6. CbcMac(ZeroBlock(MBS), hb \o zt) = CbcMac(CbcMac(ZeroBlock(MBS), hb), zt)
  BY <1>5, MacOfParts
<1>7. Header(h, iv) = CbcMac(ZeroBlock(MBS), hb)
  BY Zenon DEF Header, hb
<1> QED BY <1>6, <1>7, Zenon DEF hb, zt

\* The tag is the MAC under the first block of the key stream, cut to its length.
LEMMA TagBytes ==
  ASSUME NEW s, Len(s) = MBS, NEW mac, DOMAIN mac = 1..MBS, NEW n \in 1..MBS
  PROVE  SubSeq(XorBlock(s, mac, 0), 1, n) = [j \in 1..n |-> Xor(mac[j], s[j])]
<1> DEFINE w == [j \in 1..MBS |-> Xor(s[j], mac[j])]
           R == {Xor(s[j], mac[j]) : j \in 1..MBS}
           t == SubSeq(w, 0 + 1, n)
<1>1. XorBlock(s, mac, 0) = w
  BY Size, Xored
<1>2. w \in Seq(R) /\ Len(w) = MBS /\ \A j \in 1..MBS : w[j] = Xor(s[j], mac[j])
  <2>1. w \in [1..MBS -> R]
    OBVIOUS
  <2>2. \A j \in 1..MBS : w[j] = Xor(s[j], mac[j])
    OBVIOUS
  <2> HIDE DEF w, R
  <2>3. w \in Seq(R) /\ Len(w) = MBS
    BY <2>1, Size
  <2> QED BY <2>2, <2>3
<1> HIDE DEF w, R
<1>3. t \in Seq(R) /\ Len(t) = n - 0 /\ \A i \in 1..(n - 0) : t[i] = w[0 + i]
  <2>1. 0 \in Nat /\ n \in Nat /\ 0 <= n /\ n <= Len(w)
    BY <1>2, Size
  <2> HIDE DEF t
  <2> QED BY <1>2, <2>1, Part DEF t
<1>4. 0 + 1 = 1 /\ n - 0 = n /\ \A i \in 1..n : 0 + i = i /\ i \in 1..MBS
  BY Size
<1>5. SubSeq(w, 1, n) = t
  BY <1>4, Zenon
<1> HIDE DEF t
<1>6. \A i \in 1..n : t[i] = Xor(mac[i], s[i])
  <2>1. \A i \in 1..n : t[i] = Xor(s[i], mac[i])
    BY <1>2, <1>3, <1>4, Zenon
  <2> QED BY <2>1, XorCommutes, Zenon
<1>7. t = [j \in 1..n |-> Xor(mac[j], s[j])]
  <2> DEFINE u == [j \in 1..n |-> Xor(mac[j], s[j])]
  <2>1. DOMAIN t = 1..n /\ t = [i \in DOMAIN t |-> t[i]]
    BY <1>3, <1>4
  <2> QED BY <1>6, <2>1, Zenon
<1> QED BY <1>1, <1>5, <1>7, Zenon

\* The state of the promise, by its fields.
ViewOf(started, iv, adLen, hdrMsgLen, hdrTagLen, text, msgLen, tagLen) ==
  [started |-> started, iv |-> iv, adLen |-> adLen, hdrMsgLen |-> hdrMsgLen,
   hdrTagLen |-> hdrTagLen, text |-> text, msgLen |-> msgLen, tagLen |-> tagLen]

View == ViewOf(hist.started, ccmCtx.iv, hist.adLen, hist.hdrMsgLen, hist.hdrTagLen, hist.text,
               ccmCtx.msgLen, ccmCtx.tagLen)

\* The promise's state is that view.
LEMMA PromiseState ==
  /\ [started |-> hist.started, iv |-> ccmCtx.iv, adLen |-> hist.adLen,
      hdrMsgLen |-> hist.hdrMsgLen, hdrTagLen |-> hist.hdrTagLen, text |-> hist.text,
      msgLen |-> ccmCtx.msgLen, tagLen |-> ccmCtx.tagLen] = View
  /\ [started |-> hist.started, iv |-> ccmCtx.iv, adLen |-> hist.adLen,
      hdrMsgLen |-> hist.hdrMsgLen, hdrTagLen |-> hist.hdrTagLen, text |-> hist.text,
      msgLen |-> ccmCtx.msgLen, tagLen |-> ccmCtx.tagLen]' = View'
BY DEF View, ViewOf

\* The fields of a view.
LEMMA ViewFields ==
  ASSUME NEW st, NEW iv, NEW al, NEW hm, NEW ht, NEW tx, NEW ml, NEW tl
  PROVE  LET v == ViewOf(st, iv, al, hm, ht, tx, ml, tl)
         IN  /\ v.started = st /\ v.iv = iv /\ v.adLen = al /\ v.hdrMsgLen = hm /\ v.hdrTagLen = ht
             /\ v.text = tx /\ v.msgLen = ml /\ v.tagLen = tl
BY DEF ViewOf

\* What the steps of the promise set of it.
Lengthed(v, msgLen, tagLen) == [v EXCEPT !.msgLen = msgLen, !.tagLen = tagLen]
Dropped(v, started, msgLen, tagLen) ==
  [v EXCEPT !.started = started, !.text = <<>>, !.msgLen = msgLen, !.tagLen = tagLen]
Begun(v, started, iv, adLen, hdrMsgLen, hdrTagLen) ==
  [v EXCEPT !.started = started, !.iv = iv, !.adLen = adLen, !.text = <<>>,
            !.hdrMsgLen = hdrMsgLen, !.hdrTagLen = hdrTagLen]
Grown(v, text) == [v EXCEPT !.text = text]

\* The view after a change of the lengths.
LEMMA LengthedView ==
  ASSUME NEW st, NEW iv, NEW al, NEW hm, NEW ht, NEW tx, NEW ml, NEW tl, NEW m, NEW t
  PROVE  Lengthed(ViewOf(st, iv, al, hm, ht, tx, ml, tl), m, t) = ViewOf(st, iv, al, hm, ht, tx, m, t)
<1> DEFINE v == ViewOf(st, iv, al, hm, ht, tx, ml, tl)
           v1 == [v EXCEPT !.msgLen = m]
<1>1. v1 = ViewOf(st, iv, al, hm, ht, tx, m, tl)
  BY DEF ViewOf
<1>2. Lengthed(v, m, t) = [v1 EXCEPT !.tagLen = t]
  BY DEF Lengthed
<1> HIDE DEF v1, v
<1>3. [v1 EXCEPT !.tagLen = t] = ViewOf(st, iv, al, hm, ht, tx, m, t)
  BY <1>1 DEF ViewOf
<1> QED BY <1>2, <1>3, Zenon DEF v

\* The view after Init.
LEMMA DroppedView ==
  ASSUME NEW st, NEW iv, NEW al, NEW hm, NEW ht, NEW tx, NEW ml, NEW tl, NEW s, NEW m, NEW t
  PROVE  Dropped(ViewOf(st, iv, al, hm, ht, tx, ml, tl), s, m, t) = ViewOf(s, iv, al, hm, ht, <<>>, m, t)
<1> DEFINE e == <<>>
           v == ViewOf(st, iv, al, hm, ht, tx, ml, tl)
           v1 == [v EXCEPT !.started = s]
           v2 == [v1 EXCEPT !.text = e]
           v3 == [v2 EXCEPT !.msgLen = m]
           v4 == [v3 EXCEPT !.tagLen = t]
<1>1. Dropped(v, s, m, t) = v4
  BY DEF Dropped
<1> HIDE DEF e
<1>2. v1 = ViewOf(s, iv, al, hm, ht, tx, ml, tl)
  BY DEF ViewOf
<1> HIDE DEF v, v1
<1>3. v2 = ViewOf(s, iv, al, hm, ht, e, ml, tl)
  BY <1>2 DEF ViewOf
<1> HIDE DEF v2
<1>4. v3 = ViewOf(s, iv, al, hm, ht, e, m, tl)
  BY <1>3 DEF ViewOf
<1> HIDE DEF v3
<1>5. v4 = ViewOf(s, iv, al, hm, ht, e, m, t)
  BY <1>4 DEF ViewOf
<1> HIDE DEF v4
<1> QED BY <1>1, <1>5, Zenon DEF v, e

\* The view after Start.
LEMMA BegunView ==
  ASSUME NEW st, NEW iv, NEW al, NEW hm, NEW ht, NEW tx, NEW ml, NEW tl,
         NEW s, NEW i, NEW a, NEW m, NEW t
  PROVE  Begun(ViewOf(st, iv, al, hm, ht, tx, ml, tl), s, i, a, m, t) = ViewOf(s, i, a, m, t, <<>>, ml, tl)
<1> DEFINE e == <<>>
           v == ViewOf(st, iv, al, hm, ht, tx, ml, tl)
           v1 == [v EXCEPT !.started = s]
           v2 == [v1 EXCEPT !.iv = i]
           v3 == [v2 EXCEPT !.adLen = a]
           v4 == [v3 EXCEPT !.text = e]
           v5 == [v4 EXCEPT !.hdrMsgLen = m]
           v6 == [v5 EXCEPT !.hdrTagLen = t]
<1>1. Begun(v, s, i, a, m, t) = v6
  BY DEF Begun
<1> HIDE DEF e
<1>2. v1 = ViewOf(s, iv, al, hm, ht, tx, ml, tl)
  BY DEF ViewOf
<1> HIDE DEF v, v1
<1>3. v2 = ViewOf(s, i, al, hm, ht, tx, ml, tl)
  BY <1>2 DEF ViewOf
<1> HIDE DEF v2
<1>4. v3 = ViewOf(s, i, a, hm, ht, tx, ml, tl)
  BY <1>3 DEF ViewOf
<1> HIDE DEF v3
<1>5. v4 = ViewOf(s, i, a, hm, ht, e, ml, tl)
  BY <1>4 DEF ViewOf
<1> HIDE DEF v4
<1>6. v5 = ViewOf(s, i, a, m, ht, e, ml, tl)
  BY <1>5 DEF ViewOf
<1> HIDE DEF v5
<1>7. v6 = ViewOf(s, i, a, m, t, e, ml, tl)
  BY <1>6 DEF ViewOf
<1> HIDE DEF v6
<1> QED BY <1>1, <1>7, Zenon DEF v, e

\* The view after Encrypt and Decrypt.
LEMMA GrownView ==
  ASSUME NEW st, NEW iv, NEW al, NEW hm, NEW ht, NEW tx, NEW ml, NEW tl, NEW x
  PROVE  Grown(ViewOf(st, iv, al, hm, ht, tx, ml, tl), x) = ViewOf(st, iv, al, hm, ht, x, ml, tl)
BY DEF Grown, ViewOf

-----------------------------------------------------------------------------
(* Every call is a step of the promise.                                    *)

\* A refused call keeps the promise.
LEMMA Refused ==
  ASSUME NEW status, status # "ippStsNoErr", ccmOut' = CcmReturns(status), UNCHANGED <<ccmCtx, hist>>
  PROVE  Promise!Fail
<1>1. UNCHANGED View
  BY DEF View
<1> HIDE DEF View
<1>2. ccmOut'.ret # "ippStsNoErr" /\ ccmOut'.dst = <<>>
  BY DEF CcmReturns
<1> QED BY <1>1, <1>2, PromiseState, Zenon DEF Promise!Fail

\* Init drops the message and sets the lengths.
LEMMA CCMInitKeeps == ASSUME IInv, CCMInit PROVE Promise!SetLengths
<1> DEFINE no == FALSE
           yes == TRUE
<1>1. Context(ccmCtx) /\ History(hist)
  BY DEF IInv
<1>2. ccmCtx' = Cleared(ccmCtx, yes, 0, MIN_TAG) /\ hist' = Reset(hist, no, <<>>) /\ ccmOut' = [ret |-> "ippStsNoErr", dst |-> <<>>]
  BY DEF CCMInit, Cleared, Reset, CcmReturns
<1>3. no = FALSE
  OBVIOUS
<1> HIDE DEF no, yes
<1>4. ccmCtx' = ContextOf(yes, 0, ccmCtx.lenProcessed, MIN_TAG, ccmCtx.counterVal, ccmCtx.iv, ccmCtx.s0, ccmCtx.si,
                       ccmCtx.blk, ccmCtx.mac, ccmCtx.aesni)
  BY <1>1, <1>2, LengthsSet
<1>5. hist' = HistoryOf(no, hist.starts, hist.decrypt, hist.adLen, hist.hdrMsgLen, hist.hdrTagLen, <<>>)
  BY <1>1, <1>2, HistorySet
<1>6. ccmCtx'.iv = ccmCtx.iv
  BY <1>4, ContextFields
<1>7. hist'.started = no /\ hist'.adLen = hist.adLen /\ hist'.hdrMsgLen = hist.hdrMsgLen
      /\ hist'.hdrTagLen = hist.hdrTagLen /\ hist'.text = <<>>
  BY <1>5, HistoryFields
<1>8. View' = ViewOf(no, ccmCtx.iv, hist.adLen, hist.hdrMsgLen, hist.hdrTagLen, <<>>, ccmCtx'.msgLen, ccmCtx'.tagLen)
  BY <1>6, <1>7, Zenon DEF View
<1>9. View' = Dropped(View, no, ccmCtx'.msgLen, ccmCtx'.tagLen)
  BY <1>8, DroppedView DEF View
<1>10. View'.msgLen = ccmCtx'.msgLen /\ View'.tagLen = ccmCtx'.tagLen
  BY ViewFields DEF View
<1> HIDE DEF View
<1>11. View' = [View EXCEPT !.started = FALSE, !.text = <<>>, !.msgLen = View'.msgLen, !.tagLen = View'.tagLen]
  BY <1>3, <1>9, <1>10, Zenon DEF Dropped
<1> QED BY <1>2, <1>11, PromiseState, Zenon DEF Promise!SetLengths, Promise!Done

\* A change of the lengths alone.
LEMMA LengthsKeep ==
  ASSUME ccmCtx'.iv = ccmCtx.iv, UNCHANGED hist, ccmOut' = CcmReturns("ippStsNoErr")
  PROVE  Promise!SetLengths
<1>1. View' = ViewOf(hist.started, ccmCtx.iv, hist.adLen, hist.hdrMsgLen, hist.hdrTagLen, hist.text,
                     ccmCtx'.msgLen, ccmCtx'.tagLen)
  BY Zenon DEF View
<1>2. View' = Lengthed(View, ccmCtx'.msgLen, ccmCtx'.tagLen)
  BY <1>1, LengthedView DEF View
<1>3. View'.msgLen = ccmCtx'.msgLen /\ View'.tagLen = ccmCtx'.tagLen
  BY ViewFields DEF View
<1>4. ccmOut' = [ret |-> "ippStsNoErr", dst |-> <<>>]
  BY DEF CcmReturns
<1> HIDE DEF View
<1>5. View' = [View EXCEPT !.msgLen = View'.msgLen, !.tagLen = View'.tagLen]
  BY <1>2, <1>3, Zenon DEF Lengthed
<1> QED BY <1>4, <1>5, PromiseState, Zenon DEF Promise!SetLengths, Promise!Done

\* MessageLen is such a change, or refused.
LEMMA MessageLenKeeps ==
  ASSUME IInv, NEW m \in MsgLens, CCMMessageLen(m) PROVE Promise!Fail \/ Promise!SetLengths
<1>1. CASE ccmCtx.valid
  <2>1. Context(ccmCtx) /\ ccmCtx' = WithMsgLen(ccmCtx, m) /\ UNCHANGED hist /\ ccmOut' = CcmReturns("ippStsNoErr")
    BY <1>1 DEF IInv, CCMMessageLen, WithMsgLen
  <2>2. ccmCtx' = ContextOf(ccmCtx.valid, m, ccmCtx.lenProcessed, ccmCtx.tagLen, ccmCtx.counterVal, ccmCtx.iv, ccmCtx.s0,
                         ccmCtx.si, ccmCtx.blk, ccmCtx.mac, ccmCtx.aesni)
    BY <2>1, LengthsSet
  <2>3. ccmCtx'.iv = ccmCtx.iv
    BY <2>2, ContextFields
  <2> QED BY <2>1, <2>3, LengthsKeep, Zenon
<1>2. CASE ~ccmCtx.valid
  <2>1. ccmOut' = CcmReturns("ippStsContextMatchErr") /\ UNCHANGED <<ccmCtx, hist>>
    BY <1>2 DEF CCMMessageLen
  <2>2. "ippStsContextMatchErr" # "ippStsNoErr"
    OBVIOUS
  <2> QED BY <2>1, <2>2, Refused, Zenon
<1> QED BY <1>1, <1>2

\* So is TagLen, or it is refused.
LEMMA TagLenKeeps ==
  ASSUME IInv, NEW t \in TagLens, CCMTagLen(t) PROVE Promise!Fail \/ Promise!SetLengths
<1>1. CASE ccmCtx.valid /\ TagLenOk(t)
  <2>1. Context(ccmCtx) /\ ccmCtx' = WithTagLen(ccmCtx, t) /\ UNCHANGED hist /\ ccmOut' = CcmReturns("ippStsNoErr")
    BY <1>1 DEF IInv, CCMTagLen, WithTagLen
  <2>2. ccmCtx' = ContextOf(ccmCtx.valid, ccmCtx.msgLen, ccmCtx.lenProcessed, t, ccmCtx.counterVal, ccmCtx.iv, ccmCtx.s0,
                         ccmCtx.si, ccmCtx.blk, ccmCtx.mac, ccmCtx.aesni)
    BY <2>1, LengthsSet
  <2>3. ccmCtx'.iv = ccmCtx.iv
    BY <2>2, ContextFields
  <2> QED BY <2>1, <2>3, LengthsKeep, Zenon
<1>2. CASE ~(ccmCtx.valid /\ TagLenOk(t))
  <2>1. PICK status \in {"ippStsLengthErr", "ippStsContextMatchErr"} :
          ccmOut' = CcmReturns(status) /\ UNCHANGED <<ccmCtx, hist>>
    BY <1>2 DEF CCMTagLen
  <2>2. status # "ippStsNoErr"
    OBVIOUS
  <2> QED BY <2>1, <2>2, Refused, Zenon
<1> QED BY <1>1, <1>2

\* Start begins a message with the lengths of the moment, or is refused.
LEMMA StartKeeps ==
  ASSUME IInv, NEW iv \in Ivs, NEW adLen \in AdLens, NEW decrypt \in BOOLEAN, CCMStart(iv, adLen, decrypt)
  PROVE  Promise!Fail \/ Promise!Start(iv, adLen)
<1>1. CASE ccmCtx.valid /\ adLen >= 0
  <2> DEFINE yes == TRUE
             s == Cipher(Ctr(iv, 0))
             m == AdMac(Cipher(B0(adLen, ccmCtx.tagLen, ccmCtx.msgLen, iv)), Data("ad", 0, adLen))
  <2>1. Context(ccmCtx)
    BY DEF IInv
  <2>2. ccmCtx' = ContextOf(ccmCtx.valid, ccmCtx.msgLen, 0, ccmCtx.tagLen, 0, iv, s, ccmCtx.si, ccmCtx.blk, m, ccmCtx.aesni)
    BY <1>1, <2>1, StartSet DEF CCMStart
  <2>3. hist' = HistoryOf(yes, hist.starts + 1, decrypt, adLen, ccmCtx.msgLen, ccmCtx.tagLen, <<>>)
    BY <1>1 DEF CCMStart, HistoryOf
  <2>4. ccmOut' = [ret |-> "ippStsNoErr", dst |-> <<>>]
    BY <1>1 DEF CCMStart, CcmReturns
  <2>5. yes = TRUE
    OBVIOUS
  <2> HIDE DEF yes, s, m
  <2>6. ccmCtx'.iv = iv /\ ccmCtx'.msgLen = ccmCtx.msgLen /\ ccmCtx'.tagLen = ccmCtx.tagLen
    BY <2>2, ContextFields
  <2>7. hist'.started = yes /\ hist'.adLen = adLen /\ hist'.hdrMsgLen = ccmCtx.msgLen
        /\ hist'.hdrTagLen = ccmCtx.tagLen /\ hist'.text = <<>>
    BY <2>3, HistoryFields
  <2>8. View' = ViewOf(yes, iv, adLen, ccmCtx.msgLen, ccmCtx.tagLen, <<>>, ccmCtx.msgLen, ccmCtx.tagLen)
    BY <2>6, <2>7, Zenon DEF View
  <2>9. View' = Begun(View, yes, iv, adLen, ccmCtx.msgLen, ccmCtx.tagLen)
    BY <2>8, BegunView DEF View
  <2>10. View.msgLen = ccmCtx.msgLen /\ View.tagLen = ccmCtx.tagLen
    BY ViewFields DEF View
  <2> HIDE DEF View
  <2>11. View' = [View EXCEPT !.started = TRUE, !.iv = iv, !.adLen = adLen, !.text = <<>>,
                              !.hdrMsgLen = View.msgLen, !.hdrTagLen = View.tagLen]
    BY <2>5, <2>9, <2>10, Zenon DEF Begun
  <2> QED BY <2>4, <2>11, PromiseState, Zenon DEF Promise!Start, Promise!Done
<1>2. CASE ~(ccmCtx.valid /\ adLen >= 0)
  <2>1. PICK status \in {"ippStsLengthErr", "ippStsContextMatchErr"} :
          ccmOut' = CcmReturns(status) /\ UNCHANGED <<ccmCtx, hist>>
    BY <1>2 DEF CCMStart
  <2>2. status # "ippStsNoErr"
    OBVIOUS
  <2> QED BY <2>1, <2>2, Refused, Zenon
<1> QED BY <1>1, <1>2

\* The promise's key stream.
LEMMA SameStream ==
  ASSUME NEW iv, NEW first, NEW n
  PROVE  Promise!KeyStream(iv, first, n) = [j \in 1..n |-> KeyByte(iv, first, j)]
BY SameOperators, Zenon DEF Promise!KeyStream, KeyByte

\* Encrypt and Decrypt process the next bytes of the message, within its length, or are refused.
LEMMA CryptKeeps ==
  ASSUME IInv, CALLER_FITS, NEW len \in CcmCallLens, CCMCrypt(len)
  PROVE  \/ Promise!Fail \/ Promise!Unstarted
         \/ len \in Nat /\ Promise!Crypt(hist.decrypt, len)
<1> HIDE DEF Promise!Fail
<1> DEFINE src == Data("txt", Len(hist.text), len)
           p == Process(ccmCtx, hist.decrypt, src)
<1>1. CASE CryptStatus(ccmCtx, len) = "ippStsNoErr"
  <2>1. /\ len \in Nat /\ hist.text \in Seq(Byte) /\ hist.decrypt \in BOOLEAN /\ Context(ccmCtx)
        /\ src \in Seq(Byte) /\ Len(src) = len /\ ccmCtx.lenProcessed + len <= ccmCtx.msgLen
    BY <1>1, CallPasses
  <2>2. /\ flag(ccmCtx) # 0 => flag(ccmCtx) + len <= MBS
        /\ ccmCtx.aesni => Len(hist.text) + len <= ccmCtx.msgLen
        /\ ccmCtx' = p.ctx
        /\ hist' = IF hist.started THEN WithText(hist, hist.text \o p.plain) ELSE hist
        /\ ccmOut' = [ret |-> "ippStsNoErr", dst |-> p.dst]
    BY <1>1 DEF CCMCrypt, Fits, WithText, Wrote
  <2>3. Promise!Data("txt", Len(hist.text), len) = src
    BY SameOperators
  <2> HIDE DEF src
  <2>4. flag(ccmCtx) # 0 => flag(ccmCtx) + Len(src) <= MBS
    BY <2>1, <2>2, Zenon
  <2>5. p.ctx.iv = ccmCtx.iv /\ p.ctx.msgLen = ccmCtx.msgLen /\ p.ctx.tagLen = ccmCtx.tagLen
    BY <2>1, <2>4, ProcessExtends
  <2>6. CASE ~hist.started
    <3>1. View' = View
      BY <2>2, <2>5, <2>6, Zenon DEF View
    <3>2. ~View.started
      BY <2>6, ViewFields DEF View
    <3> HIDE DEF View
    <3> QED BY <3>1, <3>2, PromiseState, Zenon DEF Promise!Unstarted
  <2>7. CASE hist.started
    <3> DEFINE new == hist.text \o p.plain
               first == Len(hist.text)
    <3>1. InMessage(ccmCtx, Header(hist, ccmCtx.iv), hist.text)
      BY <2>7, Zenon DEF IInv, InProgress
    <3>2. /\ p.dst = [j \in 1..Len(src) |-> Xor(src[j], KeyByte(ccmCtx.iv, first, j))]
          /\ p.plain = IF hist.decrypt THEN p.dst ELSE src
      <4> DEFINE h0 == Header(hist, ccmCtx.iv)
                 t0 == hist.text
                 d0 == hist.decrypt
      <4>1. InMessage(ccmCtx, h0, t0) /\ t0 \in Seq(Byte) /\ d0 \in BOOLEAN
        BY <2>1, <3>1
      <4> HIDE DEF h0, t0
      <4>2. LET q == Process(ccmCtx, d0, src)
            IN  /\ q.dst = [j \in 1..Len(src) |-> Xor(src[j], KeyByte(ccmCtx.iv, Len(t0), j))]
                /\ q.plain = IF d0 THEN q.dst ELSE src
        BY <2>1, <2>4, <4>1, OutputIsStream, SMTT(60)
      <4> QED BY <4>2, Zenon DEF t0
    <3>3. /\ hist'.started = hist.started /\ hist'.adLen = hist.adLen /\ hist'.hdrMsgLen = hist.hdrMsgLen
          /\ hist'.hdrTagLen = hist.hdrTagLen /\ hist'.text = new
      <4> HIDE DEF new, p
      <4> DEFINE h == HistoryOf(hist.started, hist.starts, hist.decrypt, hist.adLen, hist.hdrMsgLen,
                                hist.hdrTagLen, new)
      <4>1. History(hist) /\ hist' = WithText(hist, new)
        BY <2>2, <2>7 DEF IInv, new
      <4>2. hist' = h
        BY <4>1, HistorySet
      <4>3. h.started = hist.started /\ h.adLen = hist.adLen /\ h.hdrMsgLen = hist.hdrMsgLen
            /\ h.hdrTagLen = hist.hdrTagLen /\ h.text = new
        BY ONLY HistoryFields
      <4> HIDE DEF h
      <4> QED BY <4>2, <4>3, Zenon
    <3>4. View' = ViewOf(hist.started, ccmCtx.iv, hist.adLen, hist.hdrMsgLen, hist.hdrTagLen, new,
                         ccmCtx.msgLen, ccmCtx.tagLen)
      <4> HIDE DEF new, p
      <4> QED BY <2>2, <2>5, <3>3, Zenon DEF View
    <3>5. View' = Grown(View, new)
      <4> HIDE DEF new, p
      <4> QED BY <3>4, GrownView DEF View
    <3>6. View.started = hist.started /\ View.iv = ccmCtx.iv /\ View.text = hist.text /\ View.msgLen = ccmCtx.msgLen
      BY ONLY ViewFields DEF View
    <3>7. first + len <= ccmCtx.msgLen
      <4>1. ~ccmCtx.aesni => ccmCtx.lenProcessed = first
        BY <3>1, Zenon DEF InMessage
      <4> QED BY <2>1, <2>2, <4>1, Zenon
    <3> DEFINE psrc == Promise!Data("txt", Len(View.text), len)
               ks == Promise!KeyStream(View.iv, Len(View.text), len)
               dst == [j \in 1..len |-> Promise!Xor(psrc[j], ks[j])]
    <3>8. psrc = src /\ ks = [j \in 1..len |-> KeyByte(ccmCtx.iv, first, j)]
      BY <2>3, <3>6, SameStream, Zenon
    <3>9. dst = p.dst
      <4>1. dst = [j \in 1..len |-> Xor(src[j], KeyByte(ccmCtx.iv, first, j))]
        <5> HIDE DEF psrc, ks
        <5>1. \A j \in 1..len : ks[j] = KeyByte(ccmCtx.iv, first, j)
          BY <3>8, Zenon
        <5> QED BY <3>8, <5>1, SameOperators, Zenon
      <4> HIDE DEF dst, p
      <4> QED BY <2>1, <3>2, <4>1, Zenon
    <3> HIDE DEF p, View
    <3>10. View' = [View EXCEPT !.text = View.text \o (IF hist.decrypt THEN dst ELSE psrc)]
      <4> HIDE DEF dst, psrc
      <4> QED BY <3>2, <3>5, <3>6, <3>8, <3>9, Zenon DEF Grown, new
    <3>11. ccmOut' = [ret |-> "ippStsNoErr", dst |-> dst]
      <4> HIDE DEF dst, psrc
      <4> QED BY <2>2, <3>9, Zenon
    <3>12. View.started /\ Len(View.text) + len <= View.msgLen
      BY <2>7, <3>6, <3>7, Zenon
    <3>13. Promise!Crypt(hist.decrypt, len)
      BY <3>10, <3>11, <3>12, PromiseState, Zenon DEF Promise!Crypt, Promise!Done
    <3> QED BY <2>1, <3>13
  <2> QED BY <2>6, <2>7
<1>2. CASE CryptStatus(ccmCtx, len) # "ippStsNoErr"
  <2>1. ccmOut' = CcmReturns(CryptStatus(ccmCtx, len)) /\ UNCHANGED <<ccmCtx, hist>>
    BY <1>2 DEF CCMCrypt
  <2> QED BY <1>2, <2>1, Refused
<1> QED BY <1>1, <1>2

\* GetTag gives the tag of the message so far, or is refused.
LEMMA GetTagKeeps ==
  ASSUME IInv, NEW t \in TagLens, CCMGetTag(t)
  PROVE  Promise!Fail \/ Promise!Unstarted \/ (t \in 1..MBS /\ Promise!GetTag(t))
<1> HIDE DEF Promise!Fail
<1>1. CASE ccmCtx.valid /\ t \in 1..ccmCtx.tagLen
  <2> DEFINE pending == CopyBlock(SubSeq(ccmCtx.blk, 1, flag(ccmCtx)), ZeroBlock(MBS), 0)
             mac == IF flag(ccmCtx) # 0 THEN CbcMac(ccmCtx.mac, <<pending>>) ELSE ccmCtx.mac
             tag == SubSeq(XorBlock(ccmCtx.s0, mac, 0), 1, t)
  <2>1. UNCHANGED <<ccmCtx, hist>> /\ ccmOut' = [ret |-> "ippStsNoErr", dst |-> tag]
    BY <1>1 DEF CCMGetTag, Wrote
  <2>2. View' = View
    BY <2>1 DEF View
  <2>3. View.started = hist.started /\ View.iv = ccmCtx.iv /\ View.adLen = hist.adLen
        /\ View.hdrMsgLen = hist.hdrMsgLen /\ View.hdrTagLen = hist.hdrTagLen
        /\ View.text = hist.text /\ View.tagLen = ccmCtx.tagLen
    BY ONLY ViewFields DEF View
  <2> HIDE DEF View, tag
  <2>4. CASE ~hist.started
    BY <2>2, <2>3, <2>4, PromiseState, Zenon DEF Promise!Unstarted
  <2>5. CASE hist.started
    <3> DEFINE text == hist.text
               start == Header(hist, ccmCtx.iv)
               z == ZeroBlock(MBS)
               s == Cipher(Ctr(ccmCtx.iv, 0))
               bs == HeaderBlocks(hist, ccmCtx.iv) \o ZeroPadded(text, MBS)
    <3>1. /\ Context(ccmCtx) /\ InMessage(ccmCtx, start, text) /\ text \in Seq(Byte) /\ ccmCtx.s0 = s
          /\ hist.adLen \in Nat
      BY <2>5, Zenon DEF IInv, InProgress, History
    <3>2. t \in 1..MBS /\ t <= ccmCtx.tagLen
      <4>1. ccmCtx.tagLen \in MIN_TAG..MBS
        BY <3>1 DEF Context
      <4> QED BY <1>1, <4>1, CcmAssumption
    <3>3. mac = CbcMac(start, ZeroPadded(text, MBS))
      <4> HIDE DEF start, text
      <4> QED BY <3>1, FinalMac
    <3>4. CbcMac(start, ZeroPadded(text, MBS)) = CbcMac(z, bs)
      BY <3>1, MacOfMessage, Zenon
    <3>5. MacValue(mac)
      <4> DEFINE w == ZeroPadded(text, MBS)
      <4>1. w \in Seq(Block)
        BY <3>1, PaddedBlocks
      <4>2. MacValue(ccmCtx.mac)
        BY <3>1 DEF Context
      <4>3. <<pending>> \in Seq({pending})
        BY SMT
      <4> HIDE DEF pending
      <4>4. MacValue(CbcMac(ccmCtx.mac, <<pending>>))
        BY <4>2, <4>3, MacStaysValue
      <4> QED BY <4>2, <4>4, Zenon
    <3> HIDE DEF mac, bs, z
    <3>6. tag = [j \in 1..t |-> Xor(mac[j], s[j])]
      <4>1. Len(s) = MBS
        BY OutputSize
      <4>2. DOMAIN mac = 1..MBS
        BY <3>5, MacSize
      <4> HIDE DEF s
      <4>3. SubSeq(XorBlock(s, mac, 0), 1, t) = [j \in 1..t |-> Xor(mac[j], s[j])]
        BY <3>2, <4>1, <4>2, TagBytes
      <4> QED BY <3>1, <4>3, Zenon DEF tag
    <3>7. Promise!MacBlocks(View) = bs
      <4>1. Promise!MacBlocks(View)
              = <<B0(hist.adLen, hist.hdrTagLen, hist.hdrMsgLen, ccmCtx.iv)>>
                  \o (IF hist.adLen = 0 THEN <<>>
                      ELSE ZeroPadded(AdLenEnc(hist.adLen) \o Data("ad", 0, hist.adLen), MBS))
                  \o ZeroPadded(hist.text, MBS)
        BY <2>3, SameOperators, Zenon DEF Promise!MacBlocks
      <4> QED BY <4>1, Zenon DEF bs, HeaderBlocks
    <3>8. Promise!Tag(View, t) = tag
      <4>1. Promise!CbcMac(Promise!ZeroBlock(MBS), Promise!MacBlocks(View)) = mac
        BY <3>3, <3>4, <3>7, SameMac, SameOperators, Zenon DEF z
      <4>2. Promise!Cipher(Promise!Ctr(View.iv, 0)) = s
        BY <2>3, SameOperators, Zenon
      <4> HIDE DEF s
      <4>3. Promise!Tag(View, t) = [j \in 1..t |-> Promise!Xor(mac[j], s[j])]
        BY <4>1, <4>2, Zenon DEF Promise!Tag
      <4> QED BY <3>6, <4>3, SameOperators, Zenon
    <3>9. Promise!GetTag(t)
      BY <2>1, <2>2, <2>3, <2>5, <3>2, <3>8, PromiseState, Zenon DEF Promise!GetTag, Promise!Done
    <3> QED BY <3>2, <3>9
  <2> QED BY <2>4, <2>5
<1>2. CASE ~(ccmCtx.valid /\ t \in 1..ccmCtx.tagLen)
  <2>1. PICK status \in {"ippStsLengthErr", "ippStsContextMatchErr"} :
          ccmOut' = CcmReturns(status) /\ UNCHANGED <<ccmCtx, hist>>
    BY <1>2 DEF CCMGetTag
  <2>2. status # "ippStsNoErr"
    OBVIOUS
  <2> QED BY <2>1, <2>2, Refused, Zenon
<1> QED BY <1>1, <1>2

\* At first no message is started.
LEMMA InitKeeps == ASSUME CcmInit PROVE Promise!Init
<1>1. hist.started = FALSE /\ hist.text = <<>> /\ ccmOut = [ret |-> "ippStsNoErr", dst |-> <<>>]
  BY DEF CcmInit, NoMessage, CcmReturns
<1>2. View.started = hist.started /\ View.text = hist.text
  BY ONLY ViewFields DEF View
<1> HIDE DEF View
<1> QED BY <1>1, <1>2, PromiseState, Zenon DEF Promise!Init

\* Every call is a step of the promise, or a stutter.
LEMMA NextKeeps == ASSUME IInv, CALLER_FITS, [CcmNext]_ccmVars PROVE [Promise!Next]_(Promise!vars)
<1> HIDE DEF IInv, Promise!Fail, Promise!SetLengths, Promise!Unstarted, Promise!Start, Promise!Crypt,
             Promise!GetTag
<1>1. ASSUME CCMInit PROVE Promise!Next
  BY <1>1, CCMInitKeeps DEF Promise!Next
<1>2. ASSUME NEW m \in MsgLens, CCMMessageLen(m) PROVE Promise!Next
  BY <1>2, MessageLenKeeps DEF Promise!Next
<1>3. ASSUME NEW t \in TagLens, CCMTagLen(t) PROVE Promise!Next
  BY <1>3, TagLenKeeps DEF Promise!Next
<1>4. ASSUME NEW t \in TagLens, CCMGetTag(t) PROVE Promise!Next
  BY <1>4, GetTagKeeps DEF Promise!Next
<1>5. ASSUME NEW iv \in Ivs, NEW adLen \in AdLens, NEW decrypt \in BOOLEAN, CCMStart(iv, adLen, decrypt)
      PROVE  Promise!Next
  BY <1>5, StartKeeps DEF Promise!Next
<1>6. ASSUME NEW len \in CcmCallLens, CCMCrypt(len) PROVE Promise!Next
  <2>1. CASE len \in Nat /\ Promise!Crypt(hist.decrypt, len)
    <3>1. hist.decrypt \in BOOLEAN /\ len \in CcmCallLens \cap Nat
      BY <2>1, Zenon DEF IInv, History
    <3> QED BY <2>1, <3>1 DEF Promise!Next
  <2>2. CASE Promise!Fail \/ Promise!Unstarted
    BY <2>2 DEF Promise!Next
  <2> QED BY <1>6, <2>1, <2>2, CryptKeeps
<1>7. CASE UNCHANGED ccmVars
  <2>1. UNCHANGED View /\ UNCHANGED ccmOut
    BY <1>7 DEF ccmVars, View
  <2> HIDE DEF View
  <2> QED BY <2>1, PromiseState, Zenon DEF Promise!vars
<1>8. CASE CcmNext
  BY <1>1, <1>2, <1>3, <1>4, <1>5, <1>6, <1>8 DEF CcmNext
<1> QED BY <1>7, <1>8

\* Whatever calls a message comes in, every output byte is under its own byte of the key stream and
\* every tag is the CBC MAC of the header, the associated data and the text so far: ImplementsCCM,
\* for every block size, IV, length of message, text and associated data, as long as the caller
\* avoids the calls of the findings.
THEOREM Implements == ASSUME CALLER_FITS PROVE CcmSpec => ImplementsCCM
<1>1. CcmInit => Promise!Init
  BY InitKeeps
<1>2. IInv /\ [CcmNext]_ccmVars => [Promise!Next]_(Promise!vars)
  BY NextKeeps
<1> HIDE DEF Promise!Init, Promise!Next, Promise!vars
<1> QED BY <1>1, <1>2, Invariance, PTL DEF CcmSpec, Promise!Spec, ImplementsCCM
=============================================================================
