-------------------------- MODULE Symmetric_proofs --------------------------
(***************************************************************************)
(* Proofs about the AES-CMAC context, for every block size, set of call    *)
(* lengths and length of message; about the batches of SM3 in the mb16     *)
(* form, for every number of lanes and size of block; and about AES-SIV,   *)
(* for every size of block, set of strings and length of list.             *)
(***************************************************************************)
EXTENDS AES_CMAC, SM3_mb, AES_SIV, BlockLemmas, SequenceTheorems

\* A byte is of the message or what the buffer held before.
Byte == {{<<"in", k>>} : k \in Nat} \cup {{<<"found", k>>} : k \in Nat}
Block == [1..BLOCK_SIZE -> Byte]

\* mac is the first Len(mac) blocks of the message.
Chained(mac) ==
  \A i \in 1..Len(mac) : \A j \in 1..BLOCK_SIZE : mac[i][j] = {<<"in", (i - 1) * BLOCK_SIZE + j>>}

\* The bytes s are those of the message from the byte n+1 on.
Continues(s, n) == \A i \in 1..Len(s) : s[i] = {<<"in", n + i>>}

TypeInv ==
  /\ idCtx \in BOOLEAN /\ index \in 0..BLOCK_SIZE /\ mBuffer \in Block
  /\ mMAC \in Seq(Block) /\ key \in GoodKeyLens \cup {0} /\ len \in 0..MAX_MSG

\* The inductive invariant.
IInv == TypeInv /\ InStep

-----------------------------------------------------------------------------
(* Lengths.                                                                *)

\* What the assumption says of the sizes.
LEMMA Constants ==
  /\ BLOCK_SIZE \in Nat \ {0} /\ MAX_MSG \in Nat
  /\ CallLens \subseteq Int /\ KeyLens \subseteq Int
  BY CmacAssumption

\* What is processed of n bytes is whole blocks, and leaves a block or less.
LEMMA ProcessedBlocks ==
  ASSUME NEW n \in Nat \ {0}
  PROVE  \E q \in Nat : Processed(n) = q * BLOCK_SIZE /\ n - Processed(n) \in 1..BLOCK_SIZE
<1> USE Constants
<1> DEFINE q == n \div BLOCK_SIZE
           r == n % BLOCK_SIZE
<1>1. r \in 0..(BLOCK_SIZE - 1) /\ q \in Nat /\ n = BLOCK_SIZE * q + r
  BY DivMod
<1>2. Processed(n) = IF r = 0 THEN n - r - BLOCK_SIZE ELSE n - r
  BY DEF Processed
<1> HIDE DEF q, r
<1>3. CASE r = 0
  <2>1. q # 0
    BY <1>1, <1>3, SMT
  <2>2. Processed(n) = (q - 1) * BLOCK_SIZE /\ n - Processed(n) = BLOCK_SIZE
    BY <1>1, <1>2, <1>3, SMT
  <2> DEFINE p == q - 1
  <2>3. p \in Nat /\ BLOCK_SIZE \in 1..BLOCK_SIZE
    BY <1>1, <2>1
  <2>4. Processed(n) = p * BLOCK_SIZE /\ n - Processed(n) \in 1..BLOCK_SIZE
    BY <2>2, <2>3
  <2> HIDE DEF p
  <2> QED BY <2>3, <2>4, Zenon
<1>4. CASE r # 0
  <2>1. Processed(n) = q * BLOCK_SIZE /\ n - Processed(n) = r
    BY <1>1, <1>2, <1>4, SMT
  <2>2. r \in 1..BLOCK_SIZE /\ q \in Nat
    BY <1>1, <1>4
  <2>3. n - Processed(n) \in 1..BLOCK_SIZE
    BY <2>1, <2>2
  <2> QED BY <2>1, <2>2, <2>3, Zenon
<1> QED BY <1>3, <1>4

\* The place of a byte of one of q blocks.
LEMMA Place ==
  ASSUME NEW q \in Nat, NEW i \in 1..q, NEW j \in 1..BLOCK_SIZE
  PROVE  (i - 1) * BLOCK_SIZE + j \in 1..(q * BLOCK_SIZE)
<1> USE Constants
<1>1. (q - i) * BLOCK_SIZE >= 0 /\ (i - 1) * BLOCK_SIZE >= 0
  BY SMT
<1>2. (q - i) * BLOCK_SIZE = q * BLOCK_SIZE - i * BLOCK_SIZE
  BY SMT
<1>3. (i - 1) * BLOCK_SIZE = i * BLOCK_SIZE - BLOCK_SIZE
  BY SMT
<1> QED BY <1>1, <1>2, <1>3, SMT

\* Whole blocks hold as many blocks.
LEMMA Quotient ==
  ASSUME NEW q \in Nat
  PROVE  (q * BLOCK_SIZE) \div BLOCK_SIZE = q
<1>1. BLOCK_SIZE * q + 0 = q * BLOCK_SIZE /\ 0 \in 0..(BLOCK_SIZE - 1)
  BY Constants, SMT
<1> QED BY <1>1, Constants, DivModOfSplit

-----------------------------------------------------------------------------
(* Update.                                                                 *)

\* Whole blocks of bytes that continue the message continue the chain.
LEMMA ProcessingExtends ==
  ASSUME NEW mac \in Seq(Block), Chained(mac), NEW src \in Seq(Byte), NEW q \in Nat,
         q * BLOCK_SIZE <= Len(src), Continues(src, Len(mac) * BLOCK_SIZE)
  PROVE  LET new == Processing(mac, src, q * BLOCK_SIZE)
         IN  new \in Seq(Block) /\ Len(new) = Len(mac) + q /\ Chained(new)
<1> USE Constants
<1> DEFINE blocks == [i \in 1..q |-> [j \in 1..BLOCK_SIZE |-> src[(i - 1) * BLOCK_SIZE + j]]]
           new == mac \o blocks
<1>1. Processing(mac, src, q * BLOCK_SIZE) = new
  BY Quotient DEF Processing
<1>2. ASSUME NEW i \in 1..q, NEW j \in 1..BLOCK_SIZE
      PROVE  /\ (i - 1) * BLOCK_SIZE + j \in 1..Len(src)
             /\ src[(i - 1) * BLOCK_SIZE + j] \in Byte
             /\ src[(i - 1) * BLOCK_SIZE + j] = {<<"in", (Len(mac) + i - 1) * BLOCK_SIZE + j>>}
  <2> DEFINE p == (i - 1) * BLOCK_SIZE + j
  <2>1. p \in 1..(q * BLOCK_SIZE)
    BY Place
  <2>2. p \in 1..Len(src)
    <3>1. q * BLOCK_SIZE \in Nat /\ Len(src) \in Nat
      BY SMT
    <3> HIDE DEF p
    <3> QED BY <2>1, <3>1
  <2>3. src[p] = {<<"in", Len(mac) * BLOCK_SIZE + p>>} /\ src[p] \in Byte
    BY <2>2 DEF Continues
  <2>4. Len(mac) * BLOCK_SIZE + p = (Len(mac) + i - 1) * BLOCK_SIZE + j
    BY SMT
  <2> QED BY <2>2, <2>3, <2>4
<1>3. blocks \in Seq(Block) /\ Len(blocks) = q
  <2>1. ASSUME NEW i \in 1..q
        PROVE  [j \in 1..BLOCK_SIZE |-> src[(i - 1) * BLOCK_SIZE + j]] \in Block
    BY <1>2 DEF Block
  <2>2. blocks \in [1..q -> Block]
    BY <2>1
  <2> HIDE DEF blocks
  <2> QED BY <2>2, SMT
<1>8. ASSUME NEW i \in 1..q, NEW j \in 1..BLOCK_SIZE
      PROVE  blocks[i][j] = src[(i - 1) * BLOCK_SIZE + j]
  OBVIOUS
<1> HIDE DEF blocks
<1>4. new \in Seq(Block) /\ Len(new) = Len(mac) + q
  BY <1>3, ConcatProperties
<1>5. ASSUME NEW i \in 1..Len(new), NEW j \in 1..BLOCK_SIZE
      PROVE  new[i][j] = {<<"in", (i - 1) * BLOCK_SIZE + j>>}
  <2>1. CASE i <= Len(mac)
    <3>1. i \in 1..Len(mac) /\ new[i] = mac[i]
      BY <1>3, <2>1, ConcatProperties
    <3> QED BY <3>1 DEF Chained
  <2>2. CASE i > Len(mac)
    <3>1. new[i] = blocks[i - Len(mac)] /\ i - Len(mac) \in 1..q
      BY <1>3, <1>4, <2>2, ConcatProperties
    <3> DEFINE k == i - Len(mac)
    <3>2. new[i][j] = src[(k - 1) * BLOCK_SIZE + j]
      BY <1>8, <3>1
    <3>3. src[(k - 1) * BLOCK_SIZE + j] = {<<"in", (Len(mac) + k - 1) * BLOCK_SIZE + j>>}
      BY <1>2, <3>1
    <3>4. Len(mac) + k - 1 = i - 1
      BY <3>1
    <3> QED BY <3>2, <3>3, <3>4
  <2> QED BY <2>1, <2>2, <1>4
<1> QED BY <1>1, <1>4, <1>5 DEF Chained

\* The lengths of the parts of an update that goes beyond the pending block.
LEMMA PendingBlock ==
  ASSUME TypeInv, NEW n \in Nat \ {0}
  PROVE  /\ ToBuffer(n) \in 0..n /\ index + ToBuffer(n) \in 0..BLOCK_SIZE
         /\ ToBuffer(n) # n => index + ToBuffer(n) \in {0, BLOCK_SIZE}
         /\ index + ToBuffer(n) = 0 <=> index = 0
  BY Constants DEF TypeInv, ToBuffer, IPP_MIN

\* The bytes of an update are the next bytes of the message.
LEMMA CallerBytes ==
  ASSUME NEW k \in Nat, NEW n \in Nat
  PROVE  LET src == Data("in", k, n)
         IN  src \in Seq(Byte) /\ Len(src) = n /\ Continues(src, k)
<1> DEFINE src == Data("in", k, n)
<1>1. \A i \in 1..n : src[i] = {<<"in", k + i>>} /\ k + i \in Nat
  BY DEF Data
<1>2. src \in [1..n -> Byte]
  BY <1>1 DEF Data, Byte
<1> HIDE DEF src
<1>3. src \in Seq(Byte) /\ Len(src) = n
  BY <1>2, SMT
<1>4. Continues(src, k)
  BY <1>1, <1>3 DEF Continues
<1> QED BY <1>3, <1>4 DEF src

\* A part of bytes that continue the message continues it from further on.
LEMMA PartContinues ==
  ASSUME NEW src \in Seq(Byte), NEW k \in Nat, Continues(src, k),
         NEW a \in Nat, NEW b \in Nat, a <= b, b <= Len(src)
  PROVE  LET part == SubSeq(src, a + 1, b)
         IN  part \in Seq(Byte) /\ Len(part) = b - a /\ Continues(part, k + a)
<1> DEFINE part == SubSeq(src, a + 1, b)
<1>1. part \in Seq(Byte) /\ Len(part) = b - a
  BY SubSeqProperties
<1>2. \A i \in 1..(b - a) : part[i] = src[a + i] /\ a + i \in 1..Len(src)
  BY SMT
<1>3. \A i \in 1..(b - a) : part[i] = {<<"in", k + a + i>>}
  BY <1>2 DEF Continues
<1> QED BY <1>1, <1>3 DEF Continues

\* Copying bytes into a block.
LEMMA Copied ==
  ASSUME NEW s \in Seq(Byte), NEW blk \in Block, NEW off \in Nat, off + Len(s) <= BLOCK_SIZE
  PROVE  LET new == CopyBlock(s, blk, off)
         IN  /\ new \in Block
             /\ \A j \in 1..off : new[j] = blk[j]
             /\ \A j \in 1..Len(s) : new[off + j] = s[j]
<1> USE Constants
<1>1. DOMAIN blk = 1..BLOCK_SIZE
  BY DEF Block
<1>2. ASSUME NEW j \in 1..BLOCK_SIZE
      PROVE  (IF j \in (off + 1)..(off + Len(s)) THEN s[j - off] ELSE blk[j]) \in Byte
  <2>1. CASE j \in (off + 1)..(off + Len(s))
    <3>1. j - off \in 1..Len(s)
      BY <2>1
    <3> QED BY <2>1, <3>1
  <2>2. CASE j \notin (off + 1)..(off + Len(s))
    BY <2>2 DEF Block
  <2> QED BY <2>1, <2>2
<1>3. CopyBlock(s, blk, off) \in Block
  BY <1>1, <1>2 DEF CopyBlock, Block
<1>4. \A j \in 1..off : CopyBlock(s, blk, off)[j] = blk[j]
  BY <1>1 DEF CopyBlock
<1>5. \A j \in 1..Len(s) : CopyBlock(s, blk, off)[off + j] = s[j]
  BY <1>1 DEF CopyBlock
<1> QED BY <1>3, <1>4, <1>5

-----------------------------------------------------------------------------
(* The invariant is preserved by Absorb.                                   *)

\* The parts of an update as Absorb names them.
First(n) == ToBuffer(n)
Filled(src) == CopyBlock(SubSeq(src, 1, First(Len(src))), mBuffer, index)
Rest(src) == SubSeq(src, First(Len(src)) + 1, Len(src))
Mac(src) == IF index + First(Len(src)) = BLOCK_SIZE THEN Append(mMAC, Filled(src)) ELSE mMAC

\* Update in its parts: the first bytes fill the buffer, whole blocks follow, a rest stays.
LEMMA AbsorbParts ==
  ASSUME NEW src
  PROVE  Absorb(src) <=>
           IF Rest(src) = <<>>
           THEN index' = index + First(Len(src)) /\ mBuffer' = Filled(src) /\ UNCHANGED mMAC
           ELSE LET m == Processed(Len(Rest(src)))
                IN  /\ mMAC' = Processing(Mac(src), Rest(src), m)
                    /\ mBuffer' = CopyBlock(SubSeq(Rest(src), m + 1, Len(Rest(src))), Filled(src), 0)
                    /\ index' = Len(Rest(src)) - m
  BY DEF Absorb, First, Filled, Rest, Mac

\* The buffer after the first part holds the message from the last whole block on.
LEMMA FilledContinues ==
  ASSUME IInv, NEW src \in Seq(Byte), Len(src) # 0, Continues(src, len)
  PROVE  /\ Filled(src) \in Block
         /\ \A j \in 1..(index + First(Len(src))) :
              Filled(src)[j] = {<<"in", Len(mMAC) * BLOCK_SIZE + j>>}
<1> USE Constants DEF IInv, TypeInv
<1> DEFINE n == Len(src)
           f == First(n)
           part == SubSeq(src, 1, f)
<1>1. n \in Nat \ {0}
  BY SMT
<1>2. f \in 0..n /\ index + f \in 0..BLOCK_SIZE
  BY <1>1, PendingBlock DEF First
<1>3. part \in Seq(Byte) /\ Len(part) = f /\ Continues(part, len + 0)
  <2>1. 0 \in Nat /\ f \in Nat /\ 0 <= f /\ f <= Len(src) /\ len \in Nat
    BY <1>2, <1>1
  <2> HIDE DEF f
  <2>2. LET p == SubSeq(src, 0 + 1, f)
        IN  p \in Seq(Byte) /\ Len(p) = f - 0 /\ Continues(p, len + 0)
    BY <2>1, PartContinues
  <2>3. 0 + 1 = 1 /\ f - 0 = f
    BY <2>1
  <2> QED BY <2>2, <2>3
<1>4. index \in Nat /\ index + Len(part) <= BLOCK_SIZE /\ mBuffer \in Block
  BY <1>2, <1>3
<1>5. Filled(src) = CopyBlock(part, mBuffer, index)
  BY DEF Filled
<1> HIDE DEF part, f, n
<1>6. /\ Filled(src) \in Block
      /\ \A j \in 1..index : Filled(src)[j] = mBuffer[j]
      /\ \A j \in 1..f : Filled(src)[index + j] = part[j]
  <2>1. LET new == CopyBlock(part, mBuffer, index)
        IN  /\ new \in Block
            /\ \A j \in 1..index : new[j] = mBuffer[j]
            /\ \A j \in 1..Len(part) : new[index + j] = part[j]
    BY ONLY <1>3, <1>4, Copied, Zenon
  <2> QED BY ONLY <2>1, <1>3, <1>5, Zenon
<1>7. ASSUME NEW j \in 1..(index + f)
      PROVE  Filled(src)[j] = {<<"in", Len(mMAC) * BLOCK_SIZE + j>>}
  <2>1. CASE j <= index
    <3>1. j \in 1..index
      BY <2>1, <1>2
    <3> QED BY <3>1, <1>6 DEF InStep
  <2>2. CASE j > index
    <3> DEFINE k == j - index
    <3>1. k \in 1..f /\ j = index + k
      BY <2>2, <1>2
    <3> HIDE DEF k
    <3>2. Filled(src)[j] = part[k] /\ part[k] = {<<"in", len + 0 + k>>}
      BY <3>1, <1>3, <1>6 DEF Continues
    <3>3. len + 0 + k = Len(mMAC) * BLOCK_SIZE + j
      <4> DEFINE p == Len(mMAC) * BLOCK_SIZE
      <4>1. len = p + index /\ p \in Nat /\ index \in Nat /\ k \in Nat
        BY <1>2, <3>1, SMT DEF InStep
      <4> HIDE DEF p
      <4>2. len + 0 + k = p + j
        BY <3>1, <4>1
      <4> QED BY <4>2 DEF p
    <3> QED BY <3>2, <3>3
  <2> QED BY <2>1, <2>2, <1>2
<1> QED BY <1>6, <1>7 DEF f, n

\* Absorbing bytes keeps what is held and adds them to it.
LEMMA AbsorbKeeps ==
  ASSUME IInv, NEW src \in Seq(Byte), Len(src) # 0, Continues(src, len),
         Absorb(src), len' = len + Len(src)
  PROVE  /\ index' \in 1..BLOCK_SIZE /\ mBuffer' \in Block /\ mMAC' \in Seq(Block)
         /\ InStep'
<1> USE Constants DEF IInv, TypeInv
<1> DEFINE n == Len(src)
           f == First(n)
<1>1. n \in Nat \ {0} /\ len \in Nat /\ len = Len(mMAC) * BLOCK_SIZE + index
  BY SMT DEF InStep
<1>2. /\ f \in 0..n /\ index + f \in 0..BLOCK_SIZE
      /\ f # n => index + f \in {0, BLOCK_SIZE}
      /\ index + f = 0 <=> index = 0
  BY <1>1, PendingBlock DEF First
<1>3. /\ Filled(src) \in Block
      /\ \A j \in 1..(index + f) : Filled(src)[j] = {<<"in", Len(mMAC) * BLOCK_SIZE + j>>}
  BY FilledContinues
<1>4. /\ Rest(src) \in Seq(Byte) /\ Len(Rest(src)) = n - f
      /\ Continues(Rest(src), len + f)
  <2>1. f \in Nat /\ n \in Nat /\ f <= n /\ n <= Len(src)
    BY <1>1, <1>2
  <2>2. Rest(src) = SubSeq(src, f + 1, n)
    BY DEF Rest
  <2> HIDE DEF f, n
  <2> QED BY ONLY <1>1, <2>1, <2>2, PartContinues, src \in Seq(Byte), Continues(src, len)
<1> HIDE DEF f
<1>5. CASE Rest(src) = <<>>
  <2>1. n = f
    BY <1>1, <1>2, <1>4, <1>5
  <2>2. index' = index + f /\ mBuffer' = Filled(src) /\ mMAC' = mMAC
    BY <1>5, AbsorbParts DEF f
  <2>3. index' \in 1..BLOCK_SIZE
    BY <1>1, <1>2, <2>1, <2>2
  <2>4. len' = Len(mMAC) * BLOCK_SIZE + index'
    <3> DEFINE b == Len(mMAC) * BLOCK_SIZE
    <3>1. b \in Int
      BY SMT
    <3> HIDE DEF b
    <3>2. len = b + index
      BY <1>1 DEF b
    <3>3. len' = b + index'
      BY <1>1, <1>2, <2>1, <2>2, <3>1, <3>2
    <3> QED BY <3>3 DEF b
  <2>5. \A i \in 1..Len(mMAC') : \A j \in 1..BLOCK_SIZE :
          mMAC'[i][j] = {<<"in", (i - 1) * BLOCK_SIZE + j>>}
    BY ONLY <2>2, InStep, Zenon DEF InStep
  <2>6. \A j \in 1..index' : mBuffer'[j] = {<<"in", Len(mMAC') * BLOCK_SIZE + j>>}
    BY ONLY <1>3, <2>2, Zenon
  <2>7. index' # 0 /\ len' = Len(mMAC') * BLOCK_SIZE + index'
    BY ONLY <2>2, <2>3, <2>4, Constants
  <2>8. InStep'
    BY ONLY <2>5, <2>6, <2>7, Zenon DEF InStep
  <2>9. mBuffer' \in Block /\ mMAC' \in Seq(Block)
    BY ONLY <1>3, <2>2, TypeInv, Zenon DEF TypeInv
  <2> QED BY ONLY <2>3, <2>8, <2>9, Zenon
<1>6. CASE Rest(src) # <<>>
  <2> DEFINE l == Len(Rest(src))
             m == Processed(l)
             tail == SubSeq(Rest(src), m + 1, l)
  <2>1. l \in Nat \ {0} /\ l = n - f
    BY <1>4, <1>6, <1>1, <1>2
  <2>2. PICK q \in Nat : m = q * BLOCK_SIZE /\ l - m \in 1..BLOCK_SIZE
    BY <2>1, ProcessedBlocks
  <2>3. /\ mMAC' = Processing(Mac(src), Rest(src), m)
        /\ mBuffer' = CopyBlock(tail, Filled(src), 0)
        /\ index' = l - m
    BY <1>6, AbsorbParts
  <2>4. index + f \in {0, BLOCK_SIZE}
    BY <1>2, <2>1, <1>1
  \* The block that was pending, if there was one, joins the chain.
  <2>5. /\ Mac(src) \in Seq(Block) /\ Chained(Mac(src))
        /\ Len(Mac(src)) * BLOCK_SIZE = len + f
    <3>1. CASE index + f = BLOCK_SIZE
      <4>1. Mac(src) = Append(mMAC, Filled(src))
        BY <3>1 DEF Mac, f
      <4>2. /\ Mac(src) \in Seq(Block) /\ Len(Mac(src)) = Len(mMAC) + 1
            /\ \A i \in 1..Len(mMAC) : Mac(src)[i] = mMAC[i]
            /\ Mac(src)[Len(mMAC) + 1] = Filled(src)
        BY <1>3, <4>1, AppendProperties
      <4>3. Chained(Mac(src))
        <5> SUFFICES ASSUME NEW i \in 1..Len(Mac(src)), NEW j \in 1..BLOCK_SIZE
                     PROVE  Mac(src)[i][j] = {<<"in", (i - 1) * BLOCK_SIZE + j>>}
          BY Zenon DEF Chained
        <5> i \in 1..(Len(mMAC) + 1)
          BY <4>2
        <5>1. CASE i = Len(mMAC) + 1
          <6>1. Mac(src)[i][j] = {<<"in", Len(mMAC) * BLOCK_SIZE + j>>}
            BY <1>3, <3>1, <4>2, <5>1
          <6>2. i - 1 = Len(mMAC)
            BY <5>1
          <6> QED BY <6>1, <6>2
        <5>2. CASE i # Len(mMAC) + 1
          <6>1. i \in 1..Len(mMAC)
            BY <5>2
          <6> QED BY <4>2, <6>1 DEF InStep
        <5> QED BY <5>1, <5>2
      <4>4. (Len(mMAC) + 1) * BLOCK_SIZE = Len(mMAC) * BLOCK_SIZE + BLOCK_SIZE
        BY SMT
      <4>5. Len(Mac(src)) * BLOCK_SIZE = Len(mMAC) * BLOCK_SIZE + BLOCK_SIZE
        BY ONLY <4>2, <4>4, Zenon
      <4> DEFINE b == Len(mMAC) * BLOCK_SIZE
      <4>6. b \in Int
        BY SMT
      <4> HIDE DEF b
      <4>7. b + BLOCK_SIZE = len + f
        BY <1>1, <1>2, <3>1, <4>6 DEF b
      <4> QED BY <4>2, <4>3, <4>5, <4>7 DEF b
    <3>2. CASE index + f # BLOCK_SIZE
      <4>1. Mac(src) = mMAC /\ index = 0 /\ f = 0
        BY <1>2, <2>4, <3>2 DEF Mac, f
      <4> QED BY <1>1, <4>1 DEF InStep, Chained
    <3> QED BY <3>1, <3>2
  <2> DEFINE mac == Mac(src)
             rest == Rest(src)
  <2>6. q * BLOCK_SIZE <= Len(rest) /\ Continues(rest, Len(mac) * BLOCK_SIZE)
    BY <1>4, <2>1, <2>2, <2>5
  <2>7. mMAC' \in Seq(Block) /\ Len(mMAC') = Len(mac) + q /\ Chained(mMAC')
    <3> HIDE DEF mac, rest
    <3>1. mac \in Seq(Block) /\ Chained(mac) /\ rest \in Seq(Byte)
      BY <1>4, <2>5 DEF mac, rest
    <3>2. mMAC' = Processing(mac, rest, q * BLOCK_SIZE)
      BY <2>2, <2>3 DEF mac, rest
    <3> QED BY ONLY <2>6, <3>1, <3>2, ProcessingExtends, q \in Nat, Zenon
  <2>8. tail \in Seq(Byte) /\ Len(tail) = l - m /\ Continues(tail, len + f + m)
    <3>1. m \in Nat /\ l \in Nat /\ m <= l /\ l <= Len(rest) /\ len + f \in Nat
      BY <2>1, <2>2, <1>1, <1>2
    <3>2. rest \in Seq(Byte) /\ Continues(rest, len + f)
      BY <1>4
    <3> HIDE DEF m, l
    <3> QED BY ONLY <3>1, <3>2, PartContinues
  <2>9. /\ mBuffer' \in Block
        /\ \A j \in 1..index' : mBuffer'[j] = tail[j]
    <3> HIDE DEF tail, m, l
    <3>1. 0 \in Nat /\ 0 + Len(tail) <= BLOCK_SIZE /\ Len(tail) \in Nat
      BY <2>2, <2>8
    <3>2. LET new == CopyBlock(tail, Filled(src), 0)
          IN  new \in Block /\ \A j \in 1..Len(tail) : new[0 + j] = tail[j]
      BY ONLY <1>3, <2>8, <3>1, Copied, Zenon
    <3>3. \A j \in 1..Len(tail) : 0 + j = j
      BY <3>1
    <3> QED BY <2>3, <2>8, <3>2, <3>3
  <2>10. Len(mMAC') * BLOCK_SIZE = len + f + m
    <3>1. (Len(mac) + q) * BLOCK_SIZE = Len(mac) * BLOCK_SIZE + q * BLOCK_SIZE
      BY <2>5, SMT
    <3> QED BY <2>2, <2>5, <2>7, <3>1
  <2>11. index' \in 1..BLOCK_SIZE /\ len' = Len(mMAC') * BLOCK_SIZE + index'
    <3> DEFINE b == Len(mMAC') * BLOCK_SIZE
    <3>1. m \in Nat /\ b = len + f + m
      BY <2>2, <2>10
    <3> HIDE DEF b, m, l, n
    <3>2. l \in Nat /\ l = Len(src) - f /\ Len(src) \in Nat /\ f \in 0..Len(src)
      BY <1>1, <1>2, <2>1 DEF n
    <3>3. index' \in 1..BLOCK_SIZE /\ index' = l - m
      BY <2>2, <2>3
    <3>4. len' = b + index'
      BY <1>1, <3>1, <3>2, <3>3
    <3> QED BY <3>3, <3>4 DEF b
  <2>12. \A j \in 1..index' : mBuffer'[j] = {<<"in", Len(mMAC') * BLOCK_SIZE + j>>}
    <3> SUFFICES ASSUME NEW j \in 1..index'
                 PROVE  mBuffer'[j] = {<<"in", Len(mMAC') * BLOCK_SIZE + j>>}
      OBVIOUS
    <3>1. tail[j] = {<<"in", len + f + m + j>>}
      BY <2>3, <2>8 DEF Continues
    <3>2. len + f + m + j = Len(mMAC') * BLOCK_SIZE + j
      BY <2>10
    <3>3. mBuffer'[j] = tail[j]
      BY ONLY <2>9, j \in 1..index', Zenon
    <3> QED BY ONLY <3>1, <3>2, <3>3, Zenon
  <2>13. index' # 0
    BY <2>11
  <2>14. InStep'
    BY ONLY <2>7, <2>11, <2>12, <2>13, Zenon DEF InStep, Chained
  <2> QED BY ONLY <2>7, <2>9, <2>11, <2>14, Zenon
<1> QED BY <1>5, <1>6

-----------------------------------------------------------------------------
(* The invariant.                                                          *)

\* The invariant holds at first.
LEMMA InitialInvariant == Init => IInv
<1> SUFFICES ASSUME Init PROVE IInv
  OBVIOUS
<1> USE Constants DEF Init
<1>1. mBuffer \in Block
  BY DEF Block, Byte
<1>2. mMAC \in Seq(Block) /\ Len(mMAC) = 0
  BY SMT
<1>3. 0 = 0 * BLOCK_SIZE + 0
  BY SMT
<1>4. InStep
  BY <1>2, <1>3 DEF InStep
<1>5. index \in 0..BLOCK_SIZE /\ len \in 0..MAX_MSG
  BY SMT
<1>6. idCtx \in BOOLEAN /\ key \in GoodKeyLens \cup {0}
  BY Zenon
<1> QED BY <1>1, <1>2, <1>4, <1>5, <1>6, Zenon DEF IInv, TypeInv

\* A message given up leaves the buffer as it is.
LEMMA ClearedKeeps ==
  ASSUME IInv, ClearedState, idCtx' \in BOOLEAN, key' \in GoodKeyLens \cup {0}
  PROVE  IInv'
<1> USE Constants DEF ClearedState
<1>1. 0 = 0 * BLOCK_SIZE + 0
  BY SMT
<1>2. mMAC' \in Seq(Block) /\ Len(mMAC') = 0
  BY SMT
<1>3. InStep'
  BY <1>1, <1>2 DEF InStep
<1> QED BY <1>2, <1>3 DEF IInv, TypeInv

\* It is about the context and the message alone.
LEMMA UnchangedKeeps ==
  ASSUME IInv, UNCHANGED <<idCtx, index, mBuffer, mMAC, key, len>>
  PROVE  IInv'
  BY DEF IInv, TypeInv, InStep

\* A piece of the message keeps it, refused or taken.
LEMMA UpdateKeeps ==
  ASSUME IInv, NEW hasPtr \in BOOLEAN, NEW n \in CallLens, CMACUpdate(hasPtr, n)
  PROVE  IInv'
<1> USE Constants
<1>1. CASE UpdateStatus(hasPtr, n) # "ippStsNoErr"
  BY <1>1, UnchangedKeeps DEF CMACUpdate, Reject
<1>2. CASE UpdateStatus(hasPtr, n) = "ippStsNoErr"
  <2>1. /\ n \in Nat /\ len + n <= MAX_MSG /\ len' = len + n /\ UNCHANGED <<idCtx, key>>
        /\ IF n = 0 THEN UNCHANGED <<index, mBuffer, mMAC>> ELSE Absorb(Data("in", len, n))
    <3>1. n >= 0
      BY <1>2 DEF UpdateStatus
    <3> QED BY <1>2, <3>1 DEF CMACUpdate
  <2>2. CASE n = 0
    <3>1. len' = len
      BY <2>1, <2>2 DEF IInv, TypeInv
    <3> QED BY <2>1, <2>2, <3>1, UnchangedKeeps
  <2>3. CASE n # 0
    <3> DEFINE src == Data("in", len, n)
    <3>1. len \in Nat
      BY DEF IInv, TypeInv
    <3>2. src \in Seq(Byte) /\ Len(src) = n /\ Continues(src, len)
      BY <2>1, <3>1, CallerBytes
    <3> HIDE DEF src
    <3>3. Absorb(src)
      BY <2>1, <2>3 DEF src
    <3>4. /\ index' \in 1..BLOCK_SIZE /\ mBuffer' \in Block /\ mMAC' \in Seq(Block)
          /\ InStep'
      BY <2>1, <2>3, <3>2, <3>3, AbsorbKeeps
    <3>5. len' \in 0..MAX_MSG
      BY <2>1, <3>1
    <3> QED BY <2>1, <3>4, <3>5 DEF IInv, TypeInv
  <2> QED BY <2>2, <2>3
<1> QED BY <1>1, <1>2

\* Every step keeps it.
LEMMA NextKeeps == IInv /\ [Next]_vars => IInv'
<1> SUFFICES ASSUME IInv, [Next]_vars PROVE IInv'
  OBVIOUS
<1>1. CASE UNCHANGED vars
  BY <1>1, UnchangedKeeps DEF vars
<1>2. ASSUME NEW keyLen \in KeyLens, NEW sizeOk \in BOOLEAN, CMACInit(keyLen, sizeOk)
      PROVE  IInv'
  <2>1. CASE ~sizeOk
    BY <1>2, <2>1, UnchangedKeeps DEF CMACInit, Reject
  <2>2. CASE sizeOk
    <3>1. ClearedState /\ idCtx' \in BOOLEAN
      BY <1>2, <2>2 DEF CMACInit
    <3>2. key' \in GoodKeyLens \cup {0}
      BY <1>2, <2>2 DEF CMACInit, IInv, TypeInv
    <3> QED BY <3>1, <3>2, ClearedKeeps
  <2> QED BY <2>1, <2>2
<1>3. ASSUME NEW n \in CallLens, NEW hasPtr \in BOOLEAN, CMACUpdate(hasPtr, n)
      PROVE  IInv'
  BY <1>3, UpdateKeeps
<1>4. ASSUME NEW mdLen \in MdLens, CMACGetTag(mdLen)
      PROVE  IInv'
  BY <1>4, UnchangedKeeps DEF CMACGetTag, Reject
<1>5. ASSUME NEW mdLen \in MdLens, CMACFinal(mdLen)
      PROVE  IInv'
  <2>1. CASE UNCHANGED <<idCtx, index, mBuffer, mMAC, key, len>>
    BY <2>1, UnchangedKeeps
  <2>2. CASE ClearedState /\ UNCHANGED <<idCtx, key>>
    BY <2>2, ClearedKeeps DEF IInv, TypeInv
  <2> QED BY <1>5, <2>1, <2>2 DEF CMACFinal, Reject
<1> QED BY <1>1, <1>2, <1>3, <1>4, <1>5 DEF Next

\* Whatever the cut of a message into calls, the CMAC context has its types and stands at
\* the end of what was passed.
THEOREM Invariance == Spec => []IInv
<1> QED BY InitialInvariant, NextKeeps, PTL DEF Spec

\* Types, and no call writes beyond the buffer of the context (pcpcmac.h:38).
THEOREM TypeCorrect == Spec => []TypeOK
<1>1. IInv => TypeOK
  BY DEF IInv, TypeInv, TypeOK, Block
<1> QED BY <1>1, Invariance, PTL

\* However a message is cut into updates (pcpaes_cmacupdate.c:87), the blocks
\* encrypted and the bytes in the buffer are the message, and its last block
\* waits in the buffer.
THEOREM MessageInStep == Spec => []InStep
<1>1. IInv => InStep
  BY DEF IInv
<1> QED BY <1>1, Invariance, PTL

-----------------------------------------------------------------------------
(* Every step implements one of CMAC.                                      *)

\* The instance has the operators of Blocks under names of its own.
LEMMA SameBlocks ==
  /\ \A s, blk, off : C!XorBlock(s, blk, off) = XorBlock(s, blk, off)
  /\ \A s, blk, off : C!CopyBlock(s, blk, off) = CopyBlock(s, blk, off)
  /\ \A kind, first, n : C!Data(kind, first, n) = Data(kind, first, n)
  /\ \A n : C!ZeroBlock(n) = ZeroBlock(n)
  BY DEF C!XorBlock, XorBlock, C!Xor, Xor, C!CopyBlock, CopyBlock, C!Data, Data,
         C!ZeroBlock, ZeroBlock

\* The blocks chained are all of the message but the last.
LEMMA FullBlocksChained ==
  ASSUME IInv
  PROVE  C!FullBlocks(len) = Len(mMAC)
<1> USE Constants DEF IInv, TypeInv
<1> DEFINE q == Len(mMAC)
<1>1. q \in Nat /\ len = q * BLOCK_SIZE + index /\ len \in Nat /\ index \in Nat
  BY SMT DEF InStep
<1>2. CASE len = 0
  <2>1. q * BLOCK_SIZE >= 0 /\ (q # 0 => q * BLOCK_SIZE > 0)
    BY <1>1, SMT
  <2>2. q = 0
    BY <1>1, <1>2, <2>1, SMT
  <2> QED BY <1>2, <2>2 DEF C!FullBlocks
<1>3. CASE len # 0
  <2>1. index \in 1..BLOCK_SIZE
    <3>1. index # 0
      BY <1>3 DEF InStep
    <3> QED BY <3>1
  <2>2. index - 1 \in 0..(BLOCK_SIZE - 1)
    BY <2>1
  <2>3. len - 1 = BLOCK_SIZE * q + (index - 1)
    BY <1>1, <2>1, SMT
  <2>4. (BLOCK_SIZE * q + (index - 1)) \div BLOCK_SIZE = q
    <3> HIDE DEF q
    <3> QED BY <1>1, <2>2, DivModOfSplit
  <2> QED BY <1>3, <2>3, <2>4, Zenon DEF C!FullBlocks
<1> QED BY <1>2, <1>3

\* A part of the message, by its bytes.
LEMMA MessagePart ==
  ASSUME NEW n \in Nat, NEW a \in Nat, NEW b \in Nat, a <= b, b <= n
  PROVE  LET part == SubSeq(C!Message(n), a + 1, b)
         IN  part \in Seq(Byte) /\ Len(part) = b - a
             /\ \A i \in 1..(b - a) : part[i] = {<<"in", a + i>>}
<1>1. LET src == Data("in", 0, n)
      IN  src \in Seq(Byte) /\ Len(src) = n /\ Continues(src, 0)
  BY CallerBytes
<1>2. C!Message(n) = Data("in", 0, n)
  BY SameBlocks DEF C!Message
<1> DEFINE part == SubSeq(C!Message(n), a + 1, b)
<1>3. part \in Seq(Byte) /\ Len(part) = b - a /\ Continues(part, 0 + a)
  <2> DEFINE src == Data("in", 0, n)
  <2> HIDE DEF src
  <2>1. src \in Seq(Byte) /\ b <= Len(src) /\ Continues(src, 0) /\ C!Message(n) = src
    BY <1>1, <1>2 DEF src
  <2> QED BY <2>1, PartContinues
<1>4. \A i \in 1..(b - a) : part[i] = {<<"in", a + i>>}
  BY <1>3 DEF Continues
<1> QED BY <1>3, <1>4

\* A sequence is known by its length and its elements.
LEMMA SameElements ==
  ASSUME NEW X, NEW Y, NEW s \in Seq(X), NEW t \in Seq(Y), Len(s) = Len(t),
         \A i \in 1..Len(s) : s[i] = t[i]
  PROVE  s = t
  BY SMT

\* What was encrypted is the message, block by block.
LEMMA BlocksOfMessage ==
  ASSUME IInv
  PROVE  mMAC = [i \in 1..C!FullBlocks(len) |-> C!MessageBlock(len, i)]
<1> USE Constants DEF IInv, TypeInv
<1>1. /\ C!FullBlocks(len) = Len(mMAC) /\ Len(mMAC) \in Nat /\ mMAC \in Seq(Block)
      /\ len = Len(mMAC) * BLOCK_SIZE + index /\ len \in Nat /\ index \in Nat
  BY FullBlocksChained, SMT DEF InStep
<1>2. ASSUME NEW i \in 1..Len(mMAC)
      PROVE  mMAC[i] = C!MessageBlock(len, i)
  <2> DEFINE a == (i - 1) * BLOCK_SIZE
             b == i * BLOCK_SIZE
             part == SubSeq(C!Message(len), a + 1, b)
  <2>1. a \in Nat /\ b = a + BLOCK_SIZE /\ b \in Nat /\ b <= len
    <3>1. (i - 1) * BLOCK_SIZE >= 0 /\ (Len(mMAC) - i) * BLOCK_SIZE >= 0
      BY <1>1, SMT
    <3>2. /\ (Len(mMAC) - i) * BLOCK_SIZE = Len(mMAC) * BLOCK_SIZE - i * BLOCK_SIZE
          /\ (i - 1) * BLOCK_SIZE = i * BLOCK_SIZE - BLOCK_SIZE
          /\ Len(mMAC) * BLOCK_SIZE \in Int /\ i * BLOCK_SIZE \in Int
      BY <1>1, SMT
    <3> QED BY <1>1, <3>1, <3>2
  <2>2. C!MessageBlock(len, i) = part
    BY DEF C!MessageBlock
  <2>3. \A j \in 1..BLOCK_SIZE : mMAC[i][j] = {<<"in", a + j>>}
    BY DEF InStep
  <2>4. mMAC[i] \in Block
    BY <1>1
  <2> HIDE DEF a, b
  <2>5. part \in Seq(Byte) /\ Len(part) = BLOCK_SIZE
        /\ \A j \in 1..BLOCK_SIZE : part[j] = {<<"in", a + j>>}
    <3>1. a <= b /\ b - a = BLOCK_SIZE
      BY <2>1
    <3>2. part \in Seq(Byte) /\ Len(part) = b - a
          /\ \A j \in 1..(b - a) : part[j] = {<<"in", a + j>>}
      <4>1. a \in Nat /\ b \in Nat /\ len \in Nat /\ a <= b /\ b <= len
        BY <1>1, <2>1, <3>1
      <4> QED BY ONLY <4>1, MessagePart, Zenon
    <3> QED BY ONLY <3>1, <3>2, Zenon
  <2> HIDE DEF part
  <2>6. mMAC[i] \in Seq(Byte) /\ Len(mMAC[i]) = BLOCK_SIZE
    <3> DEFINE x == mMAC[i]
    <3>1. x \in [1..BLOCK_SIZE -> Byte] /\ BLOCK_SIZE \in Nat
      BY <2>4 DEF Block
    <3> HIDE DEF x
    <3>2. x \in Seq(Byte) /\ Len(x) = BLOCK_SIZE
      BY ONLY <3>1, SMT
    <3> QED BY <3>2 DEF x
  <2>7. mMAC[i] = part
    BY ONLY <2>3, <2>5, <2>6, SameElements
  <2> QED BY <2>2, <2>7
<1>3. mMAC = [i \in 1..Len(mMAC) |-> mMAC[i]]
  BY <1>1, SMT
<1> QED BY <1>1, <1>2, <1>3, Zenon

PadByte == {<<"pad">>}

\* What is in the buffer is the rest of the message: the last block is the
\* same, under the same subkey.
LEMMA LastBlockOfMessage ==
  ASSUME IInv
  PROVE  LastBlock = C!LastBlock(len)
<1> USE Constants DEF IInv, TypeInv
<1>1. /\ C!FullBlocks(len) = Len(mMAC) /\ index \in 0..BLOCK_SIZE /\ mBuffer \in Block
      /\ len = Len(mMAC) * BLOCK_SIZE + index /\ len \in Nat /\ Len(mMAC) * BLOCK_SIZE \in Nat
  <2>1. Len(mMAC) * BLOCK_SIZE \in Int /\ Len(mMAC) * BLOCK_SIZE >= 0
    BY SMT
  <2> QED BY <2>1, FullBlocksChained DEF InStep
<1> DEFINE a == Len(mMAC) * BLOCK_SIZE
           rest == SubSeq(C!Message(len), a + 1, len)
<1>2. /\ rest \in Seq(Byte) /\ Len(rest) = index
      /\ \A j \in 1..index : rest[j] = {<<"in", a + j>>}
  <2>1. a \in Nat /\ a <= len /\ len <= len /\ len - a = index /\ len \in Nat
    BY <1>1
  <2> HIDE DEF a
  <2>2. /\ rest \in Seq(Byte) /\ Len(rest) = len - a
        /\ \A j \in 1..(len - a) : rest[j] = {<<"in", a + j>>}
    BY ONLY <2>1, MessagePart, Zenon
  <2> QED BY ONLY <2>1, <2>2, Zenon
<1>3. \A j \in 1..index : rest[j] = mBuffer[j]
  BY <1>2 DEF InStep
<1>4. C!LastBlock(len) =
        IF Len(rest) = BLOCK_SIZE
        THEN XorBlock(C!Subkey("k1", key), rest, 0)
        ELSE XorBlock(C!Subkey("k2", key), CopyBlock(rest \o <<PadByte>>, ZeroBlock(BLOCK_SIZE), 0), 0)
  BY <1>1, SameBlocks, Zenon DEF C!LastBlock, PadByte
<1>5. K("k1") = C!Subkey("k1", key) /\ K("k2") = C!Subkey("k2", key)
  BY DEF K, C!Subkey
<1> HIDE DEF rest, a
<1>6. CASE index = BLOCK_SIZE
  <2>1. mBuffer \in Seq(Byte) /\ Len(mBuffer) = BLOCK_SIZE
    BY <1>1, SMT DEF Block
  <2>2. mBuffer = rest
    BY ONLY <1>2, <1>3, <1>6, <2>1, SameElements
  <2> QED BY <1>2, <1>4, <1>5, <1>6, <2>2, Zenon DEF LastBlock
<1>7. CASE index # BLOCK_SIZE
  <2> DEFINE padded == rest \o <<PadByte>>
             mine == [j \in 1..BLOCK_SIZE |-> IF j <= index THEN mBuffer[j]
                                              ELSE IF j = index + 1 THEN PadByte
                                              ELSE {}]
             theirs == CopyBlock(padded, ZeroBlock(BLOCK_SIZE), 0)
  <2>1. Len(padded) = index + 1 /\ padded[index + 1] = PadByte
        /\ \A j \in 1..index : padded[j] = rest[j]
    <3>1. rest \in Seq(Byte \cup {PadByte}) /\ <<PadByte>> \in Seq(Byte \cup {PadByte})
          /\ Len(<<PadByte>>) = 1 /\ <<PadByte>>[1] = PadByte
      BY <1>2, SMT
    <3> QED BY <1>1, <1>2, <3>1, ConcatProperties
  <2> HIDE DEF padded
  <2>2. theirs = [j \in 1..BLOCK_SIZE |-> IF j \in (0 + 1)..(0 + Len(padded))
                                          THEN padded[j - 0] ELSE {}]
    BY DEF CopyBlock, ZeroBlock
  <2>3. ASSUME NEW j \in 1..BLOCK_SIZE
        PROVE  (IF j \in (0 + 1)..(0 + Len(padded)) THEN padded[j - 0] ELSE {}) =
               (IF j <= index THEN mBuffer[j] ELSE IF j = index + 1 THEN PadByte ELSE {})
    <3>1. CASE j <= index
      <4>1. j \in (0 + 1)..(0 + Len(padded)) /\ j - 0 = j /\ j \in 1..index
        BY <1>1, <2>1, <3>1
      <4>2. padded[j] = mBuffer[j]
        BY ONLY <1>3, <2>1, <4>1, Zenon
      <4> QED BY ONLY <3>1, <4>1, <4>2, Zenon
    <3>2. CASE j = index + 1
      <4>1. j \in (0 + 1)..(0 + Len(padded)) /\ j - 0 = j /\ ~(j <= index)
        BY <1>1, <2>1, <3>2
      <4> QED BY ONLY <2>1, <3>2, <4>1, Zenon
    <3>3. CASE j > index + 1
      <4>1. j \notin (0 + 1)..(0 + Len(padded)) /\ ~(j <= index) /\ j # index + 1
        BY <1>1, <2>1, <3>3
      <4> QED BY ONLY <4>1, Zenon
    <3> QED BY <1>1, <3>1, <3>2, <3>3
  <2>4. mine = theirs
    BY ONLY <2>2, <2>3, Zenon
  <2>5. LastBlock = XorBlock(K("k2"), mine, 0)
    BY ONLY <1>7, Zenon DEF LastBlock, PadByte
  <2>6. C!LastBlock(len) = XorBlock(C!Subkey("k2", key), theirs, 0)
    BY ONLY <1>2, <1>4, <1>7, Zenon DEF padded
  <2> QED BY ONLY <1>5, <2>4, <2>5, <2>6, Zenon
<1> QED BY <1>6, <1>7

\* The tag computed is that of the message.
LEMMA TagIsCmac ==
  ASSUME IInv, NEW mdLen
  PROVE  MacTag(mdLen) = [ret |-> "ippStsNoErr", tag |-> C!MessageTag, mdLen |-> mdLen]
<1> DEFINE blocks == [i \in 1..C!FullBlocks(len) |-> C!MessageBlock(len, i)]
<1>1. mMAC = blocks /\ LastBlock = C!LastBlock(len) /\ mMAC \in Seq(Block)
  BY BlocksOfMessage, LastBlockOfMessage DEF IInv, TypeInv
<1>2. Append(mMAC, LastBlock) = mMAC \o <<LastBlock>>
  <2>1. LastBlock \in Block \cup {LastBlock} /\ mMAC \in Seq(Block \cup {LastBlock})
    BY <1>1, SMT
  <2> QED BY ONLY <2>1, AppendIsConcat
<1>3. C!MessageTag = [key |-> key, blocks |-> blocks \o <<C!LastBlock(len)>>]
  BY DEF C!MessageTag
<1> HIDE DEF blocks
<1> QED BY ONLY <1>1, <1>2, <1>3, Zenon DEF MacTag

\* A call that is refused is one of the promise's.
LEMMA RejectImplements ==
  ASSUME NEW status \in {"ippStsContextMatchErr", "ippStsLengthErr", "ippStsNullPtrErr",
                         "ippStsMemAllocErr"},
         Reject(status)
  PROVE  C!Next
<1>1. C!Reject
  BY DEF Reject, Returns, C!Reject, C!Returns
<1> QED BY <1>1 DEF C!Next

\* Init begins a message of the promise.
LEMMA InitImplements ==
  ASSUME NEW keyLen, NEW sizeOk \in BOOLEAN, CMACInit(keyLen, sizeOk)
  PROVE  C!Next
<1>1. CASE ~sizeOk
  BY <1>1, RejectImplements DEF CMACInit
<1>2. CASE sizeOk /\ keyLen \in GoodKeyLens
  <2>1. keyLen > 0
    BY <1>2, CmacAssumption
  <2>2. C!Begin
    BY <1>2, <2>1 DEF CMACInit, ClearedState, Returns, C!Begin, C!Returns
  <2> QED BY <2>2 DEF C!Next
<1>3. CASE sizeOk /\ keyLen \notin GoodKeyLens
  <2>1. C!Begin
    BY <1>3 DEF CMACInit, ClearedState, Returns, C!Begin, C!Returns
  <2> QED BY <2>1 DEF C!Next
<1> QED BY <1>1, <1>2, <1>3

\* Update adds to it.
LEMMA UpdateImplements ==
  ASSUME IInv, NEW hasPtr \in BOOLEAN, NEW n \in CallLens, CMACUpdate(hasPtr, n)
  PROVE  C!Next
<1>1. CASE UpdateStatus(hasPtr, n) # "ippStsNoErr"
  <2>1. UpdateStatus(hasPtr, n) \in {"ippStsContextMatchErr", "ippStsLengthErr", "ippStsNullPtrErr"}
    BY <1>1 DEF UpdateStatus
  <2> QED BY <1>1, <2>1, RejectImplements DEF CMACUpdate
<1>2. CASE UpdateStatus(hasPtr, n) = "ippStsNoErr"
  <2>1. n \in Int /\ n >= 0 /\ len \in Int
    BY <1>2, Constants DEF UpdateStatus, IInv, TypeInv
  <2>2. len' >= len /\ out' = Returns("ippStsNoErr") /\ UNCHANGED key
    BY <1>2, <2>1 DEF CMACUpdate
  <2>3. C!Absorb
    BY <2>2 DEF Returns, C!Absorb, C!Returns
  <2> QED BY <2>3 DEF C!Next
<1> QED BY <1>1, <1>2

\* A step that returns a tag, and leaves the message or begins a new one.
LEMMA TagImplements ==
  ASSUME IInv, NEW mdLen \in 1..BLOCK_SIZE, out' = MacTag(mdLen), len' \in {0, len}, UNCHANGED key
  PROVE  C!Next
<1>1. out' = [ret |-> "ippStsNoErr", tag |-> C!MessageTag, mdLen |-> mdLen]
  BY TagIsCmac
<1>2. out'.mdLen = mdLen
  BY <1>1
<1>3. C!Give
  BY ONLY <1>1, <1>2, mdLen \in 1..BLOCK_SIZE, len' \in {0, len}, UNCHANGED key DEF C!Give
<1> QED BY <1>3 DEF C!Next

\* The context implements what CMAC promises: whatever calls are made, each tag
\* is the CMAC of the bytes of the updates so far (pcpaes_cmacgettag.c:56).
THEOREM ImplementsCmac == Spec => ImplementsCMAC
<1>1. Init => C!Init
  BY DEF Init, C!Init, Returns, C!Returns
<1>2. IInv /\ [Next]_vars => [C!Next]_(C!vars)
  <2> SUFFICES ASSUME IInv, [Next]_vars PROVE [C!Next]_(C!vars)
    OBVIOUS
  <2>1. CASE UNCHANGED vars
    BY <2>1 DEF vars, C!vars
  <2>2. ASSUME NEW keyLen \in KeyLens, NEW sizeOk \in BOOLEAN, CMACInit(keyLen, sizeOk)
        PROVE  C!Next
    BY <2>2, InitImplements
  <2>3. ASSUME NEW n \in CallLens, NEW hasPtr \in BOOLEAN, CMACUpdate(hasPtr, n)
        PROVE  C!Next
    BY <2>3, UpdateImplements
  <2>4. ASSUME NEW mdLen \in MdLens, CMACGetTag(mdLen)
        PROVE  C!Next
    <3>1. CASE idCtx /\ mdLen \in 1..BLOCK_SIZE
      BY <2>4, <3>1, TagImplements DEF CMACGetTag
    <3>2. CASE ~(idCtx /\ mdLen \in 1..BLOCK_SIZE)
      BY <2>4, <3>2, RejectImplements DEF CMACGetTag
    <3> QED BY <3>1, <3>2
  <2>5. ASSUME NEW mdLen \in MdLens, CMACFinal(mdLen)
        PROVE  C!Next
    <3>1. CASE idCtx /\ mdLen \in 1..BLOCK_SIZE
      BY <2>5, <3>1, TagImplements DEF CMACFinal, ClearedState
    <3>2. CASE ~(idCtx /\ mdLen \in 1..BLOCK_SIZE)
      BY <2>5, <3>2, RejectImplements DEF CMACFinal
    <3> QED BY <3>1, <3>2
  <2> QED BY <2>1, <2>2, <2>3, <2>4, <2>5 DEF Next
<1> QED BY <1>1, <1>2, Invariance, PTL DEF Spec, ImplementsCMAC, C!Spec

-----------------------------------------------------------------------------
(* The lanes of SM3, in the mb16 form.                                     *)

\* A byte of a lane's message, a zero or a byte of padding.
Cell == Int \X Int
CellBlock == [1..SM3_MSG_BLOCK_SIZE -> Cell]

\* Lane i between two calls, with n bytes of its message in it.
Lane(i, c, n) ==
  /\ c = [idx |-> c.idx, len |-> c.len, buff |-> c.buff, hash |-> c.hash]
  /\ c.idx \in 0..(SM3_MSG_BLOCK_SIZE - 1) /\ c.buff \in CellBlock
  /\ c.hash \in Seq(Cell) /\ Len(c.hash) % SM3_MSG_BLOCK_SIZE = 0
  /\ c.hash \o SubSeq(c.buff, 1, c.idx) = Message(i, 0, n)
  /\ c.len = n

\* All of them.
AllLanes(ctx, given) ==
  /\ ctx = [i \in Lanes |-> ctx[i]] /\ given \in [Lanes -> Nat]
  /\ \A i \in Lanes : Lane(i, ctx[i], given[i])

\* The digests of a call are those of the standard.
DigestsStandard(digests) ==
  \A i \in DOMAIN digests : digests[i].cells = Standard(Message(i, 0, digests[i].of))

\* The inductive invariant.
MbInv == AllLanes(mbCtx, mbGiven) /\ mbOut.returned /\ DigestsStandard(mbOut.digests)

\* The sizes of blocks and of the length field.
LEMMA MbSizes ==
  /\ SM3_MSG_BLOCK_SIZE \in Nat \ {0} /\ SM3_MSG_LEN_REPR \in Nat
  /\ SM3_MSG_LEN_REPR < SM3_MSG_BLOCK_SIZE /\ LANES \in Nat /\ Lanes \subseteq Nat
BY MbAssumption DEF Lanes

\* The bytes of a message.
LEMMA MessageCells ==
  ASSUME NEW i \in Int, NEW first \in Nat, NEW n \in Nat
  PROVE  /\ Message(i, first, n) \in Seq(Cell) /\ Len(Message(i, first, n)) = n
         /\ \A k \in 1..n : Message(i, first, n)[k] = <<i, first + k>>
<1>1. Message(i, first, n) \in [1..n -> Cell]
  BY DEF Message, Cell
<1>2. Message(i, first, n) \in Seq(Cell) /\ Len(Message(i, first, n)) = n
  BY <1>1, SMT
<1> QED BY <1>2 DEF Message

\* Those of one call and of the next.
LEMMA MessageGoesOn ==
  ASSUME NEW i \in Int, NEW g \in Nat, NEW n \in Nat
  PROVE  Message(i, 0, g) \o Message(i, g, n) = Message(i, 0, g + n)
<1> DEFINE s == Message(i, 0, g)
           t == Message(i, g, n)
           u == Message(i, 0, g + n)
           v == s \o t
<1>1. s \in Seq(Cell) /\ Len(s) = g /\ \A k \in 1..g : s[k] = <<i, 0 + k>>
  BY MessageCells
<1>2. t \in Seq(Cell) /\ Len(t) = n /\ \A k \in 1..n : t[k] = <<i, g + k>>
  BY MessageCells
<1>3. u \in Seq(Cell) /\ Len(u) = g + n /\ \A k \in 1..(g + n) : u[k] = <<i, 0 + k>>
  <2> DEFINE m == g + n
  <2>1. m \in Nat /\ 0 \in Nat
    OBVIOUS
  <2> HIDE DEF m
  <2>2. /\ Message(i, 0, m) \in Seq(Cell) /\ Len(Message(i, 0, m)) = m
        /\ \A k \in 1..m : Message(i, 0, m)[k] = <<i, 0 + k>>
    BY <2>1, MessageCells
  <2> QED BY <2>2 DEF m
<1> HIDE DEF s, t, u
<1>4. /\ v \in Seq(Cell) /\ Len(v) = Len(s) + Len(t)
      /\ (\A k \in 1..Len(s) : v[k] = s[k])
      /\ \A k \in 1..Len(t) : v[Len(s) + k] = t[k]
  <2>1. s \in Seq(Cell) /\ t \in Seq(Cell)
    BY <1>1, <1>2
  <2> QED BY ONLY <2>1, Joined DEF v
<1> HIDE DEF v
<1>5. ASSUME NEW k \in 1..(g + n) PROVE v[k] = u[k]
  <2>1. CASE k <= g
    <3>1. k \in 1..g /\ k \in 1..Len(s)
      BY <1>1, <2>1
    <3> QED BY <1>1, <1>3, <1>4, <3>1
  <2>2. CASE k > g
    <3> DEFINE m == k - g
    <3>1. m \in 1..n /\ g + m = k
      BY <2>2
    <3> HIDE DEF m
    <3>2. v[g + m] = t[m] /\ t[m] = <<i, g + m>>
      BY <1>1, <1>2, <1>4, <3>1
    <3>3. u[k] = <<i, 0 + k>> /\ 0 + k = k
      BY <1>3
    <3> QED BY <3>1, <3>2, <3>3
  <2> QED BY <2>1, <2>2
<1>6. v = u
  BY <1>1, <1>2, <1>3, <1>4, <1>5, SequencesEqual
<1> QED BY <1>6 DEF v, s, t, u

-----------------------------------------------------------------------------
(* Copying bytes into the buffer of a lane.                                *)

\* A buffer is a sequence of cells.
LEMMA CellBlockIsSequence ==
  ASSUME NEW blk \in CellBlock
  PROVE  blk \in Seq(Cell) /\ Len(blk) = SM3_MSG_BLOCK_SIZE
BY MbSizes, SMT DEF CellBlock

\* The bytes copied are in their places, and those before them as they were.
LEMMA CellsCopied ==
  ASSUME NEW s \in Seq(Cell), NEW blk \in CellBlock, NEW off \in Nat, off + Len(s) <= SM3_MSG_BLOCK_SIZE
  PROVE  /\ CopyBlock(s, blk, off) \in CellBlock
         /\ \A j \in 1..off : CopyBlock(s, blk, off)[j] = blk[j]
         /\ \A j \in 1..Len(s) : CopyBlock(s, blk, off)[off + j] = s[j]
<1> USE MbSizes
<1>1. DOMAIN blk = 1..SM3_MSG_BLOCK_SIZE
  BY DEF CellBlock
<1>2. ASSUME NEW j \in 1..SM3_MSG_BLOCK_SIZE
      PROVE  (IF j \in (off + 1)..(off + Len(s)) THEN s[j - off] ELSE blk[j]) \in Cell
  <2>1. CASE j \in (off + 1)..(off + Len(s))
    <3>1. j - off \in 1..Len(s)
      BY <2>1
    <3> QED BY <2>1, <3>1
  <2>2. CASE j \notin (off + 1)..(off + Len(s))
    BY <2>2 DEF CellBlock
  <2> QED BY <2>1, <2>2
<1>3. CopyBlock(s, blk, off) \in CellBlock
  BY <1>1, <1>2 DEF CopyBlock, CellBlock
<1>4. \A j \in 1..off : CopyBlock(s, blk, off)[j] = blk[j]
  BY <1>1 DEF CopyBlock
<1>5. \A j \in 1..Len(s) : CopyBlock(s, blk, off)[off + j] = s[j]
  BY <1>1 DEF CopyBlock
<1> QED BY <1>3, <1>4, <1>5

\* The first bytes of a buffer.
LEMMA FrontOfCells ==
  ASSUME NEW blk \in CellBlock, NEW n \in 0..SM3_MSG_BLOCK_SIZE
  PROVE  /\ SubSeq(blk, 1, n) \in Seq(Cell) /\ Len(SubSeq(blk, 1, n)) = n
         /\ \A i \in 1..n : SubSeq(blk, 1, n)[i] = blk[i]
<1>1. blk \in Seq(Cell) /\ Len(blk) = SM3_MSG_BLOCK_SIZE
  BY MbSizes, SMT DEF CellBlock
<1>2. 0 \in Nat /\ n \in Nat /\ 0 <= n /\ n <= Len(blk) /\ 0 + 1 = 1
  BY <1>1, MbSizes
<1>3. /\ SubSeq(blk, 0 + 1, n) \in Seq(Cell) /\ Len(SubSeq(blk, 0 + 1, n)) = n - 0
      /\ \A i \in 1..(n - 0) : SubSeq(blk, 0 + 1, n)[i] = blk[0 + i]
  BY <1>1, <1>2, Part
<1> QED BY <1>2, <1>3

\* What stood before the bytes copied, and then the bytes copied.
LEMMA CellsFront ==
  ASSUME NEW s \in Seq(Cell), NEW blk \in CellBlock, NEW off \in Nat, off + Len(s) <= SM3_MSG_BLOCK_SIZE
  PROVE  SubSeq(CopyBlock(s, blk, off), 1, off + Len(s)) = SubSeq(blk, 1, off) \o s
<1> DEFINE new == CopyBlock(s, blk, off)
           n == Len(s)
           t == SubSeq(new, 1, off + n)
           h == SubSeq(blk, 1, off)
<1>1. /\ new \in CellBlock /\ \A j \in 1..off : new[j] = blk[j]
      /\ \A j \in 1..n : new[off + j] = s[j]
  BY CellsCopied
<1>2. n \in Nat /\ off \in 0..SM3_MSG_BLOCK_SIZE /\ off + n \in 0..SM3_MSG_BLOCK_SIZE
  BY MbSizes
<1> HIDE DEF new
<1>3. t \in Seq(Cell) /\ Len(t) = off + n /\ \A i \in 1..(off + n) : t[i] = new[i]
  BY <1>1, <1>2, FrontOfCells
<1>4. h \in Seq(Cell) /\ Len(h) = off /\ \A i \in 1..off : h[i] = blk[i]
  BY <1>2, FrontOfCells
<1> HIDE DEF t, h
<1> DEFINE r == h \o s
<1>5. /\ r \in Seq(Cell) /\ Len(r) = Len(h) + Len(s)
      /\ (\A i \in 1..Len(h) : r[i] = h[i])
      /\ \A i \in 1..Len(s) : r[Len(h) + i] = s[i]
  <2>1. h \in Seq(Cell)
    BY <1>4
  <2> QED BY ONLY <2>1, s \in Seq(Cell), Joined DEF r
<1> HIDE DEF r, n
<1>6. /\ r \in Seq(Cell) /\ Len(r) = off + n
      /\ (\A i \in 1..off : r[i] = h[i])
      /\ \A i \in 1..n : r[off + i] = s[i]
  BY <1>4, <1>5 DEF n
<1>7. ASSUME NEW i \in 1..(off + n) PROVE t[i] = r[i]
  <2>1. CASE i <= off
    <3>1. i \in 1..off
      BY <2>1
    <3> QED BY <3>1, <1>1, <1>3, <1>4, <1>6
  <2>2. CASE ~(i <= off)
    <3> DEFINE k == i - off
    <3>1. k \in 1..n /\ off + k = i
      BY <2>2, <1>2
    <3> HIDE DEF k
    <3>2. r[off + k] = s[k] /\ t[i] = new[i] /\ new[off + k] = s[k]
      BY <1>1, <1>3, <1>6, <3>1
    <3> QED BY <3>1, <3>2
  <2> QED BY <2>1, <2>2
<1>8. t = r
  BY <1>2, <1>3, <1>6, <1>7, SequencesEqual
<1> QED BY <1>8 DEF t, h, n, r, new

-----------------------------------------------------------------------------
(* What an update does to a lane.                                          *)

\* The first n of the lane's l bytes s go into its buffer: the buffer, how much of it is
\* compressed, and where its next byte goes; the rest of the call, and its whole blocks.
LaneBuff(c, s, n) == CopyBlock(SubSeq(s, 1, n), c.buff, c.idx)
LaneFill(c, n)    == IF c.idx + n = SM3_MSG_BLOCK_SIZE THEN SM3_MSG_BLOCK_SIZE ELSE 0
LaneIdx(c, n)     == IF LaneFill(c, n) > 0 THEN 0 ELSE c.idx + n
LaneRest(l, n)    == (l - n) % SM3_MSG_BLOCK_SIZE
LaneMain(l, n)    == l - n - LaneRest(l, n)
LaneHash(c, s, l, n) ==
  (c.hash \o SubSeq(LaneBuff(c, s, n), 1, LaneFill(c, n)))
    \o SubSeq(SubSeq(s, n + 1, l), 1, LaneMain(l, n))
LaneLeft(c, s, l, n) ==
  IF LaneRest(l, n) > 0
  THEN CopyBlock(SubSeq(s, l - LaneRest(l, n) + 1, l), Zeros(SM3_MSG_BLOCK_SIZE), 0)
  ELSE LaneBuff(c, s, n)

LaneUpdated(c, s, l, n) ==
  [idx  |-> IF l # 0 THEN LaneIdx(c, n) + LaneRest(l, n) ELSE c.idx,
   len  |-> IF l # 0 THEN c.len + l ELSE c.len,
   buff |-> LaneLeft(c, s, l, n),
   hash |-> LaneHash(c, s, l, n)]

\* How much goes into the buffer: nothing into one not begun, if none of the lanes has begun
\* one, else what there is of it or what completes the block.
Takes(c, l, n) ==
  \/ n = 0 /\ c.idx = 0
  \/ n = IPP_MIN(l, SM3_MSG_BLOCK_SIZE - c.idx)

\* The cuts: what goes into the buffer, whole blocks, and less than a block.
LEMMA LaneCuts ==
  ASSUME NEW i, NEW g, NEW c, Lane(i, c, g), NEW l \in Nat, NEW n, Takes(c, l, n)
  PROVE  /\ n \in Nat /\ n <= l /\ c.idx \in Nat /\ c.idx + n <= SM3_MSG_BLOCK_SIZE
         /\ LaneRest(l, n) \in 0..(SM3_MSG_BLOCK_SIZE - 1) /\ LaneMain(l, n) \in Nat
         /\ LaneMain(l, n) % SM3_MSG_BLOCK_SIZE = 0
         /\ n + LaneMain(l, n) <= l /\ l - (n + LaneMain(l, n)) = LaneRest(l, n)
         /\ c.idx + n # SM3_MSG_BLOCK_SIZE => \/ c.idx = 0 /\ n = 0
                                              \/ LaneRest(l, n) = 0 /\ LaneMain(l, n) = 0 /\ n = l
         /\ l = 0 => c.idx + n # SM3_MSG_BLOCK_SIZE /\ n = 0 /\ LaneRest(l, n) = 0
<1> DEFINE b == SM3_MSG_BLOCK_SIZE
           d == c.idx
           m == l - n
<1>1. b \in Nat \ {0} /\ d \in 0..(b - 1)
  BY MbSizes DEF Lane
<1>2. (n = 0 /\ d = 0) \/ n = IF l < b - d THEN l ELSE b - d
  BY DEF Takes, IPP_MIN
<1> HIDE DEF b, d
<1>3. n \in Nat /\ n <= l /\ d + n <= b /\ m \in Nat
  BY <1>1, <1>2
<1> HIDE DEF m
<1>4. m % b \in 0..(b - 1) /\ m - (m % b) \in Nat /\ m - (m % b) = b * (m \div b) /\ m \div b \in Nat
  BY <1>1, <1>3, DivMod, WholeBlocksDivide
<1>5. (m - (m % b)) % b = 0
  <2> DEFINE q == m \div b
             z == 0
  <2>1. q \in Nat /\ z \in 0..(b - 1) /\ b * q + z = b * q
    BY <1>1, <1>4
  <2>2. (b * q + z) % b = z
    <3> HIDE DEF q, z
    <3> QED BY <1>1, <2>1, DivModOfSplit
  <2> QED BY <1>4, <2>1, <2>2
<1>6. LaneRest(l, n) = m % b /\ LaneMain(l, n) = m - (m % b)
  BY DEF LaneRest, LaneMain, m, b
<1>7. d + n # b => (d = 0 /\ n = 0) \/ n = l
  BY <1>1, <1>2
<1>8. ASSUME n = l PROVE m % b = 0 /\ m - (m % b) = 0
  <2>1. m = 0 /\ 0 \in 0..(b - 1)
    BY <1>1, <1>3, <1>8 DEF m
  <2>2. m % b = m
    BY <1>1, <2>1, ModOfSmall
  <2> QED BY <2>1, <2>2
<1> DEFINE r == m % b
           w == m - r
<1>9. /\ r \in 0..(b - 1) /\ w \in Nat /\ w % b = 0 /\ LaneRest(l, n) = r /\ LaneMain(l, n) = w
      /\ n = l => r = 0 /\ w = 0
  BY <1>4, <1>5, <1>6, <1>8
<1>10. n + w + r = l
  <2>1. w = m - r /\ m = l - n
    BY DEF m
  <2> HIDE DEF r, w
  <2> QED BY <1>1, <1>3, <1>9, <2>1
<1> HIDE DEF r, w
<1>11. l = 0 => n = 0
  BY <1>3
<1>12. /\ n + w <= l /\ l - (n + w) = r /\ d \in Nat
       /\ d + n # b => (d = 0 /\ n = 0) \/ (r = 0 /\ w = 0 /\ n = l)
       /\ l = 0 => d + n # b /\ n = 0 /\ r = 0
  BY <1>1, <1>3, <1>7, <1>9, <1>10, <1>11
<1> QED BY <1>3, <1>9, <1>12 DEF b, d

\* It does not matter which two of three are joined first.
Associative(r, s, t) == (r \o s) \o t = r \o (s \o t)

\* Whatever the three parts are.
LEMMA CellsAssociative ==
  ASSUME NEW r \in Seq(Cell), NEW s \in Seq(Cell), NEW t \in Seq(Cell)
  PROVE  Associative(r, s, t)
BY ConcatAssociative DEF Associative

\* A message in the three parts of the update, with what was buffered before it.
Rejoined(h, b, s1, s2, s3) ==
  ((h \o (b \o s1)) \o s2) \o s3 = (h \o b) \o (s1 \o (s2 \o s3))

\* The parts join to the message.
LEMMA PartsJoined ==
  ASSUME NEW h \in Seq(Cell), NEW b \in Seq(Cell), NEW s1 \in Seq(Cell), NEW s2 \in Seq(Cell), NEW s3 \in Seq(Cell)
  PROVE  Rejoined(h, b, s1, s2, s3)
<1>1. \A x, y \in Seq(Cell) : x \o y \in Seq(Cell)
  OBVIOUS
<1> DEFINE t == s2 \o s3
           u == b \o s1
           v == s1 \o t
           w == h \o u
<1>3. t \in Seq(Cell) /\ u \in Seq(Cell)
  BY <1>1, Zenon
<1>4. t = s2 \o s3 /\ u = b \o s1 /\ v = s1 \o t /\ w = h \o u
  OBVIOUS
<1> HIDE DEF t, u
<1>5. v \in Seq(Cell) /\ w \in Seq(Cell)
  BY <1>1, <1>3, Zenon
<1> HIDE DEF v, w
<1>6. Associative(w, s2, s3) /\ Associative(h, u, t) /\ Associative(b, s1, t) /\ Associative(h, b, v)
  BY <1>3, <1>5, CellsAssociative
<1>7. ((h \o (b \o s1)) \o s2) \o s3 = (h \o b) \o (s1 \o (s2 \o s3))
  BY <1>4, <1>6, Zenon DEF Associative
<1> QED BY <1>7 DEF Rejoined

\* Whole blocks at the end of whole blocks.
LEMMA MoreBlocks ==
  ASSUME NEW n \in Nat, NEW m \in Nat, n % SM3_MSG_BLOCK_SIZE = 0, m % SM3_MSG_BLOCK_SIZE = 0
  PROVE  (n + m) % SM3_MSG_BLOCK_SIZE = 0
<1>1. ((n % SM3_MSG_BLOCK_SIZE) + m) % SM3_MSG_BLOCK_SIZE = (n + m) % SM3_MSG_BLOCK_SIZE
  BY MbSizes, ModOfSum
<1> QED BY <1>1

\* What is left in the buffer of a lane after an update: the rest of the call, or, if the
\* block is not complete, what was there before and the bytes of the call.
InBuffer(c, s, l, n) ==
  /\ LaneBuff(c, s, n) \in CellBlock
  /\ SubSeq(LaneBuff(c, s, n), 1, c.idx + n) = SubSeq(c.buff, 1, c.idx) \o SubSeq(s, 1, n)
  /\ LaneLeft(c, s, l, n) \in CellBlock
  /\ LaneRest(l, n) > 0 => SubSeq(LaneLeft(c, s, l, n), 1, LaneRest(l, n))
                             = SubSeq(s, n + LaneMain(l, n) + 1, l)

\* The rest of a piece is in the buffer after it.
LEMMA LeftInBuffer ==
  ASSUME NEW i, NEW g, NEW c, Lane(i, c, g), NEW l \in Nat, NEW n, Takes(c, l, n),
         NEW s \in Seq(Cell), Len(s) = l
  PROVE  InBuffer(c, s, l, n)
<1> DEFINE b == SM3_MSG_BLOCK_SIZE
           r == LaneRest(l, n)
           w == LaneMain(l, n)
           s1 == SubSeq(s, 1, n)
           s3 == SubSeq(s, n + w + 1, l)
<1>1. /\ n \in Nat /\ n <= l /\ c.idx \in Nat /\ c.idx + n <= b
      /\ r \in 0..(b - 1) /\ w \in Nat /\ n + w <= l /\ l - (n + w) = r
  BY LaneCuts
<1>2. b \in Nat \ {0} /\ c.buff \in CellBlock
  BY MbSizes DEF Lane
<1> HIDE DEF r, w
<1>3. s1 \in Seq(Cell) /\ Len(s1) = n
  <2> DEFINE z == 0
  <2>1. z \in Nat /\ z <= n /\ n <= Len(s) /\ z + 1 = 1 /\ n - z = n
    BY <1>1
  <2> HIDE DEF z
  <2>2. SubSeq(s, z + 1, n) \in Seq(Cell) /\ Len(SubSeq(s, z + 1, n)) = n - z
    BY ONLY <1>1, <2>1, s \in Seq(Cell), Part
  <2> QED BY <2>1, <2>2
<1>4. s3 \in Seq(Cell) /\ Len(s3) = r
  <2> DEFINE m == n + w
  <2>1. m \in Nat /\ m <= l /\ l - m = r
    BY <1>1
  <2> HIDE DEF m
  <2>2. SubSeq(s, m + 1, l) \in Seq(Cell) /\ Len(SubSeq(s, m + 1, l)) = l - m
    BY <2>1, Part
  <2> QED BY <2>1, <2>2 DEF m
<1>5. CopyBlock(s1, c.buff, c.idx) \in CellBlock
      /\ SubSeq(CopyBlock(s1, c.buff, c.idx), 1, c.idx + Len(s1)) = SubSeq(c.buff, 1, c.idx) \o s1
  <2> HIDE DEF s1
  <2>1. c.idx + Len(s1) <= SM3_MSG_BLOCK_SIZE
    BY <1>1, <1>3
  <2> QED BY <1>1, <1>2, <1>3, <2>1, CellsCopied, CellsFront
<1>6. LaneBuff(c, s, n) = CopyBlock(s1, c.buff, c.idx)
  BY DEF LaneBuff
<1>7. l - r + 1 = n + w + 1
  BY <1>1
<1>8. r > 0 => LaneLeft(c, s, l, n) = CopyBlock(s3, Zeros(b), 0)
  BY <1>7, Zenon DEF LaneLeft, r
<1>9. ~(r > 0) => LaneLeft(c, s, l, n) = LaneBuff(c, s, n)
  BY Zenon DEF LaneLeft, r
<1>10. /\ CopyBlock(s3, Zeros(b), 0) \in CellBlock
       /\ SubSeq(CopyBlock(s3, Zeros(b), 0), 1, r) = s3
  <2> HIDE DEF s3
  <2> DEFINE z == Zeros(b)
             o == 0
             e == SubSeq(z, 1, o)
  <2>1. z \in CellBlock
    <3>1. Zero \in Cell
      BY DEF Zero, Cell
    <3> QED BY <3>1 DEF Zeros, CellBlock
  <2>2. o \in Nat /\ o \in 0..b /\ o + Len(s3) = r /\ o + Len(s3) <= SM3_MSG_BLOCK_SIZE
    BY <1>1, <1>2, <1>4
  <2>3. e = <<>>
    <3>1. z \in Seq(Cell)
      BY <1>2, <2>1, SMT DEF CellBlock
    <3> HIDE DEF z
    <3>2. SubSeq(z, o + 1, o) = <<>> /\ o + 1 = 1
      BY <2>2, <3>1, NoPart
    <3> QED BY <3>2
  <2> HIDE DEF z, o
  <2>4. /\ CopyBlock(s3, z, o) \in CellBlock
        /\ SubSeq(CopyBlock(s3, z, o), 1, o + Len(s3)) = SubSeq(z, 1, o) \o s3
    BY <1>4, <2>1, <2>2, CellsCopied, CellsFront
  <2>5. <<>> \o s3 = s3
    BY <1>4
  <2>6. SubSeq(CopyBlock(s3, z, o), 1, r) = s3
    BY <2>2, <2>3, <2>4, <2>5, Zenon DEF e
  <2> QED BY <2>4, <2>6 DEF z, o
<1>11. LaneLeft(c, s, l, n) \in CellBlock
  BY <1>5, <1>6, <1>8, <1>9, <1>10, Zenon
<1>12. r > 0 => SubSeq(LaneLeft(c, s, l, n), 1, r) = s3
  BY <1>8, <1>10, Zenon
<1>13. SubSeq(LaneBuff(c, s, n), 1, c.idx + n) = SubSeq(c.buff, 1, c.idx) \o s1
  BY <1>3, <1>5, <1>6, Zenon
<1>14. LaneBuff(c, s, n) \in CellBlock
  BY <1>5, <1>6, Zenon
<1> QED BY <1>11, <1>12, <1>13, <1>14, Zenon DEF r, w, InBuffer

\* The parts of an update in their places: the block was completed, none was begun, or all
\* of the call is buffered.
InPlaces(h, b, s1, s2, s3, x, e) ==
  \/ x = b \o s1 /\ e = s3
  \/ x = <<>> /\ b = <<>> /\ s1 = <<>> /\ e = s3
  \/ x = <<>> /\ s2 = <<>> /\ s3 = <<>> /\ e = b \o s1

AllJoined(h, b, s1, s2, s3, x, e) ==
  ((h \o x) \o s2) \o e = (h \o b) \o (s1 \o (s2 \o s3))

\* The same of a lane, whichever parts its piece has.
LEMMA LaneJoined ==
  ASSUME NEW h \in Seq(Cell), NEW b \in Seq(Cell), NEW s1 \in Seq(Cell), NEW s2 \in Seq(Cell),
         NEW s3 \in Seq(Cell), NEW x, NEW e, InPlaces(h, b, s1, s2, s3, x, e)
  PROVE  AllJoined(h, b, s1, s2, s3, x, e)
<1> SUFFICES ((h \o x) \o s2) \o e = (h \o b) \o (s1 \o (s2 \o s3))
  BY DEF AllJoined
<1>1. ((h \o (b \o s1)) \o s2) \o s3 = (h \o b) \o (s1 \o (s2 \o s3))
  <2>1. Rejoined(h, b, s1, s2, s3)
    BY PartsJoined
  <2> QED BY <2>1, Zenon DEF Rejoined
<1>2. CASE x = b \o s1 /\ e = s3
  BY <1>1, <1>2, Zenon
<1>3. CASE x = <<>> /\ b = <<>> /\ s1 = <<>> /\ e = s3
  <2>1. b \o s1 = x
    BY <1>3
  <2> QED BY <1>1, <1>3, <2>1, Zenon
<1>4. CASE x = <<>> /\ s2 = <<>> /\ s3 = <<>> /\ e = b \o s1
  <2>1. h \o x = h /\ h \o s2 = h
    BY <1>4
  <2>2. s1 \o (s2 \o s3) = s1
    BY <1>4
  <2>3. h \o (b \o s1) = (h \o b) \o s1
    <3>1. Associative(h, b, s1)
      BY CellsAssociative
    <3> QED BY <3>1, Zenon DEF Associative
  <2> QED BY <1>4, <2>1, <2>2, <2>3, Zenon
<1> QED BY <1>2, <1>3, <1>4, Zenon DEF InPlaces

\* Part of what follows is the part there.
LEMMA PartOfEnd ==
  ASSUME NEW X, NEW s \in Seq(X), NEW n \in Nat, NEW w \in Nat, n + w <= Len(s)
  PROVE  SubSeq(SubSeq(s, n + 1, Len(s)), 1, w) = SubSeq(s, n + 1, n + w)
<1> DEFINE l == Len(s)
           t == SubSeq(s, n + 1, l)
           z == 0
           k == n + w
           p == SubSeq(t, 1, w)
           q == SubSeq(s, n + 1, k)
<1>1. z \in Nat /\ z <= w /\ z + 1 = 1 /\ w - z = w /\ w <= l - n /\ l - n \in Nat /\ l \in Nat /\ n <= l
      /\ k \in Nat /\ n <= k /\ k <= l /\ k - n = w
      /\ k <= Len(s) /\ l <= Len(s)
      /\ \A j \in 1..w : z + j = j
  OBVIOUS
<1> HIDE DEF z, k, l
<1>2. t \in Seq(X) /\ Len(t) = l - n /\ \A j \in 1..(l - n) : t[j] = s[n + j]
  BY <1>1, Part
<1>3. q \in Seq(X) /\ Len(q) = w /\ \A j \in 1..w : q[j] = s[n + j]
  <2>1. q \in Seq(X) /\ Len(q) = k - n /\ \A j \in 1..(k - n) : q[j] = s[n + j]
    BY <1>1, Part
  <2> QED BY <1>1, <2>1, Zenon
<1> HIDE DEF t, q
<1>4. p \in Seq(X) /\ Len(p) = w /\ \A j \in 1..w : p[j] = t[j]
  <2>1. /\ SubSeq(t, z + 1, w) \in Seq(X) /\ Len(SubSeq(t, z + 1, w)) = w - z
        /\ \A j \in 1..(w - z) : SubSeq(t, z + 1, w)[j] = t[z + j]
    <3>1. w <= Len(t)
      BY <1>1, <1>2
    <3> QED BY <1>1, <1>2, <3>1, Part
  <2> QED BY <1>1, <2>1
<1> HIDE DEF p
<1>5. ASSUME NEW j \in 1..w PROVE p[j] = q[j]
  <2>1. j \in 1..(l - n)
    BY <1>1
  <2> QED BY <1>2, <1>3, <1>4, <2>1, Zenon
<1>6. p = q
  BY <1>3, <1>4, <1>5, SequencesEqual
<1> QED BY <1>6 DEF p, t, q, k, l

\* A lane after an update holds the bytes it held and those of the call, and no others.
LEMMA LaneGoesOn ==
  ASSUME NEW i \in Int, NEW g \in Nat, NEW c, Lane(i, c, g), NEW l \in Nat, NEW n, Takes(c, l, n)
  PROVE  Lane(i, LaneUpdated(c, Message(i, g, l), l, n), g + l)
<1> DEFINE s == Message(i, g, l)
           b == SM3_MSG_BLOCK_SIZE
           d == c.idx
           r == LaneRest(l, n)
           w == LaneMain(l, n)
           f == LaneFill(c, n)
           s1 == SubSeq(s, 1, n)
           s2 == SubSeq(s, n + 1, n + w)
           s3 == SubSeq(s, n + w + 1, l)
           h  == c.hash
           b0 == SubSeq(c.buff, 1, d)
           fb == LaneBuff(c, s, n)
           lb == LaneLeft(c, s, l, n)
           x  == SubSeq(fb, 1, f)
           m  == SubSeq(SubSeq(s, n + 1, l), 1, w)
           hs == (h \o x) \o m
           ix == LaneIdx(c, n) + r
           e  == SubSeq(lb, 1, ix)
           u  == LaneUpdated(c, s, l, n)
<1>1. s \in Seq(Cell) /\ Len(s) = l
  BY MessageCells
<1>2. /\ n \in Nat /\ n <= l /\ d \in Nat /\ d + n <= b
      /\ r \in 0..(b - 1) /\ w \in Nat /\ w % b = 0 /\ n + w <= l /\ l - (n + w) = r
      /\ d + n # b => (d = 0 /\ n = 0) \/ (r = 0 /\ w = 0 /\ n = l)
      /\ l = 0 => d + n # b /\ n = 0 /\ r = 0
  BY LaneCuts
<1>3. /\ b \in Nat \ {0} /\ d \in 0..(b - 1) /\ h \in Seq(Cell) /\ Len(h) % b = 0
      /\ h \o b0 = Message(i, 0, g) /\ c.len = g /\ c.buff \in CellBlock
  BY MbSizes DEF Lane
<1>4. f = (IF d + n = b THEN b ELSE 0) /\ LaneIdx(c, n) = (IF f > 0 THEN 0 ELSE d + n)
  BY DEF LaneFill, LaneIdx
<1>5. u = [idx |-> IF l # 0 THEN ix ELSE d, len |-> IF l # 0 THEN c.len + l ELSE c.len, buff |-> lb, hash |-> hs]
  BY Zenon DEF LaneUpdated, LaneHash
<1>6. ~(r > 0) => lb = fb
  BY Zenon DEF LaneLeft
<1> HIDE DEF s, d, r, w, f, h, fb, lb
<1>7. b0 \in Seq(Cell)
  <2>1. d \in 0..SM3_MSG_BLOCK_SIZE
    BY <1>3
  <2> QED BY <1>3, <2>1, FrontOfCells
<1>8. /\ fb \in CellBlock /\ SubSeq(fb, 1, d + n) = b0 \o s1
      /\ lb \in CellBlock
      /\ r > 0 => SubSeq(lb, 1, r) = s3
  <2>1. InBuffer(c, s, l, n)
    BY <1>1, LeftInBuffer
  <2> QED BY <2>1, Zenon DEF InBuffer, fb, lb, d, r, w
<1>9. /\ s1 \in Seq(Cell) /\ s2 \in Seq(Cell) /\ s3 \in Seq(Cell) /\ Len(s2) = w /\ Len(s3) = r
      /\ Len(s1) = n /\ s = s1 \o (s2 \o s3)
  <2> DEFINE k == n + w
  <2>1. k \in Nat /\ n <= k /\ k <= Len(s) /\ k - n = w /\ Len(s) - k = r
    BY <1>1, <1>2
  <2> HIDE DEF k
  <2>2. InThreeParts(Cell, s, n, k)
    BY <1>1, <1>2, <2>1, ThreeParts
  <2> QED BY <1>1, <2>1, <2>2, Zenon DEF InThreeParts, k
<1>10. m = s2
  <2>1. SubSeq(SubSeq(s, n + 1, Len(s)), 1, w) = SubSeq(s, n + 1, n + w)
    BY <1>1, <1>2, PartOfEnd
  <2> QED BY <1>1, <2>1, Zenon
<1>11. ix \in 0..(b - 1) /\ f \in {0, b} /\ f \in 0..b /\ f \in Nat
  BY <1>2, <1>3, <1>4
<1>12. x \in Seq(Cell) /\ Len(x) = f
  BY <1>8, <1>11, FrontOfCells
<1>13. lb \in Seq(Cell) /\ fb \in Seq(Cell) /\ c.buff \in Seq(Cell)
  BY <1>3, <1>8, CellBlockIsSequence
<1>14. SubSeq(lb, 1, 0) = <<>> /\ SubSeq(fb, 1, 0) = <<>> /\ SubSeq(c.buff, 1, 0) = <<>>
  BY <1>13, SMT
<1>15. /\ (w = 0 => s2 = <<>>) /\ (r = 0 => s3 = <<>>) /\ (n = 0 => s1 = <<>>)
       /\ d = 0 => b0 = <<>>
  <2>1. \A t \in Seq(Cell) : Len(t) = 0 => t = <<>>
    OBVIOUS
  <2> HIDE DEF s1, s2, s3
  <2>2. (w = 0 => s2 = <<>>) /\ (r = 0 => s3 = <<>>) /\ (n = 0 => s1 = <<>>)
    BY <1>9, <2>1, Zenon
  <2> QED BY <1>14, <2>2, Zenon
<1> HIDE DEF s1, s2, s3, m, x, e, ix, b0
<1>16. e = IF ix = 0 THEN <<>> ELSE SubSeq(lb, 1, ix)
  BY <1>14, Zenon DEF e
<1>17. \/ x = b0 \o s1 /\ e = s3
       \/ x = <<>> /\ b0 = <<>> /\ s1 = <<>> /\ e = s3
       \/ x = <<>> /\ s2 = <<>> /\ s3 = <<>> /\ e = b0 \o s1
  <2>1. ix = r => e = s3
    <3>1. CASE r > 0
      BY <1>8, <3>1, Zenon DEF e
    <3>2. CASE ~(r > 0)
      <4>1. r = 0
        BY <1>2, <3>2
      <4> QED BY <1>15, <1>16, <4>1, Zenon
    <3> QED BY <3>1, <3>2
  <2>2. CASE d + n = b
    <3>1. f = b /\ ix = r
      BY <1>2, <1>3, <1>4, <2>2 DEF ix
    <3>2. x = b0 \o s1
      BY <1>8, <2>2, <3>1, Zenon DEF x
    <3> QED BY <2>1, <3>1, <3>2, Zenon
  <2>3. CASE d + n # b
    <3>1. f = 0
      BY <1>4, <2>3, Zenon
    <3>2. x = <<>>
      BY <1>14, <3>1, Zenon DEF x
    <3>3. ix = d + n + r
      BY <1>2, <1>4, <3>1 DEF ix
    <3>4. CASE d = 0 /\ n = 0
      <4>1. ix = r
        BY <1>2, <3>3, <3>4
      <4> QED BY <1>15, <2>1, <3>2, <3>4, <4>1, Zenon
    <3>5. CASE r = 0 /\ w = 0 /\ n = l
      <4>1. ix = d + n /\ ~(r > 0)
        BY <1>2, <3>3, <3>5
      <4>2. e = b0 \o s1
        BY <1>6, <1>8, <4>1, Zenon DEF e
      <4> QED BY <1>15, <3>2, <3>5, <4>2, Zenon
    <3> QED BY <1>2, <2>3, <3>4, <3>5
  <2> QED BY <2>2, <2>3
<1>18. (h \o x) \o s2 \in Seq(Cell) /\ Len((h \o x) \o s2) % b = 0
  <2> DEFINE y == h \o x
             v == y \o s2
             a == Len(h) + f
  <2>1. y \in Seq(Cell) /\ Len(y) = a /\ Len(h) \in Nat
    BY <1>3, <1>12, Joined
  <2>2. f % b = 0
    <3>1. 0 % b = 0
      <4>1. 0 \in 0..(b - 1)
        BY <1>3
      <4> QED BY <1>3, <4>1, ModOfSmall
    <3>2. b % b = 0
      BY <1>3
    <3> QED BY <1>11, <3>1, <3>2
  <2>3. a \in Nat /\ a % SM3_MSG_BLOCK_SIZE = 0
    <3>1. a \in Nat
      BY <1>11, <2>1
    <3> QED BY <1>3, <1>11, <2>1, <2>2, <3>1, MoreBlocks
  <2> HIDE DEF y, a
  <2>4. v \in Seq(Cell) /\ Len(v) = a + w
    BY <1>9, <2>1, Joined
  <2>5. (a + w) % SM3_MSG_BLOCK_SIZE = 0
    BY <1>2, <2>3, MoreBlocks
  <2> HIDE DEF v
  <2>6. v \in Seq(Cell) /\ Len(v) % b = 0
    BY <2>4, <2>5, Zenon
  <2> QED BY <2>6 DEF v, y
<1>19. hs = (h \o x) \o s2
  BY <1>10, Zenon
<1>20. hs \o e = (h \o b0) \o (s1 \o (s2 \o s3))
  <2>1. ((h \o x) \o s2) \o e = (h \o b0) \o (s1 \o (s2 \o s3))
    <3>1. InPlaces(h, b0, s1, s2, s3, x, e)
      BY <1>17, Zenon DEF InPlaces
    <3>2. AllJoined(h, b0, s1, s2, s3, x, e)
      BY <1>3, <1>7, <1>9, <3>1, LaneJoined
    <3> QED BY <3>2, Zenon DEF AllJoined
  <2> QED BY <1>19, <2>1, Zenon
<1>21. (h \o b0) \o (s1 \o (s2 \o s3)) = Message(i, 0, g + l)
  <2>1. Message(i, 0, g) \o Message(i, g, l) = Message(i, 0, g + l)
    BY MessageGoesOn
  <2> QED BY <1>3, <1>9, <2>1, Zenon DEF s
<1> HIDE DEF u, hs
<1>22. u.idx = ix /\ u.len = g + l /\ u.buff = lb /\ u.hash = hs
       /\ u = [idx |-> u.idx, len |-> u.len, buff |-> u.buff, hash |-> u.hash]
  <2>1. u.idx = (IF l # 0 THEN ix ELSE d) /\ u.len = (IF l # 0 THEN g + l ELSE g)
        /\ u.buff = lb /\ u.hash = hs
        /\ u = [idx |-> u.idx, len |-> u.len, buff |-> u.buff, hash |-> u.hash]
    BY <1>3, <1>5
  <2>2. l = 0 => ix = d
    BY <1>2, <1>3, <1>4 DEF ix
  <2>3. l = 0 => g = g + l
    OBVIOUS
  <2> QED BY <2>1, <2>2, <2>3, Zenon
<1>23. u.hash \o SubSeq(u.buff, 1, u.idx) = Message(i, 0, g + l)
  BY <1>20, <1>21, <1>22, Zenon DEF e
<1>24. hs \in Seq(Cell) /\ Len(hs) % b = 0
  BY <1>18, <1>19, Zenon
<1>25. Lane(i, u, g + l)
  BY <1>8, <1>11, <1>22, <1>23, <1>24, Zenon DEF Lane
<1> QED BY <1>25 DEF u, s

-----------------------------------------------------------------------------
(* The functions of all lanes.                                             *)

\* What an update of the batch does to each lane, in the mb16 form.
LEMMA UpdateOfLane ==
  ASSUME MB16, NEW ctx, NEW given, AllLanes(ctx, given), NEW src, NEW ls \in [Lanes -> Nat],
         \E i \in Lanes : ls[i] # 0, NEW i \in Lanes
  PROVE  \E n : /\ Takes(ctx[i], ls[i], n)
                /\ Update(ctx, src, ls, {}).ctx[i] = LaneUpdated(ctx[i], src[i], ls[i], n)
<1> DEFINE B    == SM3_MSG_BLOCK_SIZE
           mask == {j \in Lanes : ls[j] # 0}
           n    == FillTakes(ctx, ls)
           c1   == Buffered(ctx, src, n, {})
           full == {j \in Lanes : c1[j].idx = B}
           fill == IF full = {} THEN [j \in Lanes |-> 0] ELSE FillLens(full, n)
           c2   == Compressed(c1, [j \in Lanes |-> c1[j].buff], fill)
           c3   == [j \in Lanes |-> [c2[j] EXCEPT !.idx = IF fill[j] > 0 THEN 0 ELSE @]]
           rest == [j \in Lanes |-> (ls[j] - n[j]) % B]
           main == [j \in Lanes |-> ls[j] - n[j] - rest[j]]
           c4   == Compressed(c3, [j \in Lanes |-> SubSeq(src[j], n[j] + 1, ls[j])], main)
           end(j) == SubSeq(src[j], ls[j] - rest[j] + 1, ls[j])
           new(j) == [idx  |-> IF j \in mask THEN c4[j].idx + rest[j] ELSE ctx[j].idx,
                      len  |-> IF j \in mask THEN ctx[j].len + ls[j] ELSE ctx[j].len,
                      buff |-> IF j \in Stores(rest) THEN CopyBlock(end(j), Zeros(B), 0) ELSE c4[j].buff,
                      hash |-> c4[j].hash]
           U    == Update(ctx, src, ls, {})
           c    == ctx[i]
           s    == src[i]
           l    == ls[i]
           k    == n[i]
           R(d, u, v, h) == [idx |-> d, len |-> u, buff |-> v, hash |-> h]
<1>1. U = [returned |-> mask = {} \/ (Completes(fill) /\ Completes(main)),
           ctx |-> IF mask = {} THEN ctx ELSE [j \in Lanes |-> new(j)]]
  BY Zenon DEF Update
<1>2. mask # {}
  OBVIOUS
<1>3. U.ctx[i] = new(i)
  <2> HIDE DEF U, mask, new
  <2>1. U.ctx = [j \in Lanes |-> new(j)]
    BY <1>1, <1>2
  <2> QED BY <2>1
<1>4. Lane(i, c, given[i]) /\ l \in Nat /\ B \in Nat
  BY MbSizes DEF AllLanes
<1>5. c = R(c.idx, c.len, c.buff, c.hash) /\ c.idx \in 0..(B - 1)
  BY <1>4 DEF Lane
<1>6. Takes(c, l, k)
  <2>1. k = IF \A j \in Lanes : ctx[j].idx = 0 THEN 0 ELSE IPP_MIN(l, B - c.idx)
    BY DEF FillTakes
  <2> QED BY <2>1 DEF Takes
<1> HIDE DEF n
<1>7. c1[i] = R(c.idx + k, c.len, LaneBuff(c, s, k), c.hash)
  <2>1. c1[i] = [c EXCEPT !.idx = @ + k, !.buff = CopyBlock(SubSeq(s, 1, k), @, c.idx)]
    BY DEF Buffered
  <2> DEFINE d0 == c.idx
             l0 == c.len
             b0 == c.buff
             h0 == c.hash
             v == LaneBuff(c, s, k)
             x1 == [c EXCEPT !.idx = d0 + k]
             x2 == [x1 EXCEPT !.buff = v]
  <2>2. v = CopyBlock(SubSeq(s, 1, k), b0, d0)
    BY DEF LaneBuff
  <2>3. c = R(d0, l0, b0, h0)
    BY <1>5
  <2>4. c1[i] = x2
    BY <2>1, <2>2, <2>3
  <2> HIDE DEF d0, l0, b0, h0, v, c1, c
  <2>5. x1 = R(d0 + k, l0, b0, h0)
    BY <2>3
  <2> HIDE DEF x1
  <2>6. x2 = R(d0 + k, l0, v, h0)
    BY <2>5
  <2> QED BY <2>4, <2>6 DEF d0, l0, v, h0
<1>8. i \in full <=> c.idx + k = B
  <2> HIDE DEF c1
  <2> QED BY <1>7
<1> HIDE DEF c1
<1>9. fill[i] = LaneFill(c, k)
  <2> HIDE DEF full
  <2>1. CASE full = {}
    BY <1>8, <2>1 DEF LaneFill
  <2>2. CASE full # {}
    <3>1. fill = FillLens(full, n)
      BY <2>2
    <3>2. FillLens(full, n)[i] = IF i \in full THEN B ELSE 0
      BY DEF FillLens
    <3> QED BY <1>8, <3>1, <3>2 DEF LaneFill
  <2> QED BY <2>1, <2>2
<1> HIDE DEF full, fill
<1> DEFINE v == LaneBuff(c, s, k)
           f == LaneFill(c, k)
           h2 == c.hash \o SubSeq(v, 1, f)
<1>10. c2[i] = R(c.idx + k, c.len, v, h2)
  <2>1. c2[i] = [c1[i] EXCEPT !.hash = @ \o SubSeq(c1[i].buff, 1, fill[i])]
    BY DEF Compressed
  <2> DEFINE x == c1[i]
             d1 == c.idx + k
             l0 == c.len
             h0 == c.hash
  <2>2. x = R(d1, l0, v, h0)
    BY <1>7
  <2>3. h2 = h0 \o SubSeq(v, 1, f) /\ c2[i] = [x EXCEPT !.hash = @ \o SubSeq(x.buff, 1, f)]
    BY <1>9, <2>1
  <2> HIDE DEF x, d1, l0, h0, v, f, c2, h2
  <2>4. x.buff = v /\ x.hash = h0
    BY <2>2
  <2>5. c2[i] = [x EXCEPT !.hash = h2]
    BY <2>3, <2>4
  <2> QED BY <2>2, <2>5 DEF d1, l0
<1> HIDE DEF c2
<1>11. c3[i] = R(LaneIdx(c, k), c.len, v, h2)
  <2>1. c3[i] = [c2[i] EXCEPT !.idx = IF fill[i] > 0 THEN 0 ELSE @]
    OBVIOUS
  <2> DEFINE x == c2[i]
             d1 == c.idx + k
             l0 == c.len
  <2>2. x = R(d1, l0, v, h2) /\ LaneIdx(c, k) = (IF f > 0 THEN 0 ELSE d1)
    BY <1>10 DEF LaneIdx
  <2>3. c3[i] = [x EXCEPT !.idx = IF f > 0 THEN 0 ELSE @]
    BY <1>9, <2>1
  <2> HIDE DEF x, d1, l0, v, f, c3, h2
  <2>4. x.idx = d1
    BY <2>2
  <2>5. c3[i] = [x EXCEPT !.idx = LaneIdx(c, k)]
    BY <2>2, <2>3, <2>4
  <2> QED BY <2>2, <2>5 DEF l0
<1> HIDE DEF c3
<1>12. rest[i] = LaneRest(l, k) /\ main[i] = LaneMain(l, k)
  BY DEF LaneRest, LaneMain
<1>13. Stores(rest) = {j \in Lanes : rest[j] > 0}
  BY DEF Stores
<1>14. i \in Stores(rest) <=> LaneRest(l, k) > 0
  <2> HIDE DEF rest
  <2> QED BY <1>12, <1>13
<1> HIDE DEF rest, main
<1>15. c4[i] = R(LaneIdx(c, k), c.len, v, LaneHash(c, s, l, k))
  <2> DEFINE x == c3[i]
             d1 == LaneIdx(c, k)
             l0 == c.len
             t  == SubSeq(SubSeq(s, k + 1, l), 1, main[i])
             h4 == LaneHash(c, s, l, k)
  <2>1. c4[i] = [x EXCEPT !.hash = @ \o t]
    BY DEF Compressed
  <2>2. x = R(d1, l0, v, h2) /\ h4 = h2 \o t
    BY <1>11, <1>12 DEF LaneHash
  <2> HIDE DEF x, d1, l0, v, t, h4, c4, h2
  <2>3. x.hash = h2
    BY <2>2
  <2>4. c4[i] = [x EXCEPT !.hash = h4]
    BY <2>1, <2>2, <2>3
  <2> QED BY <2>2, <2>4 DEF d1, l0, h4
<1> HIDE DEF c4
<1>16. i \in mask <=> l # 0
  OBVIOUS
<1>17. c4[i].idx = LaneIdx(c, k) /\ c4[i].buff = v /\ c4[i].hash = LaneHash(c, s, l, k)
  <2> HIDE DEF v, c, l, s, k
  <2> QED BY <1>15
<1>18. end(i) = SubSeq(s, l - LaneRest(l, k) + 1, l)
  BY <1>12
<1> HIDE DEF mask, end
<1>19. new(i) = LaneUpdated(c, s, l, k)
  <2>1. new(i) = [idx  |-> IF l # 0 THEN LaneIdx(c, k) + LaneRest(l, k) ELSE c.idx,
                  len  |-> IF l # 0 THEN c.len + l ELSE c.len,
                  buff |-> IF LaneRest(l, k) > 0 THEN CopyBlock(SubSeq(s, l - LaneRest(l, k) + 1, l), Zeros(B), 0)
                                              ELSE v,
                  hash |-> LaneHash(c, s, l, k)]
    BY <1>12, <1>14, <1>16, <1>17, <1>18, Zenon
  <2> QED BY <2>1, Zenon DEF LaneUpdated, LaneLeft
<1> QED BY <1>3, <1>6, <1>19

\* An update of the batch keeps every lane, whatever the lengths in the others.
LEMMA UpdateKeepsLanes ==
  ASSUME MB16, NEW ctx, NEW given, AllLanes(ctx, given), NEW ls \in [Lanes -> Nat],
         NEW src, src = [i \in Lanes |-> Message(i, given[i], ls[i])]
  PROVE  /\ Update(ctx, src, ls, {}).returned
         /\ AllLanes(Update(ctx, src, ls, {}).ctx, [i \in Lanes |-> given[i] + ls[i]])
<1> DEFINE U == Update(ctx, src, ls, {})
           sum == [i \in Lanes |-> given[i] + ls[i]]
<1>1. U.returned
  BY DEF Update, Completes
<1>2. sum \in [Lanes -> Nat]
  BY DEF AllLanes
<1>3. CASE \A i \in Lanes : ls[i] = 0
  <2>1. {i \in Lanes : ls[i] # 0} = {}
    BY <1>3
  <2>2. U.ctx = ctx
    BY <2>1 DEF Update
  <2>3. \A i \in Lanes : sum[i] = given[i]
    BY <1>3 DEF AllLanes
  <2> HIDE DEF U, sum
  <2> QED BY <1>1, <1>2, <2>2, <2>3 DEF AllLanes, U, sum
<1>4. CASE \E i \in Lanes : ls[i] # 0
  <2>1. U.ctx = [i \in Lanes |-> U.ctx[i]]
    <3>1. {i \in Lanes : ls[i] # 0} # {}
      BY <1>4
    <3> QED BY <3>1 DEF Update
  <2>2. ASSUME NEW i \in Lanes PROVE Lane(i, U.ctx[i], sum[i])
    <3>1. PICK n : Takes(ctx[i], ls[i], n) /\ U.ctx[i] = LaneUpdated(ctx[i], src[i], ls[i], n)
      BY <1>4, UpdateOfLane
    <3>2. /\ i \in Int /\ given[i] \in Nat /\ ls[i] \in Nat /\ Lane(i, ctx[i], given[i])
          /\ src[i] = Message(i, given[i], ls[i]) /\ sum[i] = given[i] + ls[i]
      BY MbSizes DEF AllLanes
    <3>3. Lane(i, LaneUpdated(ctx[i], Message(i, given[i], ls[i]), ls[i], n), given[i] + ls[i])
      BY <3>1, <3>2, LaneGoesOn
    <3> HIDE DEF U, sum
    <3> QED BY <3>1, <3>2, <3>3, Zenon
  <2> HIDE DEF U, sum
  <2>3. AllLanes(U.ctx, sum)
    BY <1>2, <2>1, <2>2, Zenon DEF AllLanes
  <2> QED BY <1>1, <2>3 DEF U, sum
<1> QED BY <1>3, <1>4

-----------------------------------------------------------------------------
(* What Final does to a lane: the padding is that of the standard.         *)

PadLen(d) == IF d < SM3_MSG_BLOCK_SIZE - SM3_MSG_LEN_REPR THEN SM3_MSG_BLOCK_SIZE ELSE 2 * SM3_MSG_BLOCK_SIZE
WholeLen(n) == ((n + SM3_MSG_BLOCK_SIZE - 1) \div SM3_MSG_BLOCK_SIZE) * SM3_MSG_BLOCK_SIZE

\* Padding the d bytes in the buffer to one block or two pads the message to whole blocks.
LEMMA PaddingLength ==
  ASSUME NEW h \in Nat, h % SM3_MSG_BLOCK_SIZE = 0, NEW d \in 0..(SM3_MSG_BLOCK_SIZE - 1)
  PROVE  /\ PadLen(d) - d - 1 - SM3_MSG_LEN_REPR \in Nat
         /\ WholeLen(h + d + 1 + SM3_MSG_LEN_REPR) - (h + d + 1 + SM3_MSG_LEN_REPR)
              = PadLen(d) - d - 1 - SM3_MSG_LEN_REPR
<1> DEFINE b == SM3_MSG_BLOCK_SIZE
           r == SM3_MSG_LEN_REPR
           q == h \div b
           t == d + 1 + r
           n == h + d + 1 + r
           k == BlocksIn(b, n)
<1>1. b \in Nat \ {0} /\ r \in Nat /\ r < b
  BY MbSizes
<1>2. q \in Nat /\ h = b * q
  <2> HIDE DEF b
  <2>1. h % b = 0
    BY DEF b
  <2>2. h \div b \in Nat /\ h = b * (h \div b) + (h % b)
    BY <1>1, DivMod
  <2> DEFINE p == b * (h \div b)
  <2>3. p \in Nat
    BY <1>1, <2>2, SMT
  <2>4. h = p + 0 /\ p + 0 = p
    <3> HIDE DEF p
    <3> QED BY <2>1, <2>2, <2>3 DEF p
  <2> QED BY <2>2, <2>4, Zenon
<1>3. WholeLen(n) = k * b
  BY DEF WholeLen, BlocksIn
<1>4. t \in Nat /\ t >= 1 /\ t < 2 * b /\ d \in Nat /\ d < b
  BY <1>1
<1>5. n = b * q + t
  BY <1>1, <1>2
<1>6. PadLen(d) = IF t <= b THEN b ELSE 2 * b
  BY <1>1, <1>4 DEF PadLen
<1> HIDE DEF b, r, q
<1>7. PadLen(d) - t \in Nat
  BY <1>1, <1>4, <1>6
<1>8. CASE t <= b
  <2> HIDE DEF t, n
  <2>1. t \in 1..b
    BY <1>4, <1>8
  <2>2. BlocksIn(b, b * q + t) = q + 1
    BY <1>1, <1>2, <2>1, BlocksInBegun
  <2>3. k = q + 1
    BY <1>5, <2>2
  <2>4. k * b = b * q + b
    BY <1>1, <1>2, <2>3, SMT
  <2> DEFINE bq == b * q
  <2>5. bq \in Nat /\ k * b = bq + b /\ n = bq + t
    BY <1>1, <1>2, <1>5, <2>4, SMT
  <2> HIDE DEF bq, k
  <2>6. k * b - n = PadLen(d) - t
    BY <1>1, <1>4, <1>6, <1>8, <2>5
  <2>7. t = d + 1 + r /\ n = h + d + 1 + r
    BY DEF t, n
  <2>8. PadLen(d) - t = PadLen(d) - d - 1 - r
    BY <1>1, <1>4, <1>6, <1>8, <2>7
  <2> QED BY <1>3, <1>7, <2>6, <2>7, <2>8, Zenon DEF r
<1>9. CASE ~(t <= b)
  <2> DEFINE p == q + 1
             u == t - b
  <2>1. u \in 1..b /\ p \in Nat
    BY <1>1, <1>2, <1>4, <1>9
  <2>2. b * p = b * q + b
    BY <1>1, <1>2, SMT
  <2> DEFINE bq == b * q
  <2>3. bq \in Nat /\ b * p = bq + b /\ n = bq + t
    <3> HIDE DEF t, n
    <3> QED BY <1>1, <1>2, <1>5, <2>2, SMT
  <2> HIDE DEF n, bq
  <2>4. n = b * p + u
    <3> HIDE DEF p
    <3> QED BY <1>1, <1>4, <2>3
  <2> HIDE DEF u, p
  <2>5. BlocksIn(b, b * p + u) = p + 1
    BY <1>1, <2>1, BlocksInBegun
  <2>6. k = p + 1
    BY <2>4, <2>5
  <2>7. k * b = b * p + b
    BY <1>1, <2>1, <2>6, SMT
  <2> HIDE DEF k, t
  <2>8. k * b - n = PadLen(d) - t
    <3> DEFINE bp == b * p
               kb == k * b
    <3>1. kb = bp + b /\ bp = bq + b /\ n = bq + t
      BY <2>3, <2>7
    <3> HIDE DEF bp, kb
    <3>2. kb - n = PadLen(d) - t
      BY <1>1, <1>4, <1>6, <1>9, <2>3, <3>1
    <3> QED BY <3>2 DEF kb
  <2>9. t = d + 1 + r /\ n = h + d + 1 + r
    BY DEF t, n
  <2>10. PadLen(d) - t = PadLen(d) - d - 1 - r
    BY <1>1, <1>4, <1>6, <1>9, <2>9
  <2> QED BY <1>3, <1>7, <2>8, <2>9, <2>10, Zenon DEF r
<1> QED BY <1>8, <1>9

\* The padding is of cells.
LEMMA PaddingCells ==
  ASSUME NEW n \in Nat, NEW k \in Nat
  PROVE  /\ Zeros(k) \in Seq(Cell) /\ Len(Zeros(k)) = k
         /\ LengthField(n) \in Seq(Cell) /\ Len(LengthField(n)) = SM3_MSG_LEN_REPR
         /\ << <<-1, -1>> >> \in Seq(Cell) /\ Len(<< <<-1, -1>> >>) = 1
<1>1. Zeros(k) \in [1..k -> Cell]
  BY DEF Zeros, Zero, Cell
<1>2. LengthField(n) \in [1..SM3_MSG_LEN_REPR -> Cell]
  BY DEF LengthField, Cell
<1>3. <<-1, -1>> \in Cell
  BY DEF Cell
<1>4. Zeros(k) \in Seq(Cell) /\ Len(Zeros(k)) = k
  BY <1>1, SMT
<1>5. LengthField(n) \in Seq(Cell) /\ Len(LengthField(n)) = SM3_MSG_LEN_REPR
  BY <1>2, MbSizes, SMT
<1>6. << <<-1, -1>> >> \in Seq(Cell) /\ Len(<< <<-1, -1>> >>) = 1
  <2> DEFINE x == <<-1, -1>>
  <2>1. x \in Cell
    BY <1>3
  <2> HIDE DEF x
  <2>2. <<x>> \in Seq(Cell) /\ Len(<<x>>) = 1
    BY <2>1
  <2> QED BY <2>2 DEF x
<1> QED BY <1>4, <1>5, <1>6

\* The end of a message with the padding behind the blocks already compressed.
EndJoined(h, b, p, z, f) ==
  h \o (((b \o p) \o z) \o f) = (((h \o b) \o p) \o z) \o f

\* It does.
LEMMA PaddingJoined ==
  ASSUME NEW h \in Seq(Cell), NEW b \in Seq(Cell), NEW p \in Seq(Cell), NEW z \in Seq(Cell), NEW f \in Seq(Cell)
  PROVE  EndJoined(h, b, p, z, f)
<1> DEFINE u == b \o p
           v == u \o z
<1>1. \A x, y \in Seq(Cell) : x \o y \in Seq(Cell)
  OBVIOUS
<1>2. u \in Seq(Cell)
  BY <1>1, Zenon
<1>3. u = b \o p /\ v = u \o z
  OBVIOUS
<1> HIDE DEF u
<1>4. v \in Seq(Cell)
  BY <1>1, <1>2, Zenon
<1> HIDE DEF v
<1>5. Associative(h, v, f) /\ Associative(h, u, z) /\ Associative(h, b, p)
  BY <1>2, <1>4, CellsAssociative
<1> QED BY <1>3, <1>5, Zenon DEF Associative, EndJoined

\* The padded end of a lane's message.
LEMMA EndOfLane ==
  ASSUME MB16, NEW ctx, NEW taken, NEW i, NEW g \in Nat, Lane(i, ctx[i], g)
  PROVE  /\ PaddedEnd(ctx, taken, i, PadLen(ctx[i].idx)) \in Seq(Cell)
         /\ Len(PaddedEnd(ctx, taken, i, PadLen(ctx[i].idx))) = PadLen(ctx[i].idx)
         /\ PaddedEnd(ctx, taken, i, PadLen(ctx[i].idx))
              = ((SubSeq(ctx[i].buff, 1, ctx[i].idx) \o << <<-1, -1>> >>)
                   \o Zeros(PadLen(ctx[i].idx) - ctx[i].idx - 1 - SM3_MSG_LEN_REPR)) \o LengthField(g)
<1> DEFINE c == ctx[i]
           d == c.idx
           n == PadLen(d)
           z == n - d - 1 - SM3_MSG_LEN_REPR
           b == SubSeq(c.buff, 1, d)
           p == << <<-1, -1>> >>
           s == Zeros(z)
           f == LengthField(g)
           E == PaddedEnd(ctx, taken, i, n)
<1>1. /\ d \in 0..(SM3_MSG_BLOCK_SIZE - 1) /\ d \in 0..SM3_MSG_BLOCK_SIZE /\ c.buff \in CellBlock /\ c.len = g
      /\ c.hash \in Seq(Cell) /\ Len(c.hash) % SM3_MSG_BLOCK_SIZE = 0
  <2>1. /\ d \in 0..(SM3_MSG_BLOCK_SIZE - 1) /\ c.buff \in CellBlock /\ c.len = g
        /\ c.hash \in Seq(Cell) /\ Len(c.hash) % SM3_MSG_BLOCK_SIZE = 0
    BY Zenon DEF Lane
  <2>2. d \in 0..SM3_MSG_BLOCK_SIZE
    <3> HIDE DEF d
    <3> QED BY <2>1, MbSizes
  <2> QED BY <2>1, <2>2, Zenon
<1>2. z \in Nat
  <2>1. Len(c.hash) \in Nat
    BY <1>1
  <2> QED BY <1>1, <2>1, PaddingLength
<1>3. b \in Seq(Cell) /\ Len(b) = d
  BY <1>1, FrontOfCells
<1>4. s \in Seq(Cell) /\ Len(s) = z /\ f \in Seq(Cell) /\ Len(f) = SM3_MSG_LEN_REPR /\ p \in Seq(Cell) /\ Len(p) = 1
  <2> HIDE DEF z
  <2> QED BY <1>2, PaddingCells
<1>5. E = ((b \o p) \o s) \o f
  BY <1>1 DEF PaddedEnd
<1> DEFINE u == b \o p
           v == u \o s
           w == v \o f
<1> HIDE DEF b, p, s, f
<1>6. u \in Seq(Cell) /\ Len(u) = d + 1
  <2>1. b \in Seq(Cell) /\ p \in Seq(Cell)
    BY <1>3, <1>4
  <2>2. u \in Seq(Cell) /\ Len(u) = Len(b) + Len(p)
    BY ONLY <2>1, Joined DEF u
  <2> QED BY <1>3, <1>4, <2>2, Zenon
<1> HIDE DEF u
<1>7. v \in Seq(Cell) /\ Len(v) = d + 1 + z
  <2>1. u \in Seq(Cell) /\ s \in Seq(Cell)
    BY <1>4, <1>6
  <2>2. v \in Seq(Cell) /\ Len(v) = Len(u) + Len(s)
    BY ONLY <2>1, Joined DEF v
  <2> QED BY <1>4, <1>6, <2>2, Zenon
<1> HIDE DEF v
<1>8. w \in Seq(Cell) /\ Len(w) = d + 1 + z + SM3_MSG_LEN_REPR
  <2>1. v \in Seq(Cell) /\ f \in Seq(Cell)
    BY <1>4, <1>7
  <2>2. w \in Seq(Cell) /\ Len(w) = Len(v) + Len(f)
    BY ONLY <2>1, Joined DEF w
  <2> QED BY <1>4, <1>7, <2>2, Zenon
<1>9. d + 1 + z + SM3_MSG_LEN_REPR = n
  <2>1. n \in Nat /\ SM3_MSG_LEN_REPR \in Nat /\ d \in Nat
    BY <1>1, MbSizes DEF PadLen
  <2> HIDE DEF n, d
  <2> QED BY <2>1
<1>10. E = w
  BY <1>5 DEF w, v, u
<1> HIDE DEF w, E, n
<1>11. E \in Seq(Cell) /\ Len(E) = n
  BY <1>8, <1>9, <1>10, Zenon
<1> QED BY <1>5, <1>11, Zenon DEF E, n, b, p, s, f

\* The digest of a lane is that of its message.
LEMMA DigestOfLane ==
  ASSUME MB16, NEW ctx, NEW given, AllLanes(ctx, given), NEW taken \in SUBSET Lanes, NEW i \in taken
  PROVE  Final(ctx, taken).digests[i] = Standard(Message(i, 0, given[i]))
<1> DEFINE F == Final(ctx, taken)
           lens == FinalLens(ctx, taken)
           ends == [j \in Lanes |-> IF j \in taken THEN PaddedEnd(ctx, taken, j, lens[j]) ELSE <<>>]
           done == Compressed(ctx, ends, lens)
           c == ctx[i]
           g == given[i]
           d == c.idx
           h == c.hash
           n == PadLen(d)
           E == PaddedEnd(ctx, taken, i, n)
           b == SubSeq(c.buff, 1, d)
           p == << <<-1, -1>> >>
           z == n - d - 1 - SM3_MSG_LEN_REPR
           M == Message(i, 0, g)
<1>1. i \in Lanes /\ Lane(i, c, g) /\ g \in Nat /\ i \in Int
  BY MbSizes DEF AllLanes
<1>2. F.digests[i] = done[i].hash
  BY DEF Final
<1>3. lens[i] = n
  BY <1>1 DEF FinalLens, PadLen
<1>4. ends[i] = E
  BY <1>1, <1>3
<1>5. done[i] = [c EXCEPT !.hash = @ \o SubSeq(E, 1, n)]
  BY <1>1, <1>3, <1>4 DEF Compressed
<1>6. done[i].hash = h \o SubSeq(E, 1, n)
  <2>1. c = [idx |-> c.idx, len |-> c.len, buff |-> c.buff, hash |-> c.hash]
    BY <1>1 DEF Lane
  <2> DEFINE t == SubSeq(E, 1, n)
             x == c.idx
             y == c.len
             w == c.buff
  <2>2. c = [idx |-> x, len |-> y, buff |-> w, hash |-> h] /\ done[i] = [c EXCEPT !.hash = @ \o t]
    BY <1>5, <2>1
  <2> HIDE DEF t, done, c, h, x, y, w
  <2>3. done[i].hash = h \o t
    BY <2>2
  <2> QED BY <2>3 DEF t
<1> HIDE DEF F, done, ends, lens
<1>7. E \in Seq(Cell) /\ Len(E) = n /\ E = ((b \o p) \o Zeros(z)) \o LengthField(g)
  BY <1>1, EndOfLane
<1>8. SubSeq(E, 1, n) = E
  <2> HIDE DEF E
  <2>1. SubSeq(E, 1, Len(E)) = E
    BY <1>7, WholePart
  <2> QED BY <1>7, <2>1, Zenon
<1>9. h \in Seq(Cell) /\ Len(h) % SM3_MSG_BLOCK_SIZE = 0 /\ d \in 0..(SM3_MSG_BLOCK_SIZE - 1)
      /\ d \in 0..SM3_MSG_BLOCK_SIZE /\ c.buff \in CellBlock /\ h \o b = M
  <2>1. h \in Seq(Cell) /\ Len(h) % SM3_MSG_BLOCK_SIZE = 0 /\ d \in 0..(SM3_MSG_BLOCK_SIZE - 1)
        /\ c.buff \in CellBlock /\ h \o b = M
    BY <1>1, Zenon DEF Lane
  <2>2. d \in 0..SM3_MSG_BLOCK_SIZE
    <3> HIDE DEF d
    <3> QED BY <2>1, MbSizes
  <2> QED BY <2>1, <2>2, Zenon
<1>10. b \in Seq(Cell) /\ Len(b) = d
  BY <1>9, FrontOfCells
<1>11. Len(M) = g /\ Len(h) \in Nat /\ g = Len(h) + d
  <2>1. Len(M) = g
    BY <1>1, MessageCells
  <2>2. Len(h \o b) = Len(h) + Len(b) /\ Len(h) \in Nat
    <3> HIDE DEF h, b
    <3> QED BY <1>9, <1>10, Joined
  <2> HIDE DEF M, b, h
  <2> QED BY <1>9, <1>10, <2>1, <2>2
<1> HIDE DEF E
<1>12. z \in Nat /\ WholeLen(g + 1 + SM3_MSG_LEN_REPR) - (g + 1 + SM3_MSG_LEN_REPR) = z
  <2>1. z \in Nat /\ WholeLen(Len(h) + d + 1 + SM3_MSG_LEN_REPR) - (Len(h) + d + 1 + SM3_MSG_LEN_REPR) = z
    BY <1>9, <1>11, PaddingLength
  <2>2. Len(h) + d + 1 + SM3_MSG_LEN_REPR = g + 1 + SM3_MSG_LEN_REPR
    BY <1>11
  <2> HIDE DEF z
  <2> QED BY <2>1, <2>2, Zenon
<1>13. Standard(M) = ((M \o p) \o Zeros(z)) \o LengthField(g)
  <2> DEFINE body == Len(M) + 1 + SM3_MSG_LEN_REPR
             whole == ((body + SM3_MSG_BLOCK_SIZE - 1) \div SM3_MSG_BLOCK_SIZE) * SM3_MSG_BLOCK_SIZE
  <2>1. whole - body = z
    BY <1>11, <1>12, Zenon DEF WholeLen
  <2>2. Standard(M) = ((M \o p) \o Zeros(whole - body)) \o LengthField(Len(M))
    BY Zenon DEF Standard
  <2> HIDE DEF whole, body, z, M, p
  <2> QED BY <1>11, <2>1, <2>2, Zenon
<1>14. h \o (((b \o p) \o Zeros(z)) \o LengthField(g)) = (((h \o b) \o p) \o Zeros(z)) \o LengthField(g)
  <2> DEFINE f == LengthField(g)
             t == Zeros(z)
  <2>1. t \in Seq(Cell) /\ f \in Seq(Cell) /\ p \in Seq(Cell)
    <3> HIDE DEF z
    <3> QED BY <1>1, <1>12, PaddingCells
  <2> HIDE DEF f, t, p, b, h
  <2>2. EndJoined(h, b, p, t, f)
    BY <1>9, <1>10, <2>1, PaddingJoined
  <2> QED BY <2>2, Zenon DEF EndJoined, f, t
<1> HIDE DEF h, b, p, z, M
<1>15. F.digests[i] = h \o E
  BY <1>2, <1>6, <1>8, Zenon
<1>16. F.digests[i] = Standard(M)
  BY <1>7, <1>9, <1>13, <1>14, <1>15, Zenon
<1> QED BY <1>16 DEF F, M

\* A lane before its message.
LEMMA EmptyLane == \A i \in Lanes : Lane(i, NewLane, 0)
<1> SUFFICES ASSUME NEW i \in Lanes PROVE Lane(i, NewLane, 0)
  OBVIOUS
<1> DEFINE b == Zeros(SM3_MSG_BLOCK_SIZE)
<1>1. b \in CellBlock
  <2>1. Zero \in Cell
    BY DEF Zero, Cell
  <2> QED BY <2>1 DEF Zeros, CellBlock
<1> HIDE DEF b
<1>2. NewLane = [idx |-> 0, len |-> 0, buff |-> b, hash |-> <<>>]
  BY DEF NewLane, b
<1>3. NewLane.idx = 0 /\ NewLane.len = 0 /\ NewLane.buff = b /\ NewLane.hash = <<>>
      /\ NewLane = [idx |-> NewLane.idx, len |-> NewLane.len, buff |-> NewLane.buff, hash |-> NewLane.hash]
  BY <1>2
<1>4. SubSeq(b, 1, 0) = <<>> /\ <<>> \o <<>> = <<>>
  BY <1>1, CellBlockIsSequence, SMT
<1>5. Message(i, 0, 0) = <<>>
  <2> DEFINE m == Message(i, 0, 0)
  <2>1. m \in Seq(Cell) /\ Len(m) = 0
    <3> DEFINE z == 0
    <3>1. i \in Int /\ z \in Nat
      BY MbSizes
    <3>2. Message(i, z, z) \in Seq(Cell) /\ Len(Message(i, z, z)) = z
      <4> HIDE DEF z
      <4> QED BY <3>1, MessageCells
    <3> QED BY <3>2
  <2> HIDE DEF m
  <2>2. m = <<>>
    BY <2>1
  <2> QED BY <2>2 DEF m
<1>6. 0 \in 0..(SM3_MSG_BLOCK_SIZE - 1) /\ <<>> \in Seq(Cell) /\ Len(<<>>) % SM3_MSG_BLOCK_SIZE = 0
  <2>1. 0 \in 0..(SM3_MSG_BLOCK_SIZE - 1) /\ Len(<<>>) = 0
    BY MbSizes
  <2>2. 0 % SM3_MSG_BLOCK_SIZE = 0
    BY <2>1, MbSizes, ModOfSmall
  <2> QED BY <2>1, <2>2
<1>7. NewLane.hash \o SubSeq(NewLane.buff, 1, NewLane.idx) = Message(i, 0, 0)
  BY <1>3, <1>4, <1>5, Zenon
<1>8. Len(NewLane.hash) % SM3_MSG_BLOCK_SIZE = 0 /\ NewLane.idx \in 0..(SM3_MSG_BLOCK_SIZE - 1)
      /\ NewLane.hash \in Seq(Cell) /\ NewLane.buff \in CellBlock
  BY <1>1, <1>3, <1>6, Zenon
<1> QED BY <1>3, <1>7, <1>8, Zenon DEF Lane

\* Final keeps the lanes not taken, and starts the others anew.
LEMMA FinalKeepsLanes ==
  ASSUME MB16, NEW ctx, NEW given, AllLanes(ctx, given), NEW taken \in SUBSET Lanes
  PROVE  /\ Final(ctx, taken).returned
         /\ AllLanes(Final(ctx, taken).ctx, [i \in Lanes |-> IF i \in taken THEN 0 ELSE given[i]])
<1> DEFINE F == Final(ctx, taken)
           left == [i \in Lanes |-> IF i \in taken THEN 0 ELSE given[i]]
<1>1. F.returned
  BY DEF Final, Completes
<1>2. F.ctx = [i \in Lanes |-> IF i \in taken THEN NewLane ELSE ctx[i]]
  BY DEF Final
<1>3. left \in [Lanes -> Nat]
  BY DEF AllLanes
<1> HIDE DEF F
<1>4. ASSUME NEW i \in Lanes PROVE Lane(i, F.ctx[i], left[i])
  <2>1. CASE i \in taken
    <3>1. F.ctx[i] = NewLane /\ left[i] = 0
      BY <1>2, <2>1
    <3> HIDE DEF left
    <3> QED BY <3>1, EmptyLane, Zenon
  <2>2. CASE i \notin taken
    <3>1. F.ctx[i] = ctx[i] /\ left[i] = given[i] /\ Lane(i, ctx[i], given[i])
      BY <1>2, <2>2 DEF AllLanes
    <3> HIDE DEF left
    <3> QED BY <3>1, Zenon
  <2> QED BY <2>1, <2>2
<1>5. F.ctx = [i \in Lanes |-> F.ctx[i]]
  BY <1>2
<1> HIDE DEF left
<1>6. AllLanes(F.ctx, left)
  BY <1>3, <1>4, <1>5, Zenon DEF AllLanes
<1> QED BY <1>1, <1>6 DEF F, left

-----------------------------------------------------------------------------
(* The invariant.                                                          *)

\* The lanes with the bytes given to them when nothing was.
LEMMA NewLanes == AllLanes([i \in Lanes |-> NewLane], [i \in Lanes |-> 0])
<1> DEFINE c == [i \in Lanes |-> NewLane]
           g == [i \in Lanes |-> 0]
<1>1. c = [i \in Lanes |-> c[i]] /\ g \in [Lanes -> Nat]
  OBVIOUS
<1>2. \A i \in Lanes : c[i] = NewLane /\ g[i] = 0
  OBVIOUS
<1> HIDE DEF c, g
<1>3. \A i \in Lanes : Lane(i, c[i], g[i])
  BY <1>2, EmptyLane, Zenon
<1>4. AllLanes(c, g)
  BY <1>1, <1>3, Zenon DEF AllLanes
<1> QED BY <1>4 DEF c, g

\* A result without digests.
LEMMA NoDigests == ASSUME NEW ok PROVE Did(ok, <<>>).returned /\ DigestsStandard(Did(ok, <<>>).digests)
<1>1. Did(ok, <<>>).returned /\ Did(ok, <<>>).digests = <<>> /\ DOMAIN <<>> = {}
  BY DEF Did
<1> QED BY <1>1 DEF DigestsStandard

\* Digests of lanes, each that of its message.
LEMMA GoodDigests ==
  ASSUME MB16, NEW ctx, NEW given, AllLanes(ctx, given), NEW taken \in SUBSET Lanes
  PROVE  DigestsStandard([i \in taken |-> [of |-> given[i], cells |-> Final(ctx, taken).digests[i]]])
<1> DEFINE x == [i \in taken |-> [of |-> given[i], cells |-> Final(ctx, taken).digests[i]]]
<1>1. ASSUME NEW i \in taken PROVE x[i].cells = Standard(Message(i, 0, x[i].of))
  <2>1. Final(ctx, taken).digests[i] = Standard(Message(i, 0, given[i]))
    BY DigestOfLane
  <2> DEFINE d == Final(ctx, taken).digests[i]
             g == given[i]
  <2>2. x[i] = [of |-> g, cells |-> d]
    OBVIOUS
  <2> HIDE DEF x, d, g
  <2>3. x[i].of = g /\ x[i].cells = d
    BY <2>2
  <2> QED BY <2>1, <2>3, Zenon DEF d, g
<1>2. DOMAIN x = taken
  OBVIOUS
<1> HIDE DEF x
<1>3. DigestsStandard(x)
  BY <1>1, <1>2, Zenon DEF DigestsStandard
<1> QED BY <1>3 DEF x

\* The invariant holds at first.
LEMMA MbInitial == MbInit => MbInv
  BY NewLanes, NoDigests DEF MbInit, MbInv

\* Update keeps it, for any lengths of its lanes.
LEMMA MbUpdateKeeps ==
  ASSUME MB16, MbInv, NEW ls \in [Lanes -> Lens], sm3_update(ls)
  PROVE  MbInv'
<1> DEFINE src == [i \in Lanes |-> Message(i, mbGiven[i], ls[i])]
           U == Update(mbCtx, src, ls, {})
           sum == [i \in Lanes |-> mbGiven[i] + ls[i]]
<1>1. ShiftedOut(mbCtx, ls) = {}
  BY DEF ShiftedOut
<1>2. mbCtx' = U.ctx /\ mbOut' = [Did(Lanes, <<>>) EXCEPT !.returned = U.returned] /\ mbGiven' = sum
  <2>1. PICK lost \in SUBSET ShiftedOut(mbCtx, ls) :
          /\ mbCtx' = Update(mbCtx, src, ls, lost).ctx
          /\ mbOut' = [Did(Lanes, <<>>) EXCEPT !.returned = Update(mbCtx, src, ls, lost).returned]
    BY Zenon DEF sm3_update
  <2>2. lost = {}
    BY <1>1, <2>1
  <2>3. mbGiven' = sum
    BY Zenon DEF sm3_update
  <2> QED BY <2>1, <2>2, <2>3, Zenon
<1>3. ls \in [Lanes -> Nat] /\ AllLanes(mbCtx, mbGiven)
  BY MbAssumption DEF MbInv
<1>4. U.returned /\ AllLanes(U.ctx, sum)
  BY <1>3, UpdateKeepsLanes
<1> HIDE DEF U, sum
<1>5. mbOut'.returned /\ DigestsStandard(mbOut'.digests)
  <2>1. mbOut'.returned = U.returned /\ mbOut'.digests = Did(Lanes, <<>>).digests
    BY <1>2 DEF Did
  <2> QED BY <1>4, <2>1, NoDigests, Zenon DEF DigestsStandard
<1> QED BY <1>2, <1>4, <1>5, Zenon DEF MbInv, AllLanes, DigestsStandard

\* Final keeps it, for any choice of lanes.
LEMMA MbFinalKeeps ==
  ASSUME MB16, MbInv, NEW taken \in Takings, sm3_final(taken)
  PROVE  MbInv'
<1> DEFINE F == Final(mbCtx, taken)
           x == [i \in taken |-> [of |-> mbGiven[i], cells |-> F.digests[i]]]
           left == [i \in Lanes |-> IF i \in taken THEN 0 ELSE mbGiven[i]]
<1>1. mbCtx' = F.ctx /\ mbGiven' = left /\ mbOut' = [returned |-> F.returned, ok |-> Lanes, digests |-> x]
  BY Zenon DEF sm3_final
<1>2. taken \in SUBSET Lanes /\ AllLanes(mbCtx, mbGiven)
  BY MbAssumption DEF MbInv
<1>3. F.returned /\ AllLanes(F.ctx, left) /\ DigestsStandard(x)
  BY <1>2, FinalKeepsLanes, GoodDigests
<1> HIDE DEF F, x, left
<1>4. mbOut'.returned = F.returned /\ mbOut'.digests = x
  BY <1>1
<1> QED BY <1>1, <1>3, <1>4, Zenon DEF MbInv, AllLanes, DigestsStandard

\* The call for whole messages keeps it.
LEMMA MbMessageKeeps ==
  ASSUME MB16, MbInv, NEW ls \in [Lanes -> Lens], NEW taken \in Takings, sm3_msg_digest(ls, taken)
  PROVE  MbInv'
<1> DEFINE bad == {i \in Lanes : ls[i] # 0 /\ i \notin taken}
           new == [i \in Lanes |-> NewLane]
           zero == [i \in Lanes |-> 0]
           sum == [i \in Lanes |-> zero[i] + ls[i]]
           src == [i \in Lanes |-> Message(i, 0, ls[i])]
           U == Update(new, src, ls, {})
           F == Final(U.ctx, taken)
           x == [i \in taken |-> [of |-> ls[i], cells |-> F.digests[i]]]
           ok == Lanes \ {CHOOSE i \in bad : \A j \in bad : i <= j}
<1>1. mbOut' = (IF bad # {} THEN Did(ok, <<>>)
                ELSE [returned |-> U.returned /\ F.returned, ok |-> Lanes, digests |-> x])
      /\ UNCHANGED <<mbCtx, mbGiven>>
  BY Zenon DEF sm3_msg_digest
<1>2. taken \in SUBSET Lanes /\ AllLanes(new, zero) /\ ls \in [Lanes -> Nat]
  BY MbAssumption, NewLanes
<1>3. src = [i \in Lanes |-> Message(i, zero[i], ls[i])]
  OBVIOUS
<1>4. U.returned /\ AllLanes(U.ctx, sum)
  <2> HIDE DEF src, new, zero
  <2> QED BY <1>2, <1>3, UpdateKeepsLanes
<1> HIDE DEF U
<1>5. F.returned /\ DigestsStandard([i \in taken |-> [of |-> sum[i], cells |-> F.digests[i]]])
  <2> HIDE DEF sum
  <2> QED BY <1>2, <1>4, FinalKeepsLanes, GoodDigests
<1>6. [i \in taken |-> [of |-> sum[i], cells |-> F.digests[i]]] = x
  <2>1. \A i \in taken : sum[i] = ls[i]
    BY <1>2
  <2> HIDE DEF F, sum
  <2> QED BY <2>1
<1> HIDE DEF F, x, ok, bad
<1>7. mbOut'.returned /\ DigestsStandard(mbOut'.digests)
  <2>1. CASE bad # {}
    <3>1. mbOut' = Did(ok, <<>>)
      BY <1>1, <2>1
    <3> QED BY <3>1, NoDigests
  <2>2. CASE bad = {}
    <3>1. mbOut' = [returned |-> U.returned /\ F.returned, ok |-> Lanes, digests |-> x]
      BY <1>1, <2>2
    <3>2. mbOut'.returned = (U.returned /\ F.returned) /\ mbOut'.digests = x
      BY <3>1
    <3> QED BY <1>4, <1>5, <1>6, <3>2, Zenon
  <2> QED BY <2>1, <2>2
<1>8. mbCtx' = mbCtx /\ mbGiven' = mbGiven
  BY <1>1
<1> QED BY <1>7, <1>8, Zenon DEF MbInv, AllLanes, DigestsStandard

\* Every step keeps it.
LEMMA MbNextKeeps == ASSUME MB16 PROVE MbInv /\ [MbNext]_mbVars => MbInv'
<1> SUFFICES ASSUME MbInv, [MbNext]_mbVars PROVE MbInv'
  OBVIOUS
<1>1. CASE UNCHANGED mbVars
  BY <1>1 DEF mbVars, MbInv, AllLanes, DigestsStandard
<1>2. CASE sm3_init
  <2>1. mbCtx' = [i \in Lanes |-> NewLane] /\ mbGiven' = [i \in Lanes |-> 0] /\ mbOut' = Did(Lanes, <<>>)
    BY <1>2 DEF sm3_init
  <2>2. AllLanes(mbCtx', mbGiven') /\ mbOut'.returned /\ DigestsStandard(mbOut'.digests)
    BY <2>1, NewLanes, NoDigests
  <2> QED BY <2>2 DEF MbInv, AllLanes, DigestsStandard
<1>3. ASSUME NEW ls \in [Lanes -> Lens], sm3_update(ls) PROVE MbInv'
  BY <1>3, MbUpdateKeeps
<1>4. ASSUME NEW taken \in Takings, sm3_final(taken) PROVE MbInv'
  BY <1>4, MbFinalKeeps
<1>5. ASSUME NEW ls \in [Lanes -> Lens], NEW taken \in Takings, sm3_msg_digest(ls, taken) PROVE MbInv'
  BY <1>5, MbMessageKeeps
<1> QED BY <1>1, <1>2, <1>3, <1>4, <1>5 DEF MbNext

\* Whatever lengths the lanes of a batch have and whichever digests are taken when, a lane holds
\* the bytes of its message and its digest is that of the standard (internal_sm3_update_mb16.c:26).
THEOREM LanesStayApart == ASSUME MB16 PROVE MbSpec => []LanesIndependent
<1>1. MbInit => MbInv
  BY MbInitial
<1>2. MbInv /\ [MbNext]_mbVars => MbInv'
  BY MbNextKeeps
<1>3. MbInv => LanesIndependent
  BY Zenon DEF MbInv, AllLanes, Lane, DigestsStandard, LanesIndependent
<1> QED BY <1>1, <1>2, <1>3, PTL DEF MbSpec

-----------------------------------------------------------------------------
(* AES-SIV: what the vector tells of the strings it was taken from.        *)

\* A byte that holds no byte of a tag.
NoTag(b) == \A a \in b : a[1] # "mac"

\* A string a caller may pass.
Passed(s) ==
  /\ s \in Seq({s[i] : i \in DOMAIN s})
  /\ \A i \in DOMAIN s : NoTag(s[i])

\* The strings that S2V has taken in: the zero block, then those of ads.
Taken(ads, i) == IF i = 0 THEN ZeroBlock(SIV_BLOCK) ELSE ads[i]

\* Byte j of the vector after n strings, doubled d times more: each string's tag has been
\* doubled once for every string after it.
Tags(ads, n, d, j) == {<<"mac", Taken(ads, i), n - i + d, j>> : i \in 0..n}

\* What the assumption says of a string.
LEMMA StringPassed ==
  ASSUME NEW s \in SivStrings
  PROVE  Passed(s) /\ Len(s) \in Nat /\ DOMAIN s = 1..Len(s)
<1>1. /\ s \in Seq({s[i] : i \in DOMAIN s})
      /\ \A i \in DOMAIN s : \A a \in s[i] : a[1] # "mac"
  BY SivAssumption
<1>2. Len(s) \in Nat /\ DOMAIN s = 1..Len(s)
  BY <1>1
<1> QED BY <1>1, <1>2 DEF Passed, NoTag

\* vs holds the vectors of ads up to the n-th.
VectorsTo(vs, ads, n) ==
  vs = [i \in 0..n |-> IF i = 0 THEN cpAES_S2V_init ELSE cpAES_S2V_update(vs[i - 1], ads[i])]

\* There are such vectors for any number of strings.
LEMMA VectorsExist ==
  ASSUME NEW ads, NEW n \in Nat
  PROVE  \E vs : VectorsTo(vs, ads, n)
<1> DEFINE S == {p \in Nat : \E vs : VectorsTo(vs, ads, p)}
<1>1. 0 \in S
  <2> DEFINE vs == [i \in 0..0 |-> cpAES_S2V_init]
  <2>1. VectorsTo(vs, ads, 0)
    BY DEF VectorsTo
  <2> QED BY <2>1
<1>2. ASSUME NEW p \in Nat, p \in S
      PROVE  p + 1 \in S
  <2>1. PICK vs : VectorsTo(vs, ads, p)
    BY <1>2
  <2> DEFINE ws == [i \in 0..(p + 1) |-> IF i = p + 1 THEN cpAES_S2V_update(vs[p], ads[p + 1]) ELSE vs[i]]
  <2>2. ASSUME NEW i \in 0..(p + 1)
        PROVE  ws[i] = IF i = 0 THEN cpAES_S2V_init ELSE cpAES_S2V_update(ws[i - 1], ads[i])
    <3>1. CASE i = p + 1
      <4>1. p \in 0..(p + 1) /\ ws[p] = vs[p] /\ p = i - 1 /\ i # 0
        BY <3>1
      <4>2. ws[i] = cpAES_S2V_update(vs[p], ads[i])
        BY <3>1
      <4> QED BY <4>1, <4>2
    <3>2. CASE i # p + 1
      <4>1. i \in 0..p /\ ws[i] = vs[i]
        BY <3>2
      <4>2. vs[i] = IF i = 0 THEN cpAES_S2V_init ELSE cpAES_S2V_update(vs[i - 1], ads[i])
        BY <2>1, <4>1, Zenon DEF VectorsTo
      <4>3. i # 0 => ws[i - 1] = vs[i - 1]
        BY <4>1
      <4> QED BY <4>1, <4>2, <4>3
    <3> QED BY <3>1, <3>2
  <2>3. VectorsTo(ws, ads, p + 1)
    <3>1. ws = [i \in 0..(p + 1) |-> ws[i]]
      OBVIOUS
    <3> HIDE DEF ws
    <3> QED BY <2>2, <3>1, Zenon DEF VectorsTo
  <2> QED BY <2>3
<1> HIDE DEF S
<1>3. n \in S
  BY <1>1, <1>2, Induction
<1> QED BY <1>3 DEF S

\* A tag, and a tag doubled.
LEMMA TagBytes ==
  ASSUME NEW m
  PROVE  /\ cpAES_CMAC(m) = [j \in 1..SIV_BLOCK |-> {<<"mac", m, 0, j>>}]
         /\ Len(cpAES_CMAC(m)) = SIV_BLOCK
         /\ \A j \in 1..SIV_BLOCK : cpAES_CMAC(m)[j] = {<<"mac", m, 0, j>>}
<1>1. cpAES_CMAC(m) = [j \in 1..SIV_BLOCK |-> {<<"mac", m, 0, j>>}]
  BY DEF cpAES_CMAC
<1>2. SIV_BLOCK \in Nat
  BY SivAssumption
<1> QED BY <1>1, <1>2

\* The vector after n strings, doubled d times.
Vector(ads, n, d) == [j \in 1..SIV_BLOCK |-> Tags(ads, n, d, j)]

\* Doubling counts in every tag.
LEMMA VectorDoubled ==
  ASSUME NEW ads, NEW n \in Nat
  PROVE  double16(Vector(ads, n, 0)) = Vector(ads, n, 1)
<1>1. ASSUME NEW j \in 1..SIV_BLOCK
      PROVE  {<<a[1], a[2], a[3] + 1, a[4]>> : a \in Tags(ads, n, 0, j)} = Tags(ads, n, 1, j)
  <2>1. ASSUME NEW i \in 0..n, NEW a, a = <<"mac", Taken(ads, i), n - i + 0, j>>
        PROVE  <<a[1], a[2], a[3] + 1, a[4]>> = <<"mac", Taken(ads, i), n - i + 1, j>>
    BY <2>1
  <2> QED BY <2>1 DEF Tags
<1>2. \A j \in 1..SIV_BLOCK : Vector(ads, n, 0)[j] = Tags(ads, n, 0, j)
  BY DEF Vector
<1> QED BY <1>1, <1>2 DEF double16, Vector

\* Another string joins it.
LEMMA VectorUpdated ==
  ASSUME NEW ads, NEW n \in Nat
  PROVE  cpAES_S2V_update(Vector(ads, n, 0), ads[n + 1]) = Vector(ads, n + 1, 0)
<1> DEFINE t == cpAES_CMAC(ads[n + 1])
           v == Vector(ads, n, 1)
<1>0. SIV_BLOCK \in Nat /\ 1..SIV_BLOCK = (0 + 1)..(0 + SIV_BLOCK)
  BY SivAssumption
<1>1. cpAES_S2V_update(Vector(ads, n, 0), ads[n + 1]) = XorBlock(t, v, 0)
  BY VectorDoubled DEF cpAES_S2V_update
<1>2. DOMAIN v = 1..SIV_BLOCK /\ \A j \in 1..SIV_BLOCK : v[j] = Tags(ads, n, 1, j)
  BY DEF Vector
<1>3. Len(t) = SIV_BLOCK /\ \A j \in 1..SIV_BLOCK : t[j] = {<<"mac", ads[n + 1], 0, j>>}
  BY TagBytes
<1> HIDE DEF t, v
<1>4. XorBlock(t, v, 0) = [j \in 1..SIV_BLOCK |-> Xor(v[j], t[j - 0])]
  BY <1>0, <1>2, <1>3 DEF XorBlock
<1>5. ASSUME NEW j \in 1..SIV_BLOCK
      PROVE  Xor(v[j], t[j - 0]) = Tags(ads, n + 1, 0, j)
  <2>1. j - 0 = j /\ v[j] = Tags(ads, n, 1, j) /\ t[j] = {<<"mac", ads[n + 1], 0, j>>}
    BY <1>0, <1>2, <1>3
  <2>2. \A a \in Tags(ads, n, 1, j) : a[3] > 0
    BY DEF Tags
  <2>3. <<"mac", ads[n + 1], 0, j>> \notin Tags(ads, n, 1, j)
    BY <2>2
  <2>4. Xor(v[j], t[j]) = Tags(ads, n, 1, j) \cup {<<"mac", ads[n + 1], 0, j>>}
    BY <2>1, <2>3 DEF Xor
  <2>5. Tags(ads, n + 1, 0, j) = Tags(ads, n, 1, j) \cup {<<"mac", ads[n + 1], 0, j>>}
    <3>1. ASSUME NEW i \in 0..n
          PROVE  <<"mac", Taken(ads, i), (n + 1) - i + 0, j>> = <<"mac", Taken(ads, i), n - i + 1, j>>
      OBVIOUS
    <3>2. <<"mac", Taken(ads, n + 1), (n + 1) - (n + 1) + 0, j>> = <<"mac", ads[n + 1], 0, j>>
      BY DEF Taken
    <3>3. 0..(n + 1) = 0..n \cup {n + 1}
      OBVIOUS
    <3> QED BY <3>1, <3>2, <3>3 DEF Tags
  <2> QED BY <2>1, <2>4, <2>5
<1> QED BY <1>1, <1>4, <1>5 DEF Vector

\* The vector that S2V has after all strings but the last.
LEMMA VectorsAre ==
  ASSUME NEW ads, NEW n \in Nat, Len(ads) = n
  PROVE  Vectors(ads)[n] = Vector(ads, n, 0)
<1> DEFINE vs == CHOOSE vs : VectorsTo(vs, ads, n)
           S == {i \in Nat : i <= n => vs[i] = Vector(ads, i, 0)}
<1>1. VectorsTo(vs, ads, n)
  BY VectorsExist
<1>2. Vectors(ads) = vs
  BY Zenon DEF Vectors, VectorsTo
<1> HIDE DEF vs
<1>3. \A i \in 0..n : vs[i] = IF i = 0 THEN cpAES_S2V_init ELSE cpAES_S2V_update(vs[i - 1], ads[i])
  BY <1>1, Zenon DEF VectorsTo
<1>4. 0 \in S
  <2>1. vs[0] = cpAES_CMAC(ZeroBlock(SIV_BLOCK))
    BY <1>3 DEF cpAES_S2V_init
  <2>2. \A j \in 1..SIV_BLOCK : Tags(ads, 0, 0, j) = {<<"mac", ZeroBlock(SIV_BLOCK), 0, j>>}
    <3>1. ASSUME NEW j \in 1..SIV_BLOCK, NEW i \in 0..0
          PROVE  <<"mac", Taken(ads, i), 0 - i + 0, j>> = <<"mac", ZeroBlock(SIV_BLOCK), 0, j>>
      <4>1. i = 0
        OBVIOUS
      <4>2. Taken(ads, i) = ZeroBlock(SIV_BLOCK)
        BY <4>1 DEF Taken
      <4>3. 0 - i + 0 = 0
        BY <4>1
      <4> QED BY <4>2, <4>3
    <3>2. 0 \in 0..0
      OBVIOUS
    <3> HIDE DEF Taken
    <3>3. ASSUME NEW j \in 1..SIV_BLOCK PROVE Tags(ads, 0, 0, j) = {<<"mac", ZeroBlock(SIV_BLOCK), 0, j>>}
      BY <3>1, <3>2, Zenon DEF Tags
    <3> QED BY <3>3
  <2>3. vs[0] = Vector(ads, 0, 0)
    <3> DEFINE z == ZeroBlock(SIV_BLOCK)
    <3> HIDE DEF z
    <3>1. vs[0] = [j \in 1..SIV_BLOCK |-> {<<"mac", z, 0, j>>}]
      BY <2>1, TagBytes, Zenon DEF z
    <3>2. \A j \in 1..SIV_BLOCK : Tags(ads, 0, 0, j) = {<<"mac", z, 0, j>>}
      BY <2>2, Zenon DEF z
    <3>3. Vector(ads, 0, 0) = [j \in 1..SIV_BLOCK |-> Tags(ads, 0, 0, j)]
      BY Zenon DEF Vector
    <3> HIDE DEF Tags
    <3> QED BY <3>1, <3>2, <3>3
  <2> QED BY <2>3
<1>5. ASSUME NEW i \in Nat, i \in S
      PROVE  i + 1 \in S
  <2>1. SUFFICES ASSUME i + 1 <= n PROVE vs[i + 1] = Vector(ads, i + 1, 0)
    OBVIOUS
  <2>2. vs[i] = Vector(ads, i, 0)
    BY <1>5, <2>1
  <2>3. i + 1 \in 0..n /\ i + 1 # 0 /\ (i + 1) - 1 = i
    BY <2>1
  <2>4. vs[i + 1] = cpAES_S2V_update(vs[i], ads[i + 1])
    BY <1>3, <2>3
  <2> QED BY <2>2, <2>4, VectorUpdated
<1> HIDE DEF S
<1>6. n \in S
  BY <1>4, <1>5, Induction
<1> QED BY <1>2, <1>6 DEF S

\* Only tags.
AllTags(b) == \A a \in b : a[1] = "mac"

\* All tags are tags.
LEMMA TagsAreTags ==
  ASSUME NEW ads, NEW n, NEW d, NEW j
  PROVE  AllTags(Tags(ads, n, d, j))
BY DEF AllTags, Tags

\* The sum of a byte without tags and tags holds both.
LEMMA SumHolds ==
  ASSUME NEW b, NEW t, NoTag(b), AllTags(t)
  PROVE  Xor(b, t) = b \cup t /\ Xor(t, b) = b \cup t
BY DEF NoTag, AllTags, Xor

\* And gives both back.
LEMMA SumTold ==
  ASSUME NEW b, NEW c, NEW t, NEW w, NoTag(b), NoTag(c), AllTags(t), AllTags(w), b \cup t = c \cup w
  PROVE  b = c /\ t = w
BY DEF NoTag, AllTags

\* A vector tells its strings, how many they are and whether it was doubled once more.
LEMMA TagsTold ==
  ASSUME NEW ads, NEW bds, NEW n \in Nat, NEW p \in Nat, NEW d \in Nat, NEW e \in Nat, NEW j,
         Tags(ads, n, d, j) = Tags(bds, p, e, j)
  PROVE  d = e /\ n = p /\ \A i \in 0..n : Taken(ads, i) = Taken(bds, i)
<1>1. \A i \in 0..n : \E h \in 0..p : /\ n - i + d = p - h + e
                                      /\ Taken(ads, i) = Taken(bds, h)
  <2>1. TAKE i \in 0..n
  <2>2. <<"mac", Taken(ads, i), n - i + d, j>> \in Tags(bds, p, e, j)
    BY DEF Tags
  <2>3. PICK h \in 0..p : <<"mac", Taken(ads, i), n - i + d, j>> = <<"mac", Taken(bds, h), p - h + e, j>>
    BY <2>2 DEF Tags
  <2> QED BY <2>3
<1>2. \A h \in 0..p : \E i \in 0..n : n - i + d = p - h + e
  <2>1. TAKE h \in 0..p
  <2>2. <<"mac", Taken(bds, h), p - h + e, j>> \in Tags(ads, n, d, j)
    BY DEF Tags
  <2>3. PICK i \in 0..n : <<"mac", Taken(ads, i), n - i + d, j>> = <<"mac", Taken(bds, h), p - h + e, j>>
    BY <2>2 DEF Tags
  <2> QED BY <2>3
<1>3. d = e
  <2>1. n \in 0..n /\ p \in 0..p
    OBVIOUS
  <2>2. PICK h \in 0..p : n - n + d = p - h + e
    BY <1>1, <2>1
  <2>3. PICK i \in 0..n : n - i + d = p - p + e
    BY <1>2, <2>1
  <2> QED BY <2>2, <2>3
<1>4. n = p
  <2>1. 0 \in 0..n /\ 0 \in 0..p
    OBVIOUS
  <2>2. PICK h \in 0..p : n - 0 + d = p - h + e
    BY <1>1, <2>1
  <2>3. PICK i \in 0..n : n - i + d = p - 0 + e
    BY <1>2, <2>1
  <2> QED BY <1>3, <2>2, <2>3
<1>5. ASSUME NEW i \in 0..n PROVE Taken(ads, i) = Taken(bds, i)
  <2>1. PICK h \in 0..p : n - i + d = p - h + e /\ Taken(ads, i) = Taken(bds, h)
    BY <1>1
  <2>2. h = i
    BY <1>3, <1>4, <2>1
  <2> QED BY <2>1, <2>2
<1> QED BY <1>3, <1>4, <1>5

\* Byte i of a string under its padding.
Padded(s, i) == IF i <= Len(s) THEN s[i] ELSE IF i = Len(s) + 1 THEN {<<"0x80">>} ELSE {}

\* The message that S2V takes its last tag of.
LongEnd(ads, n, s) ==
  [i \in 1..Len(s) |->
     IF i > Len(s) - SIV_BLOCK THEN s[i] \cup Tags(ads, n, 0, i - (Len(s) - SIV_BLOCK)) ELSE s[i]]
ShortEnd(ads, n, s) == [i \in 1..SIV_BLOCK |-> Padded(s, i) \cup Tags(ads, n, 1, i)]
EndOf(ads, n, s) == IF Len(s) >= SIV_BLOCK THEN LongEnd(ads, n, s) ELSE ShortEnd(ads, n, s)

\* Padding holds no tag.
LEMMA PaddedPassed ==
  ASSUME NEW s \in SivStrings, NEW i \in Nat \ {0}
  PROVE  NoTag(Padded(s, i))
<1>1. Passed(s) /\ Len(s) \in Nat /\ DOMAIN s = 1..Len(s)
  BY StringPassed
<1>2. CASE i <= Len(s)
  BY <1>1, <1>2 DEF Padded, Passed
<1>3. CASE i = Len(s) + 1
  <2>1. Padded(s, i) = {<<"0x80">>}
    BY <1>1, <1>3 DEF Padded
  <2> QED BY <2>1 DEF NoTag
<1>4. CASE i > Len(s) + 1
  <2>1. Padded(s, i) = {}
    BY <1>1, <1>4 DEF Padded
  <2> QED BY <2>1 DEF NoTag
<1> QED BY <1>1, <1>2, <1>3, <1>4

\* S2V answers the tag of that message.
LEMMA S2VIs ==
  ASSUME NEW ads, NEW n \in Nat, Len(ads) = n, NEW s \in SivStrings
  PROVE  S2V(ads, s) = cpAES_CMAC(EndOf(ads, n, s))
<1> DEFINE B == SIV_BLOCK
           l == Len(s)
           v == Vector(ads, n, 0)
           w == Vector(ads, n, 1)
<1>1. B \in Nat \ {0}
  BY SivAssumption
<1>2. Passed(s) /\ l \in Nat /\ DOMAIN s = 1..l
  BY StringPassed
<1>3. S2V(ads, s) = cpAES_S2V_final(v, s)
  BY VectorsAre DEF S2V
<1>4. double16(v) = w
  BY VectorDoubled
<1>5. /\ Len(v) = B /\ \A j \in 1..B : v[j] = Tags(ads, n, 0, j)
      /\ DOMAIN w = 1..B /\ \A j \in 1..B : w[j] = Tags(ads, n, 1, j)
  BY <1>1 DEF Vector
<1> HIDE DEF v, w
<1>6. CASE l >= B
  <2> DEFINE off == l - B
  <2>1. S2V(ads, s) = cpAES_CMAC(XorBlock(v, s, off))
    <3>1. Len(s) - SIV_BLOCK >= 0
      BY <1>1, <1>2, <1>6
    <3> QED BY <1>3, <3>1 DEF cpAES_S2V_final
  <2>2. XorBlock(v, s, off) = [i \in 1..l |-> IF i \in (off + 1)..(off + B) THEN Xor(s[i], v[i - off]) ELSE s[i]]
    BY <1>2, <1>5 DEF XorBlock
  <2>3. off \in Nat /\ off + B = l
    BY <1>1, <1>2, <1>6
  <2> HIDE DEF off, l, B
  <2>4. ASSUME NEW i \in 1..l
        PROVE  (IF i \in (off + 1)..(off + B) THEN Xor(s[i], v[i - off]) ELSE s[i])
               = IF i > off THEN s[i] \cup Tags(ads, n, 0, i - off) ELSE s[i]
    <3>1. CASE i > off
      <4>1. i \in (off + 1)..(off + B) /\ i - off \in 1..B
        BY <1>1, <1>2, <2>3, <3>1
      <4>2. v[i - off] = Tags(ads, n, 0, i - off)
        BY <1>5, <4>1
      <4>3. NoTag(s[i])
        BY <1>2 DEF Passed
      <4>4. Xor(s[i], v[i - off]) = s[i] \cup Tags(ads, n, 0, i - off)
        BY <4>2, <4>3, TagsAreTags, SumHolds
      <4> QED BY <3>1, <4>1, <4>4
    <3>2. CASE ~(i > off)
      <4>1. i \notin (off + 1)..(off + B)
        BY <2>3, <3>2
      <4> QED BY <3>2, <4>1
    <3> QED BY <3>1, <3>2
  <2>5. XorBlock(v, s, off) = [i \in 1..l |-> IF i > off THEN s[i] \cup Tags(ads, n, 0, i - off) ELSE s[i]]
    BY <2>2, <2>4
  <2>6. LongEnd(ads, n, s) = [i \in 1..l |-> IF i > off THEN s[i] \cup Tags(ads, n, 0, i - off) ELSE s[i]]
    BY Zenon DEF LongEnd, off, l, B
  <2>7. EndOf(ads, n, s) = LongEnd(ads, n, s)
    BY <1>6, Zenon DEF EndOf, l, B
  <2> QED BY <2>1, <2>5, <2>6, <2>7, Zenon
<1>7. CASE ~(l >= B)
  <2> DEFINE x == s \o <<{<<"0x80">>}>>
  <2>1. S2V(ads, s) = cpAES_CMAC(XorBlock(x, w, 0))
    <3>1. ~(l - B >= 0)
      BY <1>1, <1>2, <1>7
    <3> QED BY <1>3, <1>4, <3>1 DEF cpAES_S2V_final
  <2>2. Len(x) = l + 1 /\ \A i \in 1..(l + 1) : x[i] = Padded(s, i)
    <3> DEFINE e == {<<"0x80">>}
               T == {s[i] : i \in DOMAIN s} \cup {e}
    <3>1. s \in Seq({s[i] : i \in DOMAIN s})
      BY <1>2 DEF Passed
    <3>2. s \in Seq(T) /\ e \in T
      BY <3>1
    <3>3. Padded(s, l + 1) = e /\ \A i \in 1..l : Padded(s, i) = s[i]
      BY <1>2 DEF Padded
    <3> HIDE DEF e, T
    <3>4. Len(s \o <<e>>) = l + 1 /\ (s \o <<e>>)[l + 1] = e /\ \A i \in 1..l : (s \o <<e>>)[i] = s[i]
      BY <1>2, <3>2
    <3>5. ASSUME NEW i \in 1..(l + 1) PROVE x[i] = Padded(s, i)
      <4>1. i \in 1..l \/ i = l + 1
        BY <1>2
      <4> QED BY <3>3, <3>4, <4>1, Zenon DEF e
    <3> QED BY <3>4, <3>5, Zenon DEF e
  <2> HIDE DEF x
  <2>3. XorBlock(x, w, 0) = [i \in 1..B |-> IF i \in (0 + 1)..(0 + (l + 1)) THEN Xor(w[i], x[i - 0]) ELSE w[i]]
    BY <1>5, <2>2 DEF XorBlock
  <2>4. ASSUME NEW i \in 1..B
        PROVE  (IF i \in (0 + 1)..(0 + (l + 1)) THEN Xor(w[i], x[i - 0]) ELSE w[i])
               = Padded(s, i) \cup Tags(ads, n, 1, i)
    <3>0. w[i] = Tags(ads, n, 1, i) /\ NoTag(Padded(s, i)) /\ AllTags(Tags(ads, n, 1, i))
      BY <1>1, <1>5, PaddedPassed, TagsAreTags
    <3>1. CASE i <= l + 1
      <4>1. i \in (0 + 1)..(0 + (l + 1)) /\ i - 0 = i /\ x[i] = Padded(s, i)
        BY <1>1, <1>2, <2>2, <3>1
      <4>2. Xor(w[i], x[i]) = Padded(s, i) \cup Tags(ads, n, 1, i)
        BY <3>0, <4>1, SumHolds
      <4>3. x[i - 0] = x[i]
        BY <4>1
      <4> QED BY <4>1, <4>2, <4>3
    <3>2. CASE ~(i <= l + 1)
      <4>1. i \notin (0 + 1)..(0 + (l + 1)) /\ Padded(s, i) = {}
        BY <1>1, <1>2, <3>2 DEF Padded
      <4> QED BY <3>0, <4>1
    <3> QED BY <3>1, <3>2
  <2>5. XorBlock(x, w, 0) = [i \in 1..B |-> Padded(s, i) \cup Tags(ads, n, 1, i)]
    BY <2>3, <2>4
  <2> QED BY <1>7, <2>1, <2>5 DEF EndOf, ShortEnd
<1> QED BY <1>6, <1>7

\* Equal tags are of equal messages.
LEMMA TagTold ==
  ASSUME NEW m, NEW q
  PROVE  cpAES_CMAC(m) = cpAES_CMAC(q) <=> m = q
<1>1. ASSUME cpAES_CMAC(m) = cpAES_CMAC(q) PROVE m = q
  <2>1. 1 \in 1..SIV_BLOCK
    BY SivAssumption
  <2>2. {<<"mac", m, 0, 1>>} = {<<"mac", q, 0, 1>>}
    BY <1>1, <2>1, TagBytes
  <2>3. <<"mac", m, 0, 1>> = <<"mac", q, 0, 1>>
    BY <2>2, Zenon
  <2> QED BY <2>3
<1> QED BY <1>1

\* Padding tells how long a short string is and what it holds.
LEMMA PaddingTold ==
  ASSUME NEW s \in SivStrings, NEW z \in SivStrings, Len(s) < SIV_BLOCK, Len(z) < SIV_BLOCK,
         \A i \in 1..SIV_BLOCK : Padded(s, i) = Padded(z, i)
  PROVE  s = z
<1>0. SIV_BLOCK \in Nat
  BY SivAssumption
<1>1. /\ Passed(s) /\ Len(s) \in Nat /\ DOMAIN s = 1..Len(s)
      /\ Passed(z) /\ Len(z) \in Nat /\ DOMAIN z = 1..Len(z)
  BY StringPassed
<1>2. Len(s) = Len(z)
  <2>1. ASSUME Len(s) < Len(z) PROVE FALSE
    <3>1. Len(z) + 1 \in 1..SIV_BLOCK
      BY <1>0, <1>1
    <3>2. Padded(z, Len(z) + 1) = {<<"0x80">>} /\ Padded(s, Len(z) + 1) = {}
      BY <1>1, <2>1 DEF Padded
    <3> QED BY <3>1, <3>2
  <2>2. ASSUME Len(z) < Len(s) PROVE FALSE
    <3>1. Len(s) + 1 \in 1..SIV_BLOCK
      BY <1>0, <1>1
    <3>2. Padded(s, Len(s) + 1) = {<<"0x80">>} /\ Padded(z, Len(s) + 1) = {}
      BY <1>1, <2>2 DEF Padded
    <3> QED BY <3>1, <3>2
  <2>3. Len(s) < Len(z) \/ Len(z) < Len(s) \/ Len(s) = Len(z)
    <3> DEFINE a == Len(s)
               b == Len(z)
    <3>1. a \in Nat /\ b \in Nat
      BY <1>1
    <3> HIDE DEF a, b
    <3>2. a < b \/ b < a \/ a = b
      BY <3>1
    <3> QED BY <3>2 DEF a, b
  <2> QED BY <2>1, <2>2, <2>3, Zenon
<1>3. ASSUME NEW i \in 1..Len(s) PROVE s[i] = z[i]
  <2>1. i \in 1..SIV_BLOCK
    BY <1>0, <1>1
  <2> QED BY <1>1, <1>2, <2>1 DEF Padded
<1>4. s \in Seq({s[i] : i \in DOMAIN s}) /\ z \in Seq({z[i] : i \in DOMAIN z})
  BY <1>1 DEF Passed
<1>5. s = [i \in 1..Len(s) |-> s[i]] /\ z = [i \in 1..Len(z) |-> z[i]]
  BY <1>1, <1>4
<1> QED BY <1>2, <1>3, <1>5

\* The vectors of two lists of strings are the same only if the lists are.
LEMMA EndTold ==
  ASSUME NEW n \in Nat, NEW ads \in Seq(SivStrings), Len(ads) = n, NEW s \in SivStrings,
         NEW p \in Nat, NEW bds \in Seq(SivStrings), Len(bds) = p, NEW z \in SivStrings,
         EndOf(ads, n, s) = EndOf(bds, p, z)
  PROVE  ads = bds /\ s = z
<1> DEFINE B == SIV_BLOCK
<1>1. B \in Nat \ {0}
  BY SivAssumption
<1>2. /\ Passed(s) /\ Len(s) \in Nat /\ DOMAIN s = 1..Len(s)
      /\ Passed(z) /\ Len(z) \in Nat /\ DOMAIN z = 1..Len(z)
  BY StringPassed
<1>3. ASSUME NEW d \in Nat, NEW e \in Nat, NEW j, Tags(ads, n, d, j) = Tags(bds, p, e, j)
      PROVE  d = e /\ ads = bds
  <2>1. d = e /\ n = p /\ \A i \in 0..n : Taken(ads, i) = Taken(bds, i)
    BY <1>3, TagsTold
  <2>2. \A i \in 1..n : ads[i] = bds[i]
    BY <2>1 DEF Taken
  <2> QED BY <2>1, <2>2, SequencesEqual
<1>4. DOMAIN LongEnd(ads, n, s) = 1..Len(s) /\ DOMAIN LongEnd(bds, p, z) = 1..Len(z)
  BY DEF LongEnd
<1>5. DOMAIN ShortEnd(ads, n, s) = 1..B /\ DOMAIN ShortEnd(bds, p, z) = 1..B
  BY DEF ShortEnd
<1>6. \A a \in Nat, b \in Nat : 1..a = 1..b => a = b
  <2>1. TAKE a \in Nat, b \in Nat
  <2>2. HAVE 1..a = 1..b
  <2>3. (a > 0 => a \in 1..b) /\ (b > 0 => b \in 1..a)
    BY <2>2
  <2> QED BY <2>3
<1>7. CASE Len(s) >= B /\ Len(z) >= B
  <2>1. LongEnd(ads, n, s) = LongEnd(bds, p, z)
    BY <1>7 DEF EndOf
  <2>2. Len(s) = Len(z)
    BY <1>2, <1>4, <1>6, <2>1
  <2> DEFINE l == Len(s)
             off == l - B
  <2>3. off \in Nat /\ off + B = l /\ Len(z) = l /\ l \in Nat
    BY <1>1, <1>2, <1>7, <2>2
  <2>4. ASSUME NEW i \in 1..l, i > off
        PROVE  s[i] = z[i] /\ Tags(ads, n, 0, i - off) = Tags(bds, p, 0, i - off)
    <3>1. LongEnd(ads, n, s)[i] = s[i] \cup Tags(ads, n, 0, i - off)
      BY <2>4 DEF LongEnd
    <3>2. LongEnd(bds, p, z)[i] = z[i] \cup Tags(bds, p, 0, i - off)
      BY <2>2, <2>4 DEF LongEnd
    <3>3. NoTag(s[i]) /\ NoTag(z[i])
      BY <1>2, <2>2 DEF Passed
    <3> DEFINE t == Tags(ads, n, 0, i - off)
               w == Tags(bds, p, 0, i - off)
    <3>4. AllTags(t) /\ AllTags(w)
      BY TagsAreTags
    <3>5. s[i] \cup t = z[i] \cup w
      BY <2>1, <3>1, <3>2
    <3> HIDE DEF t, w
    <3>6. s[i] = z[i] /\ t = w
      BY <3>3, <3>4, <3>5, SumTold, Zenon
    <3> QED BY <3>6 DEF t, w
  <2>5. ASSUME NEW i \in 1..l, ~(i > off)
        PROVE  s[i] = z[i]
    <3>1. LongEnd(ads, n, s)[i] = s[i]
      BY <2>5 DEF LongEnd
    <3>2. LongEnd(bds, p, z)[i] = z[i]
      BY <2>2, <2>5 DEF LongEnd
    <3> QED BY <2>1, <3>1, <3>2
  <2>6. ads = bds
    <3>1. l \in 1..l /\ l > off
      BY <1>1, <2>3
    <3> QED BY <1>3, <2>4, <3>1, 0 \in Nat
  <2>7. s = z
    <3>1. \A i \in 1..l : s[i] = z[i]
      BY <2>4, <2>5
    <3>2. s = [i \in 1..Len(s) |-> s[i]] /\ z = [i \in 1..Len(z) |-> z[i]]
      BY <1>2 DEF Passed
    <3> QED BY <2>2, <3>1, <3>2
  <2> QED BY <2>6, <2>7
<1>8. CASE Len(s) < B /\ Len(z) < B
  <2>1. ShortEnd(ads, n, s) = ShortEnd(bds, p, z)
    BY <1>1, <1>2, <1>8 DEF EndOf
  <2>2. ASSUME NEW i \in 1..B
        PROVE  Padded(s, i) = Padded(z, i) /\ Tags(ads, n, 1, i) = Tags(bds, p, 1, i)
    <3>1. /\ ShortEnd(ads, n, s)[i] = Padded(s, i) \cup Tags(ads, n, 1, i)
          /\ ShortEnd(bds, p, z)[i] = Padded(z, i) \cup Tags(bds, p, 1, i)
      BY DEF ShortEnd
    <3>2. NoTag(Padded(s, i)) /\ NoTag(Padded(z, i))
      BY <1>1, PaddedPassed
    <3> DEFINE t == Tags(ads, n, 1, i)
               w == Tags(bds, p, 1, i)
    <3>3. AllTags(t) /\ AllTags(w)
      BY TagsAreTags
    <3>4. Padded(s, i) \cup t = Padded(z, i) \cup w
      BY <2>1, <3>1
    <3> HIDE DEF t, w
    <3>5. Padded(s, i) = Padded(z, i) /\ t = w
      BY <3>2, <3>3, <3>4, SumTold, Zenon
    <3> QED BY <3>5 DEF t, w
  <2>3. ads = bds
    <3>1. 1 \in 1..B
      BY <1>1
    <3> QED BY <1>3, <2>2, <3>1, 1 \in Nat
  <2> QED BY <1>8, <2>2, <2>3, PaddingTold
<1>9. ASSUME Len(s) >= B, Len(z) < B PROVE FALSE
  <2>1. LongEnd(ads, n, s) = ShortEnd(bds, p, z)
    BY <1>1, <1>2, <1>9 DEF EndOf
  <2>2. Len(s) = B
    BY <1>1, <1>2, <1>4, <1>5, <1>6, <2>1
  <2>3. 1 \in 1..B /\ 1 > Len(s) - B /\ 1 - (Len(s) - B) = 1 /\ 1 \in 1..Len(s)
    BY <1>1, <2>2
  <2>4. LongEnd(ads, n, s)[1] = s[1] \cup Tags(ads, n, 0, 1)
    BY <2>3 DEF LongEnd
  <2>5. ShortEnd(bds, p, z)[1] = Padded(z, 1) \cup Tags(bds, p, 1, 1)
    BY <2>3 DEF ShortEnd
  <2>6. NoTag(s[1]) /\ NoTag(Padded(z, 1))
    BY <1>2, <2>3, PaddedPassed DEF Passed
  <2>7. Tags(ads, n, 0, 1) = Tags(bds, p, 1, 1)
    <3> DEFINE t == Tags(ads, n, 0, 1)
               w == Tags(bds, p, 1, 1)
    <3>1. AllTags(t) /\ AllTags(w)
      BY TagsAreTags
    <3>2. s[1] \cup t = Padded(z, 1) \cup w
      BY <2>1, <2>4, <2>5
    <3> HIDE DEF t, w
    <3>3. t = w
      BY <2>6, <3>1, <3>2, SumTold, Zenon
    <3> QED BY <3>3 DEF t, w
  <2> QED BY <1>3, <2>7
<1>10. ASSUME Len(s) < B, Len(z) >= B PROVE FALSE
  <2>1. ShortEnd(ads, n, s) = LongEnd(bds, p, z)
    BY <1>1, <1>2, <1>10 DEF EndOf
  <2>2. Len(z) = B
    BY <1>1, <1>2, <1>4, <1>5, <1>6, <2>1
  <2>3. 1 \in 1..B /\ 1 > Len(z) - B /\ 1 - (Len(z) - B) = 1 /\ 1 \in 1..Len(z)
    BY <1>1, <2>2
  <2>4. LongEnd(bds, p, z)[1] = z[1] \cup Tags(bds, p, 0, 1)
    BY <2>3 DEF LongEnd
  <2>5. ShortEnd(ads, n, s)[1] = Padded(s, 1) \cup Tags(ads, n, 1, 1)
    BY <2>3 DEF ShortEnd
  <2>6. NoTag(z[1]) /\ NoTag(Padded(s, 1))
    BY <1>2, <2>3, PaddedPassed DEF Passed
  <2>7. Tags(ads, n, 1, 1) = Tags(bds, p, 0, 1)
    <3> DEFINE t == Tags(ads, n, 1, 1)
               w == Tags(bds, p, 0, 1)
    <3>1. AllTags(t) /\ AllTags(w)
      BY TagsAreTags
    <3>2. Padded(s, 1) \cup t = z[1] \cup w
      BY <2>1, <2>4, <2>5
    <3> HIDE DEF t, w
    <3>3. t = w
      BY <2>6, <3>1, <3>2, SumTold, Zenon
    <3> QED BY <3>3 DEF t, w
  <2> QED BY <1>3, <2>7
<1> QED BY <1>1, <1>2, <1>7, <1>8, <1>9, <1>10

\* S2V tells lists of strings apart.
LEMMA S2VTells ==
  ASSUME NEW ads \in Seq(SivStrings), NEW s \in SivStrings,
         NEW bds \in Seq(SivStrings), NEW z \in SivStrings
  PROVE  S2V(ads, s) = S2V(bds, z) <=> ads = bds /\ s = z
<1>1. Len(ads) \in Nat /\ Len(bds) \in Nat
  OBVIOUS
<1>2. /\ S2V(ads, s) = cpAES_CMAC(EndOf(ads, Len(ads), s))
      /\ S2V(bds, z) = cpAES_CMAC(EndOf(bds, Len(bds), z))
  BY <1>1, S2VIs
<1>3. S2V(ads, s) = S2V(bds, z) => EndOf(ads, Len(ads), s) = EndOf(bds, Len(bds), z)
  BY <1>2, TagTold
<1> QED BY <1>1, <1>3, EndTold

\* What CTR adds it takes away again.
LEMMA XorTwice ==
  ASSUME NEW b, NEW c
  PROVE  Xor(Xor(b, c), c) = b
BY DEF Xor

\* Under one vector the second pass of CTR gives the text back.
LEMMA StreamUndone ==
  ASSUME NEW siv, NEW text \in SivStrings
  PROVE  CTR(siv, CTR(siv, text)) = text
<1> DEFINE l == Len(text)
           Stream(i) == {<<"ks", Masked(siv), (i - 1) \div SIV_BLOCK, (i - 1) % SIV_BLOCK>>}
           c == CTR(siv, text)
<1>1. l \in Nat /\ DOMAIN text = 1..l /\ Passed(text)
  BY StringPassed
<1>2. c = [i \in 1..l |-> Xor(text[i], Stream(i))]
  BY Zenon DEF CTR
<1> HIDE DEF Stream
<1>3. c \in Seq({c[i] : i \in 1..l}) /\ Len(c) = l
  BY <1>1, <1>2
<1>4. CTR(siv, c) = [i \in 1..Len(c) |-> Xor(c[i], Stream(i))]
  BY Zenon DEF CTR, Stream
<1> HIDE DEF c
<1>5. ASSUME NEW i \in 1..l PROVE Xor(c[i], Stream(i)) = text[i]
  <2>1. c[i] = Xor(text[i], Stream(i))
    BY <1>2
  <2> QED BY <2>1, XorTwice
<1>6. CTR(siv, c) = [i \in 1..l |-> text[i]]
  BY <1>3, <1>4, <1>5
<1>7. text = [i \in 1..l |-> text[i]]
  BY <1>1 DEF Passed
<1> QED BY <1>6, <1>7, Zenon DEF c

\* The lists that are passed.
LEMMA ListsAre ==
  ASSUME NEW n \in Nat, NEW ads \in Lists(n)
  PROVE  ads \in Seq(SivStrings) /\ Len(ads) \in Nat
<1>1. PICK k \in 0..n : ads \in [1..k -> SivStrings]
  BY DEF Lists
<1> QED BY <1>1

\* Every answer of S2V is a tag.
LEMMA S2VTags ==
  ASSUME NEW ads, NEW s
  PROVE  \E m : S2V(ads, s) = cpAES_CMAC(m)
BY Zenon DEF S2V, cpAES_S2V_final

\* A vector in which a bit was changed is no tag.
LEMMA ChangedVector ==
  ASSUME NEW m, NEW q, NEW j \in {1, SIV_BLOCK}, NEW b \in {"0x80", "0x01"}
  PROVE  [cpAES_CMAC(m) EXCEPT ![j] = Xor(@, {<<b>>})] # cpAES_CMAC(q)
<1> DEFINE v == [cpAES_CMAC(m) EXCEPT ![j] = Xor(@, {<<b>>})]
           a == <<"mac", m, 0, j>>
           d == <<"mac", q, 0, j>>
<1>1. j \in 1..SIV_BLOCK
  BY SivAssumption
<1>2. /\ cpAES_CMAC(m) = [i \in 1..SIV_BLOCK |-> {<<"mac", m, 0, i>>}]
      /\ cpAES_CMAC(m)[j] = {a} /\ cpAES_CMAC(q)[j] = {d}
  BY <1>1, TagBytes
<1>3. v[j] = Xor({a}, {<<b>>})
  BY <1>1, <1>2
<1>4. <<b>>[1] # "mac" /\ d[1] = "mac" /\ a[1] = "mac"
  OBVIOUS
<1>5. <<b>> # d /\ <<b>> # a
  BY <1>4
<1>6. <<b>> \in v[j] /\ <<b>> \notin cpAES_CMAC(q)[j]
  BY <1>2, <1>3, <1>5 DEF Xor
<1> QED BY <1>6

\* A vector that a receiver may be handed is the one sent or no tag.
LEMMA HandedTold ==
  ASSUME NEW m, NEW q, NEW siv \in Handed(cpAES_CMAC(m)), siv # cpAES_CMAC(m)
  PROVE  siv # cpAES_CMAC(q)
<1>1. ASSUME NEW j \in {1, SIV_BLOCK}, NEW b \in {"0x80", "0x01"},
             siv = [cpAES_CMAC(m) EXCEPT ![j] = Xor(@, {<<b>>})]
      PROVE  siv # cpAES_CMAC(q)
  BY <1>1, ChangedVector
<1>2. \E j \in {1, SIV_BLOCK}, b \in {"0x80", "0x01"} :
        siv = [cpAES_CMAC(m) EXCEPT ![j] = Xor(@, {<<b>>})]
  BY DEF Handed
<1> QED BY <1>1, <1>2

\* What is answered for an empty list is no vector of a message.
LEMMA EmptyListTold ==
  ASSUME NEW ads \in Seq(SivStrings), NEW s \in SivStrings
  PROVE  ippsAES_S2V_CMAC(<<>>) # S2V(ads, s)
<1> DEFINE B == SIV_BLOCK
           n == Len(ads)
           one == [ZeroBlock(B) EXCEPT ![B] = {<<"0x01">>}]
           end == EndOf(ads, n, s)
<1>1. B \in Nat \ {0} /\ n \in Nat
  BY SivAssumption
<1>2. ippsAES_S2V_CMAC(<<>>) = cpAES_CMAC(one)
  BY Zenon DEF ippsAES_S2V_CMAC
<1>3. S2V(ads, s) = cpAES_CMAC(end)
  BY <1>1, S2VIs
<1>4. DOMAIN one = 1..B /\ B \in 1..B /\ one[B] = {<<"0x01">>}
  BY <1>1 DEF ZeroBlock
<1>5. <<"0x01">>[1] # "mac"
  OBVIOUS
<1>6. NoTag(one[B])
  BY <1>4, <1>5 DEF NoTag
<1>7. \A d, j : d \in Nat => \E a \in Tags(ads, n, d, j) : a[1] = "mac"
  <2>1. SUFFICES ASSUME NEW d \in Nat, NEW j PROVE \E a \in Tags(ads, n, d, j) : a[1] = "mac"
    OBVIOUS
  <2>2. 0 \in 0..n
    BY <1>1
  <2>3. <<"mac", Taken(ads, 0), n - 0 + d, j>> \in Tags(ads, n, d, j)
    BY <2>2 DEF Tags
  <2>4. <<"mac", Taken(ads, 0), n - 0 + d, j>>[1] = "mac"
    OBVIOUS
  <2> QED BY <2>3, <2>4
<1> HIDE DEF one, n
<1>8. ASSUME end = one PROVE FALSE
  <2>1. Len(s) \in Nat
    BY StringPassed
  <2>2. CASE Len(s) >= B
    <3>1. end = LongEnd(ads, n, s)
      BY <2>2, Zenon DEF EndOf
    <3>2. DOMAIN end = 1..Len(s)
      BY <3>1 DEF LongEnd
    <3>3. Len(s) = B
      <4>1. Len(s) \in 1..B
        BY <1>1, <1>4, <1>8, <2>1, <2>2, <3>2
      <4> QED BY <1>1, <2>1, <2>2, <4>1
    <3>4. B > Len(s) - B /\ B \in 1..Len(s)
      BY <1>1, <3>3
    <3>5. end[B] = s[B] \cup Tags(ads, n, 0, B - (Len(s) - B))
      BY <3>1, <3>4 DEF LongEnd
    <3>6. PICK a \in Tags(ads, n, 0, B - (Len(s) - B)) : a[1] = "mac"
      BY <1>7
    <3> QED BY <1>6, <1>8, <3>5, <3>6 DEF NoTag
  <2>3. CASE ~(Len(s) >= B)
    <3>1. end = ShortEnd(ads, n, s)
      BY <2>3, Zenon DEF EndOf
    <3>2. end[B] = Padded(s, B) \cup Tags(ads, n, 1, B)
      BY <1>4, <3>1 DEF ShortEnd
    <3>3. PICK a \in Tags(ads, n, 1, B) : a[1] = "mac"
      BY <1>7
    <3> QED BY <1>6, <1>8, <3>2, <3>3 DEF NoTag
  <2> QED BY <2>2, <2>3
<1> QED BY <1>2, <1>3, <1>8, TagTold, Zenon

\* The strings that the vector of a message is taken from.
LEMMA ListTold ==
  ASSUME NEW list \in Seq(SivStrings), NEW ads \in Seq(SivStrings), NEW s \in SivStrings
  PROVE  ippsAES_S2V_CMAC(list) = S2V(ads, s) <=> list = Append(ads, s)
<1>1. CASE list = <<>>
  <2>1. Append(ads, s) # <<>>
    OBVIOUS
  <2> QED BY <1>1, <2>1, EmptyListTold
<1>2. CASE list # <<>>
  <2> DEFINE m == Len(list)
             front == SubSeq(list, 1, m - 1)
             last == list[m]
  <2>1. m \in Nat \ {0}
    BY <1>2
  <2>2. front \in Seq(SivStrings) /\ last \in SivStrings /\ Len(front) = m - 1
        /\ \A i \in 1..(m - 1) : front[i] = list[i]
    <3> DEFINE p == m - 1
    <3>1. p \in Nat /\ 0 \in Nat /\ 0 <= p /\ p <= Len(list) /\ m \in 1..m
      BY <2>1
    <3>2. last \in SivStrings
      BY <3>1
    <3> HIDE DEF p, m, last
    <3>3. /\ SubSeq(list, 0 + 1, p) \in Seq(SivStrings) /\ Len(SubSeq(list, 0 + 1, p)) = p - 0
          /\ \A i \in 1..(p - 0) : SubSeq(list, 0 + 1, p)[i] = list[0 + i]
      BY <3>1, Part
    <3>4. 0 + 1 = 1 /\ p - 0 = p /\ \A i \in 1..p : 0 + i = i
      BY <3>1
    <3>5. SubSeq(list, 1, p) \in Seq(SivStrings) /\ Len(SubSeq(list, 1, p)) = p
          /\ \A i \in 1..p : SubSeq(list, 1, p)[i] = list[i]
      BY <3>3, <3>4
    <3> QED BY <3>2, <3>5, Zenon DEF p
  <2>3. ippsAES_S2V_CMAC(list) = S2V(front, last)
    BY <1>2, Zenon DEF ippsAES_S2V_CMAC
  <2> HIDE DEF front, last
  <2>4. list = Append(front, last)
    <3>1. Append(front, last) \in Seq(SivStrings) /\ Len(Append(front, last)) = m
      BY <2>1, <2>2
    <3>2. ASSUME NEW i \in 1..m PROVE list[i] = Append(front, last)[i]
      <4>1. CASE i = m
        BY <2>1, <2>2, <4>1 DEF last
      <4>2. CASE i # m
        <5>1. i \in 1..(m - 1)
          BY <2>1, <4>2
        <5> QED BY <2>2, <5>1
      <4> QED BY <4>1, <4>2
    <3> QED BY <3>1, <3>2, SequencesEqual
  <2>5. Append(front, last) = Append(ads, s) <=> front = ads /\ last = s
    <3>1. ASSUME Append(front, last) = Append(ads, s) PROVE front = ads /\ last = s
      <4>1. Len(front) + 1 = Len(ads) + 1
        BY <2>2, <3>1
      <4>2. Len(front) = Len(ads) /\ Len(ads) \in Nat
        BY <2>2, <4>1
      <4>3. last = Append(front, last)[Len(front) + 1] /\ s = Append(ads, s)[Len(ads) + 1]
        BY <2>2
      <4>4. ASSUME NEW i \in 1..Len(ads) PROVE front[i] = ads[i]
        <5>1. front[i] = Append(front, last)[i] /\ ads[i] = Append(ads, s)[i]
          BY <2>2, <4>2
        <5> QED BY <3>1, <5>1
      <4> QED BY <2>2, <3>1, <4>2, <4>3, <4>4, SequencesEqual
    <3> QED BY <3>1
  <2>6. S2V(front, last) = S2V(ads, s) <=> front = ads /\ last = s
    BY <2>2, S2VTells
  <2> QED BY <2>3, <2>4, <2>5, <2>6, Zenon
<1> QED BY <1>1, <1>2
-----------------------------------------------------------------------------
\* What the sender has encrypted under the list ads.
Sealed(ads, src) ==
  [status |-> "ippStsNoErr", ads |-> ads, text |-> src, siv |-> S2V(ads, src),
   cipher |-> CTR(S2V(ads, src), src)]

\* Nothing is received or asked before something was sent.
SivInv ==
  /\ \/ sivSent.status # "ippStsNoErr" /\ sivGot = Nothing /\ sivV = Nothing
     \/ \E ads \in Lists(MAX_AD), src \in SivStrings : sivSent = Sealed(ads, src)
  /\ PassedIffSent /\ VectorBinds

\* No answer: nothing to bind.
LEMMA NothingBound ==
  /\ sivGot = Nothing => PassedIffSent
  /\ sivV = Nothing => VectorBinds
BY DEF Nothing, PassedIffSent, VectorBinds

\* The receiver is answered.
LEMMA DecryptBinds ==
  ASSUME NEW keyLen, NEW list \in Lists(MAX_AD), NEW src \in SivStrings, sivSent = Sealed(list, src),
         NEW ads \in Lists(MAX_AD), NEW text \in SivStrings, NEW siv \in Handed(sivSent.siv),
         ippsAES_SIVDecrypt(keyLen, ads, CTR(sivSent.siv, text), siv)
  PROVE  PassedIffSent'
<1> DEFINE S == S2V(list, src)
           c == CTR(S, text)
           dst == CTR(siv, c)
<1>1. /\ sivSent.siv = S /\ sivSent.ads = list /\ sivSent.text = src
      /\ sivSent.cipher = CTR(S, src) /\ sivSent' = sivSent
  BY DEF Sealed, ippsAES_SIVDecrypt
<1>2. list \in Seq(SivStrings) /\ ads \in Seq(SivStrings)
  BY ListsAre, SivAssumption
<1>3. CASE SivStatus(keyLen, Len(c)) # "ippStsNoErr"
  <2>1. sivGot' = [status |-> "ippStsLengthErr"]
    BY <1>1, <1>3 DEF ippsAES_SIVDecrypt
  <2> QED BY <2>1 DEF PassedIffSent
<1>4. CASE SivStatus(keyLen, Len(c)) = "ippStsNoErr"
  <2>1. sivGot' = [status |-> "ippStsNoErr", ads |-> ads, cipher |-> c, siv |-> siv,
                   text |-> dst, authPassed |-> siv = Recomputed(ads, c, dst)]
    BY <1>1, <1>4 DEF ippsAES_SIVDecrypt
  <2>2. Recomputed(ads, c, dst) = S2V(ads, dst)
    BY Zenon DEF Recomputed
  <2>3. /\ (siv = S2V(ads, dst)) <=> (ads = list /\ siv = S /\ c = CTR(S, src))
        /\ (siv = S2V(ads, dst)) => dst = src
    <3>1. CASE siv = S
      <4>1. dst = text
        BY <3>1, StreamUndone
      <4>2. c = CTR(S, src) <=> text = src
        <5>1. CTR(S, c) = text /\ CTR(S, CTR(S, src)) = src
          BY StreamUndone
        <5> HIDE DEF S
        <5> QED BY <5>1, Zenon
      <4>3. S = S2V(ads, text) <=> list = ads /\ src = text
        BY <1>2, S2VTells
      <4> HIDE DEF S, c, dst
      <4> QED BY <3>1, <4>1, <4>2, <4>3, Zenon
    <3>2. CASE siv # S
      <4>1. siv \in Handed(S)
        BY <1>1
      <4>2. PICK m : S = cpAES_CMAC(m)
        BY S2VTags
      <4>3. PICK q : S2V(ads, dst) = cpAES_CMAC(q)
        BY S2VTags
      <4> HIDE DEF S, c, dst
      <4>4. siv # S2V(ads, dst)
        BY <3>2, <4>1, <4>2, <4>3, HandedTold, Zenon
      <4> QED BY <3>2, <4>4, Zenon
    <3> QED BY <3>1, <3>2
  <2> HIDE DEF S, c, dst
  <2>4. /\ sivGot'.authPassed <=> siv = S2V(ads, dst)
        /\ sivGot'.ads = ads /\ sivGot'.siv = siv /\ sivGot'.cipher = c /\ sivGot'.text = dst
    BY <2>1, <2>2
  <2>5. /\ sivSent'.siv = S /\ sivSent'.ads = list /\ sivSent'.text = src
        /\ sivSent'.cipher = CTR(S, src)
    BY <1>1, Zenon
  <2> QED BY <2>3, <2>4, <2>5, Zenon DEF PassedIffSent
<1> QED BY <1>3, <1>4

\* S2V is answered.
LEMMA S2VBinds ==
  ASSUME NEW keyLen, NEW ads \in Lists(MAX_AD), NEW src \in SivStrings, sivSent = Sealed(ads, src),
         NEW list \in Lists(MAX_AD + 1), S2VCall(keyLen, list)
  PROVE  VectorBinds'
<1>1. /\ sivSent.siv = S2V(ads, src) /\ sivSent.ads = ads /\ sivSent.text = src /\ sivSent' = sivSent
  BY DEF Sealed, S2VCall
<1>2. list \in Seq(SivStrings) /\ ads \in Seq(SivStrings)
  BY ListsAre, SivAssumption
<1>3. CASE keyLen = 17
  <2>1. sivV' = [status |-> "ippStsLengthErr"]
    BY <1>3 DEF S2VCall
  <2> QED BY <2>1 DEF VectorBinds
<1>4. CASE keyLen # 17
  <2>1. sivV' = [status |-> "ippStsNoErr", list |-> list, v |-> ippsAES_S2V_CMAC(list)]
    BY <1>4 DEF S2VCall
  <2>2. sivV'.list = list /\ sivV'.v = ippsAES_S2V_CMAC(list)
    BY <2>1
  <2>3. ippsAES_S2V_CMAC(list) = S2V(ads, src) <=> list = Append(ads, src)
    BY <1>2, ListTold
  <2> QED BY <1>1, <2>2, <2>3, Zenon DEF VectorBinds
<1> QED BY <1>3, <1>4

\* It holds before anything is sent.
LEMMA SivInitial == SivInit => SivInv
<1> SUFFICES ASSUME SivInit PROVE SivInv
  OBVIOUS
<1>1. sivSent = Nothing /\ sivGot = Nothing /\ sivV = Nothing
  BY DEF SivInit
<1>2. sivSent.status # "ippStsNoErr"
  BY <1>1 DEF Nothing
<1> QED BY <1>1, <1>2, NothingBound DEF SivInv

\* And every step keeps it, whatever the receiver is handed.
LEMMA SivNextKeeps == SivInv /\ [SivNext]_sivVars => SivInv'
<1> SUFFICES ASSUME SivInv, [SivNext]_sivVars PROVE SivInv'
  OBVIOUS
<1> DEFINE Quiet == sivGot = Nothing /\ sivV = Nothing
           Sent == \E ads \in Lists(MAX_AD), src \in SivStrings : sivSent = Sealed(ads, src)
<1>1. /\ (sivSent.status # "ippStsNoErr" /\ Quiet) \/ Sent
      /\ PassedIffSent /\ VectorBinds
  BY DEF SivInv
<1>2. Quiet' => PassedIffSent' /\ VectorBinds'
  BY NothingBound, PTL
<1>3. ASSUME NEW keyLen \in SivKeyLens, NEW ads \in Lists(MAX_AD), NEW src \in SivStrings,
             ippsAES_SIVEncrypt(keyLen, ads, src)
      PROVE  SivInv'
  <2>1. Quiet
    <3>1. sivSent.status # "ippStsNoErr"
      BY <1>3 DEF ippsAES_SIVEncrypt, Nothing
    <3>2. Sent => sivSent.status = "ippStsNoErr"
      BY DEF Sealed
    <3> QED BY <1>1, <3>1, <3>2
  <2>2. Quiet'
    BY <1>3, <2>1 DEF ippsAES_SIVEncrypt
  <2>3. sivSent'.status # "ippStsNoErr" \/ sivSent' = Sealed(ads, src)
    BY <1>3 DEF ippsAES_SIVEncrypt, Sealed
  <2> QED BY <1>2, <2>2, <2>3 DEF SivInv
<1>4. ASSUME sivSent.status = "ippStsNoErr",
             NEW keyLen \in SivKeyLens, NEW ads \in Lists(MAX_AD), NEW text \in SivStrings,
             NEW siv \in Handed(sivSent.siv),
             ippsAES_SIVDecrypt(keyLen, ads, CTR(sivSent.siv, text), siv)
      PROVE  SivInv'
  <2>1. PICK list \in Lists(MAX_AD), src \in SivStrings : sivSent = Sealed(list, src)
    BY <1>1, <1>4
  <2>2. PassedIffSent'
    BY <1>4, <2>1, DecryptBinds
  <2>3. sivSent' = sivSent /\ sivV' = sivV /\ sivV = Nothing
    BY <1>4 DEF ippsAES_SIVDecrypt
  <2>4. VectorBinds'
    BY <2>3 DEF VectorBinds, Nothing
  <2> QED BY <2>1, <2>2, <2>3, <2>4 DEF SivInv
<1>5. ASSUME sivSent.status = "ippStsNoErr",
             NEW keyLen \in SivKeyLens, NEW list \in Lists(MAX_AD + 1), S2VCall(keyLen, list)
      PROVE  SivInv'
  <2>1. PICK ads \in Lists(MAX_AD), src \in SivStrings : sivSent = Sealed(ads, src)
    BY <1>1, <1>5
  <2>2. VectorBinds'
    BY <1>5, <2>1, S2VBinds
  <2>3. sivSent' = sivSent /\ sivGot' = sivGot /\ sivGot = Nothing
    BY <1>5 DEF S2VCall
  <2>4. PassedIffSent'
    BY <2>3 DEF PassedIffSent, Nothing
  <2> QED BY <2>1, <2>2, <2>3, <2>4 DEF SivInv
<1>6. CASE SivRest
  <2>1. sivSent' = Nothing /\ Quiet'
    BY <1>6 DEF SivRest
  <2>2. sivSent'.status # "ippStsNoErr"
    BY <2>1 DEF Nothing
  <2> QED BY <1>2, <2>1, <2>2 DEF SivInv
<1>7. CASE UNCHANGED sivVars
  BY <1>1, <1>7 DEF SivInv, sivVars, PassedIffSent, VectorBinds
<1> HIDE DEF SivInv
<1> QED BY <1>3, <1>4, <1>5, <1>6, <1>7 DEF SivNext

\* However a list of strings and a text are cut, padded or changed on the way: a decryption passes
\* exactly if list, cipher text and vector are those that were sent, and S2V tells lists apart.
THEOREM SivBindsAlways == SivSpec => []SivBinds
<1>1. SivInv => SivBinds
  BY DEF SivInv, SivBinds
<1> QED BY SivInitial, SivNextKeeps, <1>1, PTL DEF SivSpec
=============================================================================
