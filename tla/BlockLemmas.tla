----------------------------- MODULE BlockLemmas -----------------------------
(***************************************************************************)
(* Facts the proofs share: division with remainder by a positive number    *)
(* that need not be a constant of arithmetic, induction, sequences and     *)
(* their parts, and bytes cut into blocks of any size.                     *)
(***************************************************************************)
EXTENDS Blocks, SequenceTheorems, WellFoundedInduction, TLAPS

-----------------------------------------------------------------------------
(* Induction.                                                              *)

\* A set of numbers that is not empty has a least element.
LEMMA LeastNumber ==
  ASSUME NEW S \in SUBSET Nat, S # {}
  PROVE  \E n \in S : \A m \in S : n <= m
<1> DEFINE R == OpToRel(<, Nat)
<1>1. R = {ss \in Nat \X Nat : ss[1] < ss[2]}
  BY DEF OpToRel
<1>2. IsWellFoundedOn(R, Nat)
  BY NatLessThanWellFounded
<1> HIDE DEF R
<1>3. PICK n \in S : \A m \in S : ~(<<m, n>> \in R)
  BY <1>2, WFMin
<1>4. ASSUME NEW m \in S PROVE n <= m
  <2>1. <<m, n>> \in Nat \X Nat /\ <<m, n>>[1] = m /\ <<m, n>>[2] = n
    OBVIOUS
  <2>2. ~(m < n)
    BY <1>1, <1>3, <2>1
  <2> QED BY <2>2, n \in Nat, m \in Nat
<1> QED BY <1>4

\* Induction, for a set of numbers.
LEMMA Induction ==
  ASSUME NEW S, 0 \in S, \A n \in Nat : n \in S => n + 1 \in S
  PROVE  Nat \subseteq S
<1>1. ASSUME NEW k \in Nat, k \notin S PROVE FALSE
  <2> DEFINE T == {n \in Nat : n \notin S}
  <2>1. T \in SUBSET Nat /\ T # {}
    BY <1>1
  <2>2. PICK n \in T : \A m \in T : n <= m
    BY <2>1, LeastNumber
  <2>3. n # 0
    BY <2>2
  <2>4. n - 1 \in Nat /\ n - 1 \in S
    BY <2>2, <2>3
  <2> QED BY <2>2, <2>4
<1> QED BY <1>1

-----------------------------------------------------------------------------
(* Quotients and remainders.                                               *)

\* Every number is a whole number of blocks and a rest smaller than a block.
LEMMA DivMod ==
  ASSUME NEW b \in Nat \ {0}, NEW n \in Nat
  PROVE  /\ n % b \in 0..(b - 1)
         /\ n \div b \in Nat
         /\ n = b * (n \div b) + (n % b)
  BY SMT

\* A positive number of blocks is at least a block long.
LEMMA OneBlock ==
  ASSUME NEW b \in Nat \ {0}, NEW d \in Nat \ {0}
  PROVE  b * d >= b
  BY SMT

\* A number splits into blocks and rest in one way only.
LEMMA SplitUnique ==
  ASSUME NEW b \in Nat \ {0},
         NEW q \in Nat, NEW r \in 0..(b - 1), NEW p \in Nat, NEW t \in 0..(b - 1),
         b * q + r = b * p + t
  PROVE  q = p /\ r = t
<1>1. CASE q < p
  <2>1. b * (p - q) >= b
    BY <1>1, OneBlock, p - q \in Nat \ {0}
  <2>2. b * (p - q) = b * p - b * q
    BY SMT
  <2> QED BY <2>1, <2>2, SMT
<1>2. CASE p < q
  <2>1. b * (q - p) >= b
    BY <1>2, OneBlock, q - p \in Nat \ {0}
  <2>2. b * (q - p) = b * q - b * p
    BY SMT
  <2> QED BY <2>1, <2>2, SMT
<1> QED BY <1>1, <1>2, SMT

\* Quotient and remainder of a number given as blocks and rest.
LEMMA DivModOfSplit ==
  ASSUME NEW b \in Nat \ {0}, NEW q \in Nat, NEW r \in 0..(b - 1)
  PROVE  (b * q + r) \div b = q /\ (b * q + r) % b = r
<1> DEFINE n == b * q + r
<1>1. n \in Nat
  BY SMT
<1>2. /\ n % b \in 0..(b - 1)
      /\ n \div b \in Nat
      /\ n = b * (n \div b) + (n % b)
  BY <1>1, DivMod
<1> QED BY <1>2, SplitUnique

\* Taking away the rest leaves whole blocks.
LEMMA WholeBlocksDivide ==
  ASSUME NEW b \in Nat \ {0}, NEW n \in Nat
  PROVE  /\ n - (n % b) \in Nat
         /\ (n - (n % b)) \div b = n \div b
         /\ n - (n % b) = b * (n \div b)
<1>1. /\ n % b \in 0..(b - 1)
      /\ n \div b \in Nat
      /\ n = b * (n \div b) + (n % b)
  BY DivMod
<1>2. n - (n % b) = b * (n \div b) + 0 /\ 0 \in 0..(b - 1)
  BY <1>1, SMT
<1>3. (b * (n \div b) + 0) \div b = n \div b
  BY <1>1, <1>2, DivModOfSplit
<1> QED BY <1>1, <1>2, <1>3, SMT

\* Adding to a remainder or to the number itself gives the same remainder.
LEMMA ModOfSum ==
  ASSUME NEW b \in Nat \ {0}, NEW n \in Nat, NEW k \in Nat
  PROVE  ((n % b) + k) % b = (n + k) % b
<1>1. /\ n % b \in 0..(b - 1)
      /\ n \div b \in Nat
      /\ n = b * (n \div b) + (n % b)
  BY DivMod
<1> DEFINE m == (n % b) + k
<1>2. m \in Nat
  BY <1>1
<1>3. /\ m % b \in 0..(b - 1)
      /\ m \div b \in Nat
      /\ m = b * (m \div b) + (m % b)
  BY <1>2, DivMod
<1>4. n + k = b * (n \div b) + (b * (m \div b) + (m % b))
  BY <1>1, <1>3, SMT
<1>5. b * (n \div b) + (b * (m \div b) + (m % b)) = b * ((n \div b) + (m \div b)) + (m % b)
  BY <1>1, <1>3, SMT
<1>6. (n \div b) + (m \div b) \in Nat
  BY <1>1, <1>3
<1> HIDE DEF m
<1>7. (b * ((n \div b) + (m \div b)) + (m % b)) % b = m % b
  BY <1>3, <1>6, DivModOfSplit
<1> QED BY <1>4, <1>5, <1>7 DEF m

\* A number below the modulus is its own remainder.
LEMMA ModOfSmall ==
  ASSUME NEW b \in Nat \ {0}, NEW n \in 0..(b - 1)
  PROVE  n % b = n
<1>1. b * 0 + n = n
  BY SMT
<1> QED BY <1>1, DivModOfSplit

-----------------------------------------------------------------------------
(* Sequences.                                                              *)

\* A sequence is known by its length and its elements.
LEMMA SequencesEqual ==
  ASSUME NEW X, NEW s \in Seq(X), NEW t \in Seq(X), Len(s) = Len(t),
         \A i \in 1..Len(s) : s[i] = t[i]
  PROVE  s = t
  BY SMT

\* A part of a sequence.
LEMMA Part ==
  ASSUME NEW X, NEW s \in Seq(X), NEW a \in Nat, NEW b \in Nat, a <= b, b <= Len(s)
  PROVE  /\ SubSeq(s, a + 1, b) \in Seq(X) /\ Len(SubSeq(s, a + 1, b)) = b - a
         /\ \A i \in 1..(b - a) : SubSeq(s, a + 1, b)[i] = s[a + i]
<1>1. \A i \in (a + 1)..b : s[i] \in X
  BY Len(s) \in Nat, SMT
<1>2. /\ SubSeq(s, a + 1, b) \in Seq(X)
      /\ Len(SubSeq(s, a + 1, b)) = IF a + 1 <= b THEN b - (a + 1) + 1 ELSE 0
      /\ \A i \in 1..(b - (a + 1) + 1) : SubSeq(s, a + 1, b)[i] = s[(a + 1) + i - 1]
  BY <1>1, SubSeqProperties, a + 1 \in Int, b \in Int
<1> QED BY <1>2

\* Two sequences joined.
LEMMA Joined ==
  ASSUME NEW X, NEW s \in Seq(X), NEW t \in Seq(X)
  PROVE  /\ Len(s) \in Nat /\ Len(t) \in Nat
         /\ s \o t \in Seq(X) /\ Len(s \o t) = Len(s) + Len(t)
         /\ \A i \in 1..Len(s) : (s \o t)[i] = s[i]
         /\ \A i \in 1..Len(t) : (s \o t)[Len(s) + i] = t[i]
  BY SMT

\* An empty part of a sequence.
LEMMA NoPart ==
  ASSUME NEW X, NEW s \in Seq(X), NEW a \in Nat
  PROVE  SubSeq(s, a + 1, a) = <<>>
  BY SMT

\* All of a sequence.
LEMMA WholePart ==
  ASSUME NEW X, NEW s \in Seq(X)
  PROVE  SubSeq(s, 1, Len(s)) = s
<1>1. /\ 0 \in Nat /\ Len(s) \in Nat /\ 0 <= Len(s) /\ Len(s) <= Len(s)
      /\ 0 + 1 = 1 /\ Len(s) - 0 = Len(s) /\ \A i \in 1..Len(s) : 0 + i = i
  BY SMT
<1> DEFINE t == SubSeq(s, 1, Len(s))
<1>2. t \in Seq(X) /\ Len(t) = Len(s) /\ \A i \in 1..Len(s) : t[i] = s[0 + i]
  <2>1. /\ SubSeq(s, 0 + 1, Len(s)) \in Seq(X) /\ Len(SubSeq(s, 0 + 1, Len(s))) = Len(s) - 0
        /\ \A i \in 1..(Len(s) - 0) : SubSeq(s, 0 + 1, Len(s))[i] = s[0 + i]
    BY <1>1, Part
  <2> QED BY <1>1, <2>1
<1> HIDE DEF t
<1>3. t = s
  BY <1>1, <1>2, SequencesEqual
<1> QED BY <1>3 DEF t

\* Three parts that follow one another make up the sequence.
InThreeParts(X, s, a, b) ==
  /\ SubSeq(s, 1, a) \in Seq(X) /\ Len(SubSeq(s, 1, a)) = a
  /\ SubSeq(s, a + 1, b) \in Seq(X) /\ Len(SubSeq(s, a + 1, b)) = b - a
  /\ SubSeq(s, b + 1, Len(s)) \in Seq(X) /\ Len(SubSeq(s, b + 1, Len(s))) = Len(s) - b
  /\ s = SubSeq(s, 1, a) \o (SubSeq(s, a + 1, b) \o SubSeq(s, b + 1, Len(s)))

\* A sequence cut at two places.
LEMMA ThreeParts ==
  ASSUME NEW X, NEW s \in Seq(X), NEW a \in Nat, NEW b \in Nat, a <= b, b <= Len(s)
  PROVE  InThreeParts(X, s, a, b)
<1> DEFINE n == Len(s)
           x == SubSeq(s, 1, a)
           y == SubSeq(s, a + 1, b)
           z == SubSeq(s, b + 1, n)
           z0 == 0
<1>1. n \in Nat /\ a <= n /\ b <= n /\ z0 \in Nat /\ z0 <= a /\ z0 + 1 = 1 /\ a - z0 = a
      /\ \A i \in 1..a : z0 + i = i
  OBVIOUS
<1> HIDE DEF z0
<1>2. x \in Seq(X) /\ Len(x) = a /\ \A i \in 1..a : x[i] = s[i]
  <2>1. /\ SubSeq(s, z0 + 1, a) \in Seq(X) /\ Len(SubSeq(s, z0 + 1, a)) = a - z0
        /\ \A i \in 1..(a - z0) : SubSeq(s, z0 + 1, a)[i] = s[z0 + i]
    BY ONLY <1>1, s \in Seq(X), a \in Nat, Part, n <= Len(s) DEF n
  <2> QED BY <1>1, <2>1
<1>3. y \in Seq(X) /\ Len(y) = b - a /\ \A i \in 1..(b - a) : y[i] = s[a + i]
  BY Part
<1>4. z \in Seq(X) /\ Len(z) = n - b /\ \A i \in 1..(n - b) : z[i] = s[b + i]
  BY Part, <1>1
<1> HIDE DEF x, y, z, n
<1> DEFINE u == y \o z
<1>5. /\ u \in Seq(X) /\ Len(u) = n - a
      /\ (\A i \in 1..(b - a) : u[i] = s[a + i])
      /\ \A i \in 1..(n - b) : u[(b - a) + i] = s[b + i]
  <2>1. /\ u \in Seq(X) /\ Len(u) = Len(y) + Len(z)
        /\ \A i \in 1..Len(y) : u[i] = y[i]
        /\ \A i \in 1..Len(z) : u[Len(y) + i] = z[i]
    <3>1. y \in Seq(X) /\ z \in Seq(X)
      BY <1>3, <1>4
    <3> QED BY ONLY <3>1, Joined DEF u
  <2> HIDE DEF u
  <2>2. b - a \in Nat /\ n - b \in Nat /\ Len(y) + Len(z) = n - a
    BY ONLY <1>1, <1>3, <1>4, a \in Nat, b \in Nat, a <= b
  <2> QED BY <2>2, <1>1, <1>3, <1>4, <2>1
<1> HIDE DEF u
<1> DEFINE v == x \o u
<1>6. /\ v \in Seq(X) /\ Len(v) = n
      /\ (\A i \in 1..a : v[i] = s[i])
      /\ \A i \in 1..(n - a) : v[a + i] = u[i]
  <2>1. /\ v \in Seq(X) /\ Len(v) = Len(x) + Len(u)
        /\ \A i \in 1..Len(x) : v[i] = x[i]
        /\ \A i \in 1..Len(u) : v[Len(x) + i] = u[i]
    <3>1. x \in Seq(X) /\ u \in Seq(X)
      BY <1>2, <1>5
    <3> QED BY ONLY <3>1, Joined DEF v
  <2> HIDE DEF v
  <2>2. b - a \in Nat /\ n - b \in Nat /\ Len(x) + Len(u) = n
    BY ONLY <1>1, <1>2, <1>5, a \in Nat, b \in Nat, a <= b
  <2> QED BY <2>2, <1>1, <1>2, <1>5, <2>1
<1> HIDE DEF v
<1>7. ASSUME NEW i \in 1..n
      PROVE  v[i] = s[i]
  <2>1. CASE i <= a
    BY <1>1, <1>6, <2>1
  <2>2. CASE i > a /\ i <= b
    <3>1. i - a \in 1..(b - a) /\ i - a \in 1..(n - a) /\ a + (i - a) = i
      BY <1>1, <2>2, b <= n DEF n
    <3> QED BY <1>5, <1>6, <3>1
  <2>3. CASE i > b
    <3>1. /\ i - b \in 1..(n - b) /\ i - a \in 1..(n - a) /\ a + (i - a) = i
          /\ (b - a) + (i - b) = i - a /\ b + (i - b) = i
      BY <1>1, <2>3
    <3>2. v[a + (i - a)] = u[i - a]
      BY <1>6, <3>1, Zenon
    <3>3. u[(b - a) + (i - b)] = s[b + (i - b)]
      BY <1>5, <3>1, Zenon
    <3> QED BY <3>1, <3>2, <3>3, Zenon
  <2> QED BY <1>1, <2>1, <2>2, <2>3
<1>8. v = s
  BY <1>6, <1>7, SequencesEqual DEF n
<1> QED BY <1>2, <1>3, <1>4, <1>8, Zenon DEF InThreeParts, v, u, x, y, z, n

\* What stands before and after a cut.
LEMMA Uncut ==
  ASSUME NEW X, NEW p \in Seq(X), NEW s \in Seq(X), NEW n, n = Len(p)
  PROVE  SubSeq(p \o s, 1, n) = p /\ SubSeq(p \o s, n + 1, Len(p \o s)) = s
<1> DEFINE t == p \o s
           l == Len(t)
           x == SubSeq(t, 1, n)
           y == SubSeq(t, n + 1, l)
<1>1. /\ n \in Nat /\ Len(s) \in Nat /\ t \in Seq(X) /\ l = n + Len(s)
      /\ \A i \in 1..n : t[i] = p[i]
      /\ \A i \in 1..Len(s) : t[n + i] = s[i]
  BY Joined
<1> HIDE DEF t
<1>2. 0 \in Nat /\ 0 + 1 = 1 /\ n - 0 = n /\ 0 <= n /\ n <= l /\ l \in Nat /\ l <= l /\ l - n = Len(s)
  BY <1>1
<1>3. x \in Seq(X) /\ Len(x) = n /\ \A i \in 1..n : x[i] = t[i]
  <2>1. /\ SubSeq(t, 0 + 1, n) \in Seq(X) /\ Len(SubSeq(t, 0 + 1, n)) = n - 0
        /\ \A i \in 1..(n - 0) : SubSeq(t, 0 + 1, n)[i] = t[0 + i]
    BY <1>1, <1>2, Part
  <2> QED BY <1>2, <2>1
<1>4. y \in Seq(X) /\ Len(y) = l - n /\ \A i \in 1..(l - n) : y[i] = t[n + i]
  BY <1>1, <1>2, Part
<1> HIDE DEF x, y, l
<1>5. x = p
  <2>1. Len(x) = Len(p) /\ \A i \in 1..Len(x) : x[i] = p[i]
    BY <1>1, <1>3
  <2> QED BY <1>3, <2>1, SequencesEqual
<1>6. y = s
  <2>1. Len(y) = Len(s) /\ \A i \in 1..Len(y) : y[i] = s[i]
    BY <1>1, <1>2, <1>4
  <2> QED BY <1>4, <2>1, SequencesEqual
<1> QED BY <1>5, <1>6 DEF x, y, t, l

-----------------------------------------------------------------------------
(* Cutting bytes into blocks of b.                                         *)

\* The number of blocks that n bytes take.
BlocksIn(b, n) == (n + b - 1) \div b

\* Whole blocks and a rest.
LEMMA BlocksInSplit ==
  ASSUME NEW b \in Nat \ {0}, NEW q \in Nat, NEW r \in 0..(b - 1)
  PROVE  BlocksIn(b, b * q + r) = q + (IF r > 0 THEN 1 ELSE 0)
<1>1. CASE r = 0
  <2>1. (b * q + r) + b - 1 = b * q + (b - 1)
    BY <1>1, SMT
  <2>2. b - 1 \in 0..(b - 1)
    BY SMT
  <2>3. (b * q + (b - 1)) \div b = q
    BY <2>2, DivModOfSplit
  <2> QED BY <1>1, <2>1, <2>3 DEF BlocksIn
<1>2. CASE r > 0
  <2>1. (b * q + r) + b - 1 = b * (q + 1) + (r - 1)
    BY <1>2, SMT
  <2>2. r - 1 \in 0..(b - 1) /\ q + 1 \in Nat
    BY <1>2, SMT
  <2>3. (b * (q + 1) + (r - 1)) \div b = q + 1
    BY <2>2, DivModOfSplit
  <2> QED BY <1>2, <2>1, <2>3 DEF BlocksIn
<1> QED BY <1>1, <1>2

\* Whole blocks in front add their number.
LEMMA BlocksInSum ==
  ASSUME NEW b \in Nat \ {0}, NEW q \in Nat, NEW n \in Nat
  PROVE  BlocksIn(b, b * q + n) = q + BlocksIn(b, n) /\ BlocksIn(b, n) \in Nat
<1> DEFINE p == n \div b
           r == n % b
<1>1. p \in Nat /\ r \in 0..(b - 1) /\ n = b * p + r
  BY DivMod
<1> HIDE DEF p, r
<1>2. b * q + n = b * (q + p) + r /\ q + p \in Nat
  BY <1>1, SMT
<1>3. BlocksIn(b, n) = p + (IF r > 0 THEN 1 ELSE 0)
  BY <1>1, BlocksInSplit
<1>4. BlocksIn(b, b * q + n) = (q + p) + (IF r > 0 THEN 1 ELSE 0)
  <2> DEFINE d == q + p
  <2>1. d \in Nat /\ b * q + n = b * d + r
    BY <1>2
  <2> HIDE DEF d
  <2>2. BlocksIn(b, b * d + r) = d + (IF r > 0 THEN 1 ELSE 0)
    BY <1>1, <2>1, BlocksInSplit
  <2> QED BY <2>1, <2>2, Zenon DEF d
<1> QED BY <1>1, <1>3, <1>4

\* A block that is begun counts like one that is complete.
LEMMA BlocksInBegun ==
  ASSUME NEW b \in Nat \ {0}, NEW q \in Nat, NEW g \in 1..b
  PROVE  BlocksIn(b, b * q + g) = q + 1
<1>1. CASE g < b
  <2>1. g \in 0..(b - 1) /\ g > 0
    BY <1>1
  <2>2. BlocksIn(b, b * q + g) = q + (IF g > 0 THEN 1 ELSE 0)
    BY <2>1, BlocksInSplit
  <2> QED BY <2>1, <2>2
<1>2. CASE g = b
  <2> DEFINE p == q + 1
             r == 0
  <2>1. p \in Nat /\ r \in 0..(b - 1) /\ b * q + g = b * p + r
    BY <1>2, SMT
  <2>2. p + (IF r > 0 THEN 1 ELSE 0) = q + 1
    OBVIOUS
  <2> HIDE DEF p, r
  <2>3. BlocksIn(b, b * p + r) = p + (IF r > 0 THEN 1 ELSE 0)
    BY <2>1, BlocksInSplit
  <2> QED BY <2>1, <2>2, <2>3, Zenon
<1> QED BY <1>1, <1>2

\* The place of a byte of the k-th block.
LEMMA PlaceOfByte ==
  ASSUME NEW b \in Nat \ {0}, NEW k \in Nat \ {0}, NEW j \in 1..b
  PROVE  /\ (k - 1) * b + j \in Nat \ {0}
         /\ \A q \in Nat : (k - 1) * b + j <= b * q <=> k <= q
         /\ \A q \in Nat : ((q + k) - 1) * b + j = b * q + ((k - 1) * b + j)
<1>1. (k - 1) * b \in Nat
  BY SMT
<1>2. ASSUME NEW q \in Nat
      PROVE  (k - 1) * b + j <= b * q <=> k <= q
  <2>1. CASE k <= q
    <3>1. (q - k) * b >= 0
      BY <2>1, SMT
    <3>2. (q - k) * b = b * q - ((k - 1) * b + b)
      BY SMT
    <3>3. b * q \in Nat
      BY SMT
    <3> QED BY <1>1, <2>1, <3>1, <3>2, <3>3
  <2>2. CASE k > q
    <3>1. (k - 1 - q) * b >= 0
      BY <2>2, SMT
    <3>2. (k - 1 - q) * b = (k - 1) * b - b * q
      BY SMT
    <3>3. b * q \in Nat
      BY SMT
    <3> QED BY <1>1, <2>2, <3>1, <3>2, <3>3
  <2> QED BY <2>1, <2>2
<1>3. ASSUME NEW q \in Nat
      PROVE  ((q + k) - 1) * b + j = b * q + ((k - 1) * b + j)
  BY SMT
<1> QED BY <1>1, <1>2, <1>3

\* The blocks of b bytes out of B.
SizedBlocks(b, B) == [1..b -> B]

\* A block of a text that is cut into blocks.
CutBlock(b, s, k) ==
  [j \in 1..b |-> IF (k - 1) * b + j <= Len(s) THEN s[(k - 1) * b + j] ELSE {}]

\* A text cut into blocks.
LEMMA CutBlocks ==
  ASSUME NEW b \in Nat \ {0}, NEW B, {} \in B, NEW s \in Seq(B)
  PROVE  /\ ZeroPadded(s, b) \in Seq(SizedBlocks(b, B))
         /\ Len(ZeroPadded(s, b)) = BlocksIn(b, Len(s))
         /\ \A k \in 1..BlocksIn(b, Len(s)) : ZeroPadded(s, b)[k] = CutBlock(b, s, k)
<1> DEFINE n == BlocksIn(b, Len(s))
           z == [k \in 1..n |-> CutBlock(b, s, k)]
<1>1. ZeroPadded(s, b) = z
  BY Zenon DEF ZeroPadded, BlocksIn, CutBlock
<1>2. n \in Nat
  <2>1. Len(s) \in Nat /\ 0 \in Nat
    BY SMT
  <2> QED BY <2>1, BlocksInSum
<1>3. ASSUME NEW k \in 1..n
      PROVE  CutBlock(b, s, k) \in SizedBlocks(b, B)
  <2>1. k \in Nat \ {0}
    BY <1>2
  <2>2. ASSUME NEW j \in 1..b
        PROVE  (IF (k - 1) * b + j <= Len(s) THEN s[(k - 1) * b + j] ELSE {}) \in B
    <3> DEFINE p == (k - 1) * b + j
    <3>1. p \in Nat \ {0}
      BY <2>1, PlaceOfByte
    <3> HIDE DEF p
    <3>2. p <= Len(s) => s[p] \in B
      BY <3>1
    <3>3. (IF p <= Len(s) THEN s[p] ELSE {}) \in B
      BY <3>2
    <3> QED BY <3>3 DEF p
  <2> QED BY <2>2 DEF CutBlock, SizedBlocks
<1>4. z \in [1..n -> SizedBlocks(b, B)]
  BY <1>3
<1>5. \A k \in 1..n : z[k] = CutBlock(b, s, k)
  OBVIOUS
<1> HIDE DEF z, n
<1>6. z \in Seq(SizedBlocks(b, B)) /\ Len(z) = n
  BY <1>2, <1>4, SMT
<1> QED BY <1>1, <1>5, <1>6 DEF n

\* No bytes take no block.
LEMMA CutNone ==
  ASSUME NEW b \in Nat \ {0}
  PROVE  ZeroPadded(<<>>, b) = <<>>
<1> DEFINE B == {{}}
<1>1. <<>> \in Seq(B) /\ Len(<<>>) = 0 /\ b * 0 + 0 = 0 /\ 0 \in 0..(b - 1) /\ 0 \in Nat
  BY SMT
<1>2. BlocksIn(b, 0) = 0
  <2> DEFINE q == 0
             r == 0
  <2>1. q \in Nat /\ r \in 0..(b - 1) /\ b * q + r = 0 /\ q + (IF r > 0 THEN 1 ELSE 0) = 0
    BY <1>1
  <2> HIDE DEF q, r
  <2>2. BlocksIn(b, b * q + r) = q + (IF r > 0 THEN 1 ELSE 0)
    BY <2>1, BlocksInSplit
  <2> QED BY <2>1, <2>2, Zenon
<1> DEFINE z == ZeroPadded(<<>>, b)
<1>3. z \in Seq(SizedBlocks(b, B)) /\ Len(z) = 0
  BY <1>1, <1>2, CutBlocks
<1> HIDE DEF z
<1>4. z = <<>>
  BY <1>3, SMT
<1> QED BY <1>4 DEF z

\* At most a block of bytes.
LEMMA CutOne ==
  ASSUME NEW b \in Nat \ {0}, NEW B, {} \in B, NEW s \in Seq(B), Len(s) \in 1..b
  PROVE  ZeroPadded(s, b) = <<CopyBlock(s, ZeroBlock(b), 0)>>
<1> DEFINE z == ZeroPadded(s, b)
           c == CopyBlock(s, ZeroBlock(b), 0)
           n == Len(s)
<1>1. BlocksIn(b, n) = 1
  <2> DEFINE q == 0
  <2>1. q \in Nat /\ n \in 1..b /\ b * q + n = n /\ q + 1 = 1
    BY SMT
  <2> HIDE DEF q, n
  <2>2. BlocksIn(b, b * q + n) = q + 1
    BY <2>1, BlocksInBegun
  <2> QED BY <2>1, <2>2, Zenon
<1>2. z \in Seq(SizedBlocks(b, B)) /\ Len(z) = 1 /\ z[1] = CutBlock(b, s, 1)
  BY <1>1, CutBlocks, 1 \in 1..1
<1>3. c \in SizedBlocks(b, B) /\ (\A j \in 1..n : c[0 + j] = s[j]) /\ \A j \in (0 + n + 1)..b : c[j] = {}
  <2>1. 0 \in Nat /\ 0 + Len(s) <= b /\ Len(s) \in Nat
    OBVIOUS
  <2>2. \A j \in (0 + n + 1)..b : j \in 1..b
    BY <2>1
  <2>3. \A j \in 1..b : c[j] = IF j \in (0 + 1)..(0 + n) THEN s[j - 0] ELSE {}
    BY DEF CopyBlock, ZeroBlock
  <2>4. \A j \in 1..b : c[j] \in B
    BY <2>3
  <2>5. c = [j \in 1..b |-> c[j]]
    BY Zenon DEF CopyBlock, ZeroBlock
  <2> HIDE DEF c
  <2>6. c \in SizedBlocks(b, B)
    BY <2>4, <2>5 DEF SizedBlocks
  <2> QED BY <2>1, <2>2, <2>3, <2>6
<1> HIDE DEF z, c
<1>4. c = CutBlock(b, s, 1)
  <2>1. ASSUME NEW j \in 1..b
        PROVE  c[j] = IF (1 - 1) * b + j <= Len(s) THEN s[(1 - 1) * b + j] ELSE {}
    <3>1. (1 - 1) * b + j = j /\ Len(s) \in Nat
      OBVIOUS
    <3>2. CASE j <= Len(s)
      <4>1. j \in 1..n /\ 0 + j = j
        BY <3>1, <3>2
      <4>2. c[j] = s[j]
        BY <1>3, <4>1
      <4> QED BY <3>1, <3>2, <4>2
    <3>3. CASE ~(j <= Len(s))
      <4>1. j \in (0 + n + 1)..b
        BY <3>1, <3>3
      <4> QED BY <1>3, <3>1, <3>3, <4>1
    <3> QED BY <3>2, <3>3
  <2>2. c = [j \in 1..b |-> c[j]]
    BY <1>3 DEF SizedBlocks
  <2> QED BY <2>1, <2>2 DEF CutBlock
<1>5. z = <<c>>
  BY <1>2, <1>4, SMT
<1> QED BY <1>5 DEF z, c

\* Whole blocks, and what follows them.
LEMMA CutParts ==
  ASSUME NEW b \in Nat \ {0}, NEW B, {} \in B, NEW s \in Seq(B), NEW t \in Seq(B), NEW q \in Nat, Len(s) = b * q
  PROVE  ZeroPadded(s \o t, b) = ZeroPadded(s, b) \o ZeroPadded(t, b)
<1> DEFINE st == s \o t
           l == Len(s)
           n == Len(t)
           zs == ZeroPadded(s, b)
           zt == ZeroPadded(t, b)
           z  == ZeroPadded(st, b)
           p  == BlocksIn(b, n)
<1>1. /\ l \in Nat /\ n \in Nat /\ st \in Seq(B) /\ Len(st) = l + n
      /\ \A i \in 1..l : st[i] = s[i]
      /\ \A i \in 1..n : st[l + i] = t[i]
  BY ONLY s \in Seq(B), t \in Seq(B), Joined
<1>2. BlocksIn(b, l) = q /\ p \in Nat /\ BlocksIn(b, l + n) = q + p
  <2>1. l = b * q + 0 /\ 0 \in 0..(b - 1)
    BY SMT
  <2>2. BlocksIn(b, b * q + 0) = q
    <3> DEFINE r == 0
    <3>1. r \in 0..(b - 1) /\ r = 0
      BY <2>1
    <3> HIDE DEF r
    <3>2. BlocksIn(b, b * q + r) = q + (IF r > 0 THEN 1 ELSE 0)
      BY <3>1, BlocksInSplit
    <3>3. (IF r > 0 THEN 1 ELSE 0) = 0 /\ q + 0 = q
      BY <3>1
    <3> QED BY <3>1, <3>2, <3>3, Zenon
  <2>3. BlocksIn(b, b * q + n) = q + p /\ p \in Nat
    BY <1>1, BlocksInSum
  <2> QED BY <2>1, <2>2, <2>3
<1>3. zs \in Seq(SizedBlocks(b, B)) /\ Len(zs) = q /\ \A k \in 1..q : zs[k] = CutBlock(b, s, k)
  BY <1>2, CutBlocks
<1>4. zt \in Seq(SizedBlocks(b, B)) /\ Len(zt) = p /\ \A k \in 1..p : zt[k] = CutBlock(b, t, k)
  BY <1>2, CutBlocks
<1>5. z \in Seq(SizedBlocks(b, B)) /\ Len(z) = q + p /\ \A k \in 1..(q + p) : z[k] = CutBlock(b, st, k)
  <2>1. st \in Seq(B) /\ BlocksIn(b, Len(st)) = q + p
    BY <1>1, <1>2, Zenon
  <2> HIDE DEF st
  <2>2. z \in Seq(SizedBlocks(b, B)) /\ Len(z) = BlocksIn(b, Len(st))
        /\ \A k \in 1..BlocksIn(b, Len(st)) : z[k] = CutBlock(b, st, k)
    BY <2>1, CutBlocks
  <2> HIDE DEF z
  <2> QED BY <2>1, <2>2, Zenon
<1> HIDE DEF zs, zt, z, st, p
<1>6. ASSUME NEW k \in 1..q
      PROVE  CutBlock(b, st, k) = CutBlock(b, s, k)
  <2>1. ASSUME NEW j \in 1..b
        PROVE  /\ (k - 1) * b + j <= Len(st)
               /\ (k - 1) * b + j <= Len(s)
               /\ st[(k - 1) * b + j] = s[(k - 1) * b + j]
    <3> DEFINE i == (k - 1) * b + j
    <3>1. k \in Nat \ {0} /\ k <= q
      OBVIOUS
    <3>2. i \in Nat \ {0} /\ i <= b * q
      BY <3>1, PlaceOfByte
    <3> HIDE DEF i
    <3>3. i \in 1..l /\ i <= Len(st)
      BY <1>1, <3>2
    <3> QED BY <1>1, <3>3 DEF i
  <2> QED BY <2>1, Zenon DEF CutBlock
<1>7. ASSUME NEW k \in 1..p
      PROVE  CutBlock(b, st, q + k) = CutBlock(b, t, k)
  <2>1. ASSUME NEW j \in 1..b
        PROVE  /\ ((q + k) - 1) * b + j <= Len(st) <=> (k - 1) * b + j <= Len(t)
               /\ (k - 1) * b + j <= Len(t)
                    => st[((q + k) - 1) * b + j] = t[(k - 1) * b + j]
    <3> DEFINE i == (k - 1) * b + j
               m == ((q + k) - 1) * b + j
    <3>1. k \in Nat \ {0}
      BY <1>2
    <3>2. i \in Nat \ {0} /\ m = l + i
      BY <3>1, PlaceOfByte
    <3> HIDE DEF i, m
    <3>3. m <= Len(st) <=> i <= n
      BY <1>1, <3>2
    <3>4. ASSUME i <= n PROVE st[m] = t[i]
      <4>1. i \in 1..n
        BY <1>1, <3>2, <3>4
      <4> QED BY <1>1, <3>2, <4>1, Zenon
    <3> QED BY <3>3, <3>4 DEF i, m
  <2>2. ASSUME NEW j \in 1..b
        PROVE  (IF ((q + k) - 1) * b + j <= Len(st) THEN st[((q + k) - 1) * b + j] ELSE {})
                 = IF (k - 1) * b + j <= Len(t) THEN t[(k - 1) * b + j] ELSE {}
    BY <2>1, Zenon
  <2> QED BY <2>2, Zenon DEF CutBlock
<1> DEFINE r == zs \o zt
<1>8. /\ r \in Seq(SizedBlocks(b, B)) /\ Len(r) = q + p
      /\ \A k \in 1..q : r[k] = zs[k]
      /\ \A k \in 1..p : r[q + k] = zt[k]
  <2>1. zs \in Seq(SizedBlocks(b, B)) /\ zt \in Seq(SizedBlocks(b, B))
    BY <1>3, <1>4
  <2>2. /\ r \in Seq(SizedBlocks(b, B)) /\ Len(r) = Len(zs) + Len(zt)
        /\ \A k \in 1..Len(zs) : r[k] = zs[k]
        /\ \A k \in 1..Len(zt) : r[Len(zs) + k] = zt[k]
    BY ONLY <2>1, Joined
  <2> HIDE DEF r
  <2> QED BY <1>3, <1>4, <2>2, Zenon
<1> HIDE DEF r
<1>9. ASSUME NEW k \in 1..(q + p)
      PROVE  z[k] = r[k]
  <2>1. CASE k <= q
    <3>1. k \in 1..q
      BY <2>1
    <3> QED BY <1>3, <1>5, <1>6, <1>8, <3>1
  <2>2. CASE k > q
    <3> DEFINE i == k - q
    <3>1. i \in 1..p /\ q + i = k
      BY <1>2, <2>2
    <3> HIDE DEF i
    <3>2. z[q + i] = CutBlock(b, st, q + i)
      BY <1>5, <3>1
    <3> QED BY <1>4, <1>7, <1>8, <3>1, <3>2
  <2> QED BY <1>2, <2>1, <2>2
<1>10. z = r
  BY <1>5, <1>8, <1>9, SequencesEqual
<1> QED BY <1>10 DEF z, r, zs, zt, st
=============================================================================
