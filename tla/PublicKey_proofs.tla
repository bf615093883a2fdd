-------------------------- MODULE PublicKey_proofs --------------------------
(***************************************************************************)
(* The almost Montgomery inverse, and the inverse scaled from it, are      *)
(* right for every odd modulus and every number below it, though all       *)
(* carries are dropped but one.  The SM2 encryption scheme keeps its       *)
(* promise for every hash context, secret, message and cut of it into      *)
(* calls.  Signatures match, secrets agree and the SM2 key exchange agrees *)
(* on every curve with a base point of the order the scheme asks for.  The *)
(* products by windows are those of the group law, in every prime field.   *)
(***************************************************************************)
EXTENDS ModInverse, ECES_SM2, HashContext_proofs, EcSchemes, KeyExchange, ScalarMul

-----------------------------------------------------------------------------
(* The almost inverse.                                                     *)

\* t with the carry that ext keeps of it.
FullT == IF ext = 0 THEN t ELSE t + Cap(call.m)

\* The call is one the engine makes.
CallOK ==
  /\ call.m \in InvModuli /\ call.a \in 0..(call.m - 1)

Typing ==
  /\ u \in Nat /\ v \in Nat /\ s \in Nat \ {0} /\ t \in Nat /\ pw \in Nat
  /\ ext \in {0, 1} /\ (v # 0 => ext = 0)
  /\ u > 0 /\ t < Cap(call.m) /\ s <= call.m

\* The determinant of the two relations below: what keeps every number within its chunks
\* as long as v is positive.
Determinant == u * s + v * FullT = call.m

\* What t and s are, modulo m: -u*2^k/a and v*2^k/a.
RelationT == \E c \in Int : call.a * FullT + u * pw = c * call.m
RelationS == \E d \in Int : call.a * s - v * pw = d * call.m

\* t is zero only while u is still the modulus, and even once v is zero.
NotTheModulus ==
  /\ t = 0 /\ ext = 0 => u = call.m /\ v < u
  /\ v = 0 => FullT % 2 = 0
  /\ FullT < 2 * call.m

LoopInv == CallOK /\ Typing /\ Determinant /\ RelationT /\ RelationS /\ NotTheModulus

IInv ==
  /\ task \in {"idle", "loop", "scale", "done"}
  /\ task = "loop" => LoopInv
  /\ AlmostInverse

-----------------------------------------------------------------------------
\* A number and a multiple of m more have the same rest.
LEMMA SameRest ==
  ASSUME NEW m \in Nat \ {0}, NEW x \in Nat, NEW y \in Nat, NEW q \in Int, x = y + q * m
  PROVE  x % m = y % m
<1>1. /\ y % m \in 0..(m - 1) /\ y \div m \in Nat /\ y = m * (y \div m) + (y % m)
      /\ x % m \in 0..(m - 1) /\ x \div m \in Nat /\ x = m * (x \div m) + (x % m)
  BY DivMod
<1> DEFINE p == y \div m + q
<1>2. p \in Int /\ x = m * p + (y % m)
  BY <1>1, SMT
<1>3. p \in Nat
  <2>1. SUFFICES ASSUME p < 0 PROVE FALSE
    BY <1>2, SMT
  <2>2. -p \in Nat \ {0}
    BY <1>2, <2>1, SMT
  <2>3. m * (-p) >= m
    BY <2>2, OneBlock
  <2>4. m * p = -(m * (-p))
    BY <1>2, SMT
  <2> HIDE DEF p
  <2> QED BY <1>1, <1>2, <2>3, <2>4, SMT
<1> HIDE DEF p
<1>4. (m * p + (y % m)) % m = y % m
  BY <1>1, <1>3, DivModOfSplit
<1> QED BY <1>2, <1>4

\* A factor of a sum of products that is at least one leaves the other in the sum's bound.
LEMMA ProductBounds ==
  ASSUME NEW x \in Nat \ {0}, NEW y \in Nat
  PROVE  x * y >= y
  BY SMT

\* Half of an even number.
LEMMA Half ==
  ASSUME NEW n \in Nat, n % 2 = 0
  PROVE  n \div 2 \in Nat /\ n = 2 * (n \div 2)
  BY SMT

\* An odd number is not zero; two odd numbers differ by an even one.
LEMMA OddDifference ==
  ASSUME NEW x \in Nat, NEW y \in Nat, x % 2 # 0, y % 2 # 0, x >= y
  PROVE  (x - y) % 2 = 0
  BY SMT

-----------------------------------------------------------------------------
(* Powers of two: the bits of a number and the chunks that hold it.        *)

\* f holds the powers of two up to the n-th.
PowersTo(f, n) == f = [i \in 0..n |-> IF i = 0 THEN 1 ELSE 2 * f[i - 1]]

\* There are such functions for every n.
LEMMA PowersExist ==
  ASSUME NEW n \in Nat
  PROVE  \E f : PowersTo(f, n)
<1> DEFINE S == {p \in Nat : \E f : PowersTo(f, p)}
<1>1. 0 \in S
  <2> DEFINE g == [i \in 0..0 |-> 1]
  <2>1. PowersTo(g, 0)
    BY DEF PowersTo
  <2> QED BY <2>1
<1>2. ASSUME NEW p \in Nat, p \in S
      PROVE  p + 1 \in S
  <2>1. PICK f : PowersTo(f, p)
    BY <1>2
  <2> DEFINE g == [i \in 0..(p + 1) |-> IF i = p + 1 THEN 2 * f[p] ELSE f[i]]
  <2>2. ASSUME NEW i \in 0..(p + 1)
        PROVE  g[i] = IF i = 0 THEN 1 ELSE 2 * g[i - 1]
    <3>1. CASE i = p + 1
      <4>1. p \in 0..(p + 1) /\ g[p] = f[p] /\ p = i - 1 /\ i # 0
        BY <3>1
      <4>2. g[i] = 2 * f[p]
        BY <3>1
      <4> QED BY <4>1, <4>2
    <3>2. CASE i # p + 1
      <4>1. i \in 0..p /\ g[i] = f[i]
        BY <3>2
      <4>2. f[i] = IF i = 0 THEN 1 ELSE 2 * f[i - 1]
        BY <2>1, <4>1, Zenon DEF PowersTo
      <4>3. i # 0 => g[i - 1] = f[i - 1]
        BY <4>1
      <4> QED BY <4>1, <4>2, <4>3
    <3> QED BY <3>1, <3>2
  <2>3. PowersTo(g, p + 1)
    <3>1. g = [i \in 0..(p + 1) |-> g[i]]
      OBVIOUS
    <3> HIDE DEF g
    <3> QED BY <2>2, <3>1, Zenon DEF PowersTo
  <2> QED BY <2>3
<1> HIDE DEF S
<1>3. n \in S
  BY <1>1, <1>2, Induction
<1> QED BY <1>3 DEF S

\* They agree where both are defined.
LEMMA PowersAgree ==
  ASSUME NEW n \in Nat, NEW p \in Nat, NEW f, NEW g, PowersTo(f, n), PowersTo(g, p),
         NEW j \in Nat, j <= n, j <= p
  PROVE  f[j] = g[j]
<1> DEFINE S == {i \in Nat : i <= n /\ i <= p => f[i] = g[i]}
<1>1. \A i \in 0..n : f[i] = IF i = 0 THEN 1 ELSE 2 * f[i - 1]
  BY Zenon DEF PowersTo
<1>2. \A i \in 0..p : g[i] = IF i = 0 THEN 1 ELSE 2 * g[i - 1]
  BY Zenon DEF PowersTo
<1>3. 0 \in S
  BY <1>1, <1>2
<1>4. ASSUME NEW i \in Nat, i \in S
      PROVE  i + 1 \in S
  <2>1. SUFFICES ASSUME i + 1 <= n, i + 1 <= p
                 PROVE  f[i + 1] = g[i + 1]
    OBVIOUS
  <2>2. f[i] = g[i]
    BY <1>4, <2>1
  <2>3. i + 1 \in 0..n /\ i + 1 \in 0..p /\ i + 1 # 0 /\ (i + 1) - 1 = i
    BY <2>1
  <2>4. f[i + 1] = 2 * f[i] /\ g[i + 1] = 2 * g[i]
    BY <1>1, <1>2, <2>3
  <2> QED BY <2>2, <2>4
<1> HIDE DEF S
<1>5. j \in S
  BY <1>3, <1>4, Induction
<1> QED BY <1>5 DEF S

\* The powers of two are what Power2 defines.
LEMMA PowerSteps ==
  /\ Power2[0] = 1
  /\ \A n \in Nat : Power2[n + 1] = 2 * Power2[n]
<1> DEFINE to(n) == CHOOSE f : PowersTo(f, n)
           F == [n \in Nat |-> to(n)[n]]
<1>1. \A n \in Nat : PowersTo(to(n), n)
  BY PowersExist
<1>2. ASSUME NEW n \in Nat
      PROVE  F[n] = IF n = 0 THEN 1 ELSE 2 * F[n - 1]
  <2>1. to(n)[n] = IF n = 0 THEN 1 ELSE 2 * to(n)[n - 1]
    <3>1. n \in 0..n /\ PowersTo(to(n), n)
      BY <1>1
    <3> HIDE DEF to
    <3> QED BY <3>1, Zenon DEF PowersTo
  <2>2. n # 0 => to(n)[n - 1] = to(n - 1)[n - 1]
    <3>1. SUFFICES ASSUME n # 0 PROVE to(n)[n - 1] = to(n - 1)[n - 1]
      OBVIOUS
    <3>2. n - 1 \in Nat /\ n - 1 <= n /\ n - 1 <= n - 1
      BY <3>1
    <3>3. PowersTo(to(n), n) /\ PowersTo(to(n - 1), n - 1)
      BY <1>1, <3>2
    <3> HIDE DEF to
    <3> QED BY <3>2, <3>3, PowersAgree
  <2>3. n # 0 => n - 1 \in Nat
    OBVIOUS
  <2> HIDE DEF to
  <2> QED BY <2>1, <2>2, <2>3
<1>3. F = [n \in Nat |-> IF n = 0 THEN 1 ELSE 2 * F[n - 1]]
  <2>1. F = [n \in Nat |-> F[n]]
    OBVIOUS
  <2> HIDE DEF F
  <2> QED BY <1>2, <2>1, Zenon
<1> HIDE DEF F, to
<1>4. Power2 = [n \in Nat |-> IF n = 0 THEN 1 ELSE 2 * Power2[n - 1]]
  BY <1>3, Zenon DEF Power2
<1>5. \A n \in Nat : Power2[n] = IF n = 0 THEN 1 ELSE 2 * Power2[n - 1]
  BY <1>4, Zenon
<1>6. \A n \in Nat : n + 1 \in Nat /\ n + 1 # 0 /\ (n + 1) - 1 = n
  OBVIOUS
<1> QED BY <1>5, <1>6

\* They are positive numbers, and outgrow their exponents.
LEMMA PowerTyped ==
  ASSUME NEW n \in Nat
  PROVE  Power2[n] \in Nat \ {0} /\ n < Power2[n]
<1> DEFINE S == {p \in Nat : Power2[p] \in Nat \ {0} /\ p < Power2[p]}
<1>1. 0 \in S
  BY PowerSteps
<1>2. ASSUME NEW p \in Nat, p \in S
      PROVE  p + 1 \in S
  BY <1>2, PowerSteps
<1> HIDE DEF S
<1>3. n \in S
  BY <1>1, <1>2, Induction
<1> QED BY <1>3 DEF S

\* The product of two powers is the power of the sum.
LEMMA PowerSum ==
  ASSUME NEW i \in Nat, NEW j \in Nat
  PROVE  Power2[i + j] = Power2[i] * Power2[j]
<1> DEFINE S == {p \in Nat : Power2[i + p] = Power2[i] * Power2[p]}
<1>1. 0 \in S
  BY PowerSteps, PowerTyped, i + 0 = i
<1>2. ASSUME NEW p \in Nat, p \in S
      PROVE  p + 1 \in S
  <2> DEFINE x == Power2[i]
             y == Power2[p]
  <2>1. x \in Nat /\ y \in Nat
    BY PowerTyped
  <2>2. Power2[i + p] = x * y
    BY <1>2
  <2>3. i + p \in Nat /\ i + (p + 1) = (i + p) + 1
    OBVIOUS
  <2>4. Power2[i + (p + 1)] = 2 * Power2[i + p]
    BY <2>3, PowerSteps
  <2>5. Power2[p + 1] = 2 * y
    BY PowerSteps
  <2> HIDE DEF x, y
  <2>6. 2 * (x * y) = x * (2 * y)
    BY <2>1, SMT
  <2>7. Power2[i + (p + 1)] = x * Power2[p + 1]
    BY <2>2, <2>4, <2>5, <2>6
  <2> QED BY <2>7 DEF x
<1> HIDE DEF S
<1>3. j \in S
  BY <1>1, <1>2, Induction
<1> QED BY <1>3 DEF S

\* A greater power has a greater exponent.
LEMMA PowerOrder ==
  ASSUME NEW i \in Nat, NEW j \in Nat, Power2[i] < Power2[j]
  PROVE  i < j
<1>1. SUFFICES ASSUME j <= i PROVE FALSE
  OBVIOUS
<1>2. i - j \in Nat /\ i = (i - j) + j
  BY <1>1
<1>3. Power2[i] = Power2[i - j] * Power2[j]
  BY <1>2, PowerSum
<1>4. Power2[i - j] \in Nat \ {0} /\ Power2[j] \in Nat
  BY <1>2, PowerTyped
<1>5. Power2[i - j] * Power2[j] >= Power2[j]
  BY <1>4, ProductBounds
<1>6. Power2[i] \in Nat
  BY PowerTyped
<1> QED BY <1>3, <1>4, <1>5, <1>6, SMT

\* MOD_BITSIZE is the number of bits.
LEMMA BitSize ==
  ASSUME NEW m \in Nat, m > 0
  PROVE  /\ MOD_BITSIZE(m) \in Nat \ {0}
         /\ Power2[MOD_BITSIZE(m) - 1] <= m /\ m < Power2[MOD_BITSIZE(m)]
<1> DEFINE S == {n \in Nat : m < Power2[n]}
<1>1. S \in SUBSET Nat /\ m \in S
  BY PowerTyped
<1>2. PICK n \in S : \A p \in S : n <= p
  BY <1>1, LeastNumber
<1>3. n # 0
  BY <1>2, PowerSteps
<1>4. n \in 1..m /\ n - 1 \in Nat /\ n - 1 \notin S
  BY <1>1, <1>2, <1>3
<1>5. Power2[n - 1] <= m /\ m < Power2[n]
  BY <1>2, <1>4, PowerTyped
<1> HIDE DEF S
<1>6. \E p \in 1..m : Power2[p - 1] <= m /\ m < Power2[p]
  BY <1>4, <1>5
<1>7. /\ MOD_BITSIZE(m) \in 1..m
      /\ Power2[MOD_BITSIZE(m) - 1] <= m /\ m < Power2[MOD_BITSIZE(m)]
  BY <1>6, Zenon DEF MOD_BITSIZE
<1> QED BY <1>7

\* The chunks of a number hold its bits.
LEMMA ChunksHold ==
  ASSUME NEW m \in Nat, m > 0
  PROVE  LenBits(m) \in Nat /\ MOD_BITSIZE(m) <= LenBits(m) /\ Cap(m) \in Nat \ {0} /\ m < Cap(m)
<1> DEFINE b == MOD_BITSIZE(m)
           c == CHUNK_BITS
           n == b + c - 1
<1>1. b \in Nat \ {0} /\ m < Power2[b]
  BY BitSize
<1>2. c \in Nat \ {0}
  BY ChunkAssumption
<1>3. LenBits(m) = (n \div c) * c
  BY DEF LenBits, MOD_LEN
<1> HIDE DEF b, c
<1>4. n \in Nat
  BY <1>1, <1>2
<1> HIDE DEF n
<1>5. n % c \in 0..(c - 1) /\ n \div c \in Nat /\ n = c * (n \div c) + (n % c)
  BY <1>2, <1>4, DivMod
<1> DEFINE q == n \div c
           e == n % c
<1>6. e \in 0..(c - 1) /\ q \in Nat /\ n = c * q + e /\ LenBits(m) = q * c
  BY <1>3, <1>5
<1> HIDE DEF q, e
<1>7. q * c = c * q /\ c * q \in Nat
  BY <1>2, <1>6, SMT
<1>8. LenBits(m) \in Nat /\ b <= LenBits(m)
  BY <1>1, <1>2, <1>6, <1>7 DEF n
<1>9. LenBits(m) - b \in Nat /\ LenBits(m) = (LenBits(m) - b) + b
  BY <1>1, <1>8
<1>10. Cap(m) = Power2[LenBits(m) - b] * Power2[b]
  BY <1>1, <1>9, PowerSum DEF Cap
<1>11. Power2[LenBits(m) - b] \in Nat \ {0} /\ Power2[b] \in Nat \ {0}
  BY <1>1, <1>9, PowerTyped
<1>12. Power2[LenBits(m) - b] * Power2[b] >= Power2[b]
  BY <1>11, ProductBounds
<1>13. Cap(m) \in Nat \ {0}
  BY <1>8, PowerTyped DEF Cap
<1> QED BY <1>1, <1>8, <1>10, <1>11, <1>12, <1>13 DEF b

-----------------------------------------------------------------------------
\* A modulus of the engines is odd and fits its chunks.
LEMMA Modulus ==
  ASSUME NEW m \in InvModuli
  PROVE  m \in Nat /\ m > 1 /\ m % 2 = 1 /\ Cap(m) \in Nat /\ Cap(m) > m
<1>1. m \in Nat /\ m > 1 /\ m % 2 = 1
  BY InvAssumption
<1> QED BY <1>1, ChunksHold

\* While v is positive no doubled or added number outgrows its chunks.
LEMMA NoOverflow ==
  ASSUME LoopInv, v # 0
  PROVE  /\ ext = 0 /\ FullT = t
         /\ t < call.m /\ u * s + v * t = call.m
         /\ u * s <= call.m /\ v * t < call.m
<1>1. ext = 0 /\ FullT = t
  BY DEF LoopInv, Typing, FullT
<1>2. call.m \in Nat
  BY Modulus DEF LoopInv, CallOK
<1>3. u * s + v * t = call.m
  BY <1>1 DEF LoopInv, Determinant
<1>4. u * s \in Nat /\ u * s >= s /\ v * t \in Nat /\ v * t >= t /\ s > 0
  <2>1. u \in Nat \ {0} /\ v \in Nat \ {0} /\ s \in Nat \ {0} /\ t \in Nat
    BY DEF LoopInv, Typing
  <2>2. u * s >= s /\ v * t >= t
    BY <2>1, ProductBounds
  <2> QED BY <2>1, <2>2, SMT
<1>5. t \in Nat /\ s \in Nat
  BY DEF LoopInv, Typing
<1> QED BY <1>1, <1>2, <1>3, <1>4, <1>5, SMT

\* The invariant at the beginning of a call.
LEMMA InvertLoop ==
  ASSUME NEW fn, NEW ct, NEW m \in InvModuli, NEW a \in 0..(m - 1), Invert(fn, ct, m, a)
  PROVE  LoopInv'
<1>1. /\ call'.m = m /\ call'.a = a
      /\ u' = m /\ v' = a /\ s' = 1 /\ t' = 0 /\ ext' = 0 /\ pw' = 1
  BY DEF Invert
<1>2. m \in Nat /\ m > 1 /\ Cap(m) \in Nat /\ Cap(m) > m /\ a \in Nat /\ a < m
  BY Modulus, SMT
<1>3. FullT' = 0
  BY <1>1 DEF FullT
<1>4. CallOK' /\ Typing'
  BY <1>1, <1>2 DEF CallOK, Typing
<1>5. Determinant'
  BY <1>1, <1>2, <1>3, SMT DEF Determinant
<1>6. RelationT'
  <2>1. a * 0 + m * 1 = 1 * m
    BY <1>2, SMT
  <2> QED BY <1>1, <1>3, <2>1 DEF RelationT
<1>7. RelationS'
  <2>1. a * 1 - a * 1 = 0 * m
    BY <1>2, SMT
  <2> QED BY <1>1, <2>1 DEF RelationS
<1>8. NotTheModulus'
  BY <1>1, <1>2, <1>3, SMT DEF NotTheModulus
<1> QED BY <1>4, <1>5, <1>6, <1>7, <1>8 DEF LoopInv

\* A number below the capacity stays as it is in its chunks.
LEMMA Fits ==
  ASSUME NEW x \in Nat, call.m \in InvModuli, x < Cap(call.m)
  PROVE  Word(x) = x /\ Carry(x) = 0
<1>1. Cap(call.m) \in Nat \ {0}
  BY Modulus
<1>2. x = Cap(call.m) * 0 + x /\ x \in 0..(Cap(call.m) - 1)
  BY <1>1, SMT
<1>3. (Cap(call.m) * 0 + x) \div Cap(call.m) = 0 /\ (Cap(call.m) * 0 + x) % Cap(call.m) = x
  BY <1>1, <1>2, DivModOfSplit
<1> QED BY <1>2, <1>3 DEF Word, Carry

\* A relation whose products are doubled on both sides.
LEMMA Doubled ==
  ASSUME NEW x \in Int, NEW y \in Int, NEW q \in Int, NEW n \in Int,
         NEW a \in Int, NEW b \in Int, a * x + b * y = q * n
  PROVE  a * (2 * x) + b * (2 * y) = (2 * q) * n
<1>1. a * (2 * x) = 2 * (a * x) /\ b * (2 * y) = 2 * (b * y) /\ (2 * q) * n = 2 * (q * n)
  BY SMT
<1> DEFINE ax == a * x
           by == b * y
           qn == q * n
<1>2. ax \in Int /\ by \in Int /\ qn \in Int /\ ax + by = qn
  BY SMT
<1>3. a * (2 * x) = 2 * ax /\ b * (2 * y) = 2 * by /\ (2 * q) * n = 2 * qn
  BY <1>1
<1> HIDE DEF ax, by, qn
<1> QED BY <1>2, <1>3, SMT

\* The same of a difference.
LEMMA DoubledDifference ==
  ASSUME NEW x \in Int, NEW y \in Int, NEW q \in Int, NEW n \in Int,
         NEW a \in Int, NEW b \in Int, a * x - b * y = q * n
  PROVE  a * (2 * x) - b * (2 * y) = (2 * q) * n
<1>1. a * x + (-b) * y = q * n
  BY SMT
<1>2. a * (2 * x) + (-b) * (2 * y) = (2 * q) * n
  BY <1>1, Doubled, -b \in Int
<1>3. (-b) * (2 * y) = -(b * (2 * y)) /\ b * (2 * y) \in Int /\ a * (2 * x) \in Int
  BY SMT
<1> QED BY <1>2, <1>3, SMT

\* u is halved, and s doubled in return.
LEMMA HalveULoop ==
  ASSUME LoopInv, HalveU
  PROVE  LoopInv'
<1> DEFINE m == call.m
           C == Cap(call.m)
           a == call.a
           h == u \div 2
<1>1. /\ ext = 0 /\ FullT = t
      /\ t < m /\ u * s + v * t = m
      /\ u * s <= m /\ v * t < m
  BY NoOverflow DEF HalveU, Counted
<1>2. /\ m \in InvModuli /\ m \in Nat /\ m > 1 /\ m % 2 = 1 /\ C \in Nat /\ C > m
      /\ a \in Nat
  BY Modulus, SMT DEF LoopInv, CallOK
<1>3. u \in Nat /\ v \in Nat /\ s \in Nat \ {0} /\ t \in Nat /\ pw \in Nat /\ u > 0
  BY DEF LoopInv, Typing
<1>4. /\ call' = call /\ u' = h /\ v' = v /\ t' = t /\ ext' = ext /\ s' = Word(2 * s)
      /\ pw' = 2 * pw /\ u % 2 = 0 /\ v # 0
  BY DEF HalveU, Counted
<1>5. h \in Nat \ {0} /\ u = 2 * h
  BY <1>3, <1>4, Half, SMT
<1> HIDE DEF h
<1>6. h * (2 * s) = u * s
  BY <1>3, <1>5, SMT
<1>7. 2 * s <= m
  <2>1. h * (2 * s) >= 2 * s
    BY <1>3, <1>5, ProductBounds, 2 * s \in Nat
  <2>2. u * s \in Int
    BY <1>3, SMT
  <2> QED BY <1>1, <1>2, <1>3, <1>6, <2>1, <2>2, SMT
<1>8. s' = 2 * s
  BY <1>2, <1>3, <1>4, <1>7, Fits, 2 * s \in Nat, 2 * s < C
<1>9. FullT' = t
  BY <1>1, <1>4 DEF FullT
<1>10. CallOK'
  BY <1>4 DEF LoopInv, CallOK
<1>11. Typing'
  <2>1. t < C /\ 2 * s \in Nat \ {0} /\ 2 * pw \in Nat
    BY <1>1, <1>2, <1>3, SMT
  <2> QED BY <1>1, <1>2, <1>3, <1>4, <1>5, <1>7, <1>8, <2>1 DEF Typing
<1>12. Determinant'
  BY <1>1, <1>4, <1>6, <1>8, <1>9 DEF Determinant
<1>13. RelationT'
  <2>1. PICK c \in Int : a * t + u * pw = c * m
    BY <1>1 DEF LoopInv, RelationT
  <2>2. a * t + h * (2 * pw) = c * m
    BY <1>2, <1>3, <1>5, <2>1, SMT
  <2> QED BY <1>4, <1>9, <2>2 DEF RelationT
<1>14. RelationS'
  <2>1. PICK d \in Int : a * s - v * pw = d * m
    BY DEF LoopInv, RelationS
  <2>2. a * (2 * s) - v * (2 * pw) = (2 * d) * m
    BY <1>2, <1>3, <2>1, DoubledDifference, SMT
  <2> QED BY <1>4, <1>8, <2>2, 2 * d \in Int DEF RelationS
<1>15. NotTheModulus'
  <2>1. t # 0
    BY <1>1, <1>2, <1>3, <1>4, SMT DEF LoopInv, NotTheModulus
  <2> QED BY <1>1, <1>2, <1>3, <1>4, <1>9, <2>1, SMT DEF NotTheModulus
<1> QED BY <1>10, <1>11, <1>12, <1>13, <1>14, <1>15 DEF LoopInv

\* v is halved, and t doubled in return.
LEMMA HalveVLoop ==
  ASSUME LoopInv, HalveV
  PROVE  LoopInv'
<1> DEFINE m == call.m
           C == Cap(call.m)
           a == call.a
           h == v \div 2
<1>1. /\ ext = 0 /\ FullT = t
      /\ t < m /\ u * s + v * t = m
      /\ u * s <= m /\ v * t < m
  BY NoOverflow DEF HalveV, Counted
<1>2. /\ m \in InvModuli /\ m \in Nat /\ m > 1 /\ m % 2 = 1 /\ C \in Nat /\ C > m
      /\ a \in Nat
  BY Modulus, SMT DEF LoopInv, CallOK
<1>3. u \in Nat /\ v \in Nat /\ s \in Nat \ {0} /\ t \in Nat /\ pw \in Nat /\ u > 0
  BY DEF LoopInv, Typing
<1>4. /\ call' = call /\ v' = h /\ u' = u /\ s' = s /\ ext' = ext /\ t' = Word(2 * t)
      /\ pw' = 2 * pw /\ v % 2 = 0 /\ v # 0
  BY DEF HalveV, Counted
<1>5. h \in Nat \ {0} /\ v = 2 * h
  BY <1>3, <1>4, Half, SMT
<1> HIDE DEF h
<1>6. h * (2 * t) = v * t
  BY <1>3, <1>5, SMT
<1>7. 2 * t < m
  <2>1. h * (2 * t) >= 2 * t
    BY <1>3, <1>5, ProductBounds, 2 * t \in Nat
  <2>2. v * t \in Int
    BY <1>3, SMT
  <2> QED BY <1>1, <1>2, <1>3, <1>6, <2>1, <2>2, SMT
<1>8. t' = 2 * t
  BY <1>2, <1>3, <1>4, <1>7, Fits, 2 * t \in Nat, 2 * t < C
<1>9. FullT' = 2 * t
  BY <1>1, <1>4, <1>8 DEF FullT
<1>10. CallOK'
  BY <1>4 DEF LoopInv, CallOK
<1>11. Typing'
  <2>1. 2 * t < C /\ 2 * t \in Nat /\ 2 * pw \in Nat
    BY <1>2, <1>3, <1>7, SMT
  <2> QED BY <1>1, <1>2, <1>3, <1>4, <1>5, <1>8, <2>1 DEF LoopInv, Typing
<1>12. Determinant'
  BY <1>1, <1>4, <1>6, <1>9 DEF Determinant
<1>13. RelationT'
  <2>1. PICK c \in Int : a * t + u * pw = c * m
    BY <1>1 DEF LoopInv, RelationT
  <2>2. a * (2 * t) + u * (2 * pw) = (2 * c) * m
    BY <1>2, <1>3, <2>1, Doubled, SMT
  <2> QED BY <1>4, <1>9, <2>2, 2 * c \in Int DEF RelationT
<1>14. RelationS'
  <2>1. PICK d \in Int : a * s - v * pw = d * m
    BY DEF LoopInv, RelationS
  <2>2. a * s - h * (2 * pw) = d * m
    BY <1>2, <1>3, <1>5, <2>1, SMT
  <2> QED BY <1>4, <2>2 DEF RelationS
<1>15. NotTheModulus'
  <2>1. t = 0 => u = m /\ h < u
    BY <1>1, <1>2, <1>3, <1>4, <1>5, SMT DEF LoopInv, NotTheModulus
  <2> QED BY <1>1, <1>2, <1>3, <1>4, <1>5, <1>7, <1>8, <1>9, <2>1, SMT DEF NotTheModulus
<1> QED BY <1>10, <1>11, <1>12, <1>13, <1>14, <1>15 DEF LoopInv

\* v is taken from u, which is halved.
LEMMA ReduceULoop ==
  ASSUME LoopInv, ReduceU
  PROVE  LoopInv'
<1> DEFINE m == call.m
           C == Cap(call.m)
           a == call.a
           h == (u - v) \div 2
<1>1. /\ ext = 0 /\ FullT = t
      /\ t < m /\ u * s + v * t = m
      /\ u * s <= m /\ v * t < m
  BY NoOverflow DEF ReduceU, Counted
<1>2. /\ m \in InvModuli /\ m \in Nat /\ m > 1 /\ m % 2 = 1 /\ C \in Nat /\ C > m
      /\ a \in Nat
  BY Modulus, SMT DEF LoopInv, CallOK
<1>3. u \in Nat /\ v \in Nat /\ s \in Nat \ {0} /\ t \in Nat /\ pw \in Nat /\ u > 0
  BY DEF LoopInv, Typing
<1>4. /\ call' = call /\ u' = h /\ v' = v /\ ext' = ext /\ t' = Word(t + s) /\ s' = Word(2 * s)
      /\ pw' = 2 * pw /\ u % 2 # 0 /\ v % 2 # 0 /\ u > v /\ v # 0
  BY DEF ReduceU, Counted
<1>5. h \in Nat \ {0} /\ u = v + 2 * h
  <2>1. u - v \in Nat /\ (u - v) % 2 = 0
    BY <1>3, <1>4, OddDifference, SMT
  <2> QED BY <1>3, <1>4, <2>1, Half, SMT
<1> HIDE DEF h
<1>6. h * (2 * s) + v * (t + s) = m
  BY <1>1, <1>3, <1>5, SMT
<1>7. 2 * s <= m /\ t + s < m
  <2>1. h * (2 * s) >= 2 * s /\ v * (t + s) >= t + s
    BY <1>3, <1>4, <1>5, ProductBounds, 2 * s \in Nat, t + s \in Nat, v \in Nat \ {0}
  <2>2. h * (2 * s) \in Int /\ v * (t + s) \in Int
    BY <1>3, <1>5, SMT
  <2> QED BY <1>2, <1>3, <1>6, <2>1, <2>2, SMT
<1>8. t' = t + s /\ s' = 2 * s
  BY <1>2, <1>3, <1>4, <1>7, Fits, 2 * s \in Nat, 2 * s < C, t + s \in Nat, t + s < C
<1>9. FullT' = t + s
  BY <1>1, <1>4, <1>8 DEF FullT
<1>10. CallOK'
  BY <1>4 DEF LoopInv, CallOK
<1>11. Typing'
  <2>1. t + s < C /\ t + s \in Nat /\ 2 * s \in Nat \ {0} /\ 2 * pw \in Nat
    BY <1>2, <1>3, <1>7, SMT
  <2> QED BY <1>1, <1>2, <1>3, <1>4, <1>5, <1>7, <1>8, <2>1 DEF Typing
<1>12. Determinant'
  BY <1>4, <1>6, <1>8, <1>9 DEF Determinant
<1>13. PICK d \in Int : a * s - v * pw = d * m
  BY DEF LoopInv, RelationS
<1>14. RelationT'
  <2>1. PICK c \in Int : a * t + u * pw = c * m
    BY <1>1 DEF LoopInv, RelationT
  <2>2. a * (t + s) + h * (2 * pw) = (c + d) * m
    BY <1>2, <1>3, <1>5, <1>13, <2>1, SMT
  <2> QED BY <1>4, <1>9, <2>2, c + d \in Int DEF RelationT
<1>15. RelationS'
  <2>1. a * (2 * s) - v * (2 * pw) = (2 * d) * m
    BY <1>2, <1>3, <1>13, DoubledDifference, SMT
  <2> QED BY <1>4, <1>8, <2>1, 2 * d \in Int DEF RelationS
<1>16. NotTheModulus'
  BY <1>1, <1>2, <1>3, <1>4, <1>7, <1>8, <1>9, SMT DEF NotTheModulus
<1> QED BY <1>10, <1>11, <1>12, <1>14, <1>15, <1>16 DEF LoopInv

\* u is taken from v, which is halved; t may lose its carry to ext.
LEMMA ReduceVLoop ==
  ASSUME LoopInv, ReduceV
  PROVE  LoopInv'
<1> DEFINE m == call.m
           C == Cap(call.m)
           a == call.a
           h == (v - u) \div 2
<1>1. /\ ext = 0 /\ FullT = t
      /\ t < m /\ u * s + v * t = m
      /\ u * s <= m /\ v * t < m
  BY NoOverflow DEF ReduceV, Counted
<1>2. /\ m \in InvModuli /\ m \in Nat /\ m > 1 /\ m % 2 = 1 /\ C \in Nat /\ C > m
      /\ a \in Nat
  BY Modulus, SMT DEF LoopInv, CallOK
<1>3. u \in Nat /\ v \in Nat /\ s \in Nat \ {0} /\ t \in Nat /\ pw \in Nat /\ u > 0
  BY DEF LoopInv, Typing
<1>4. /\ call' = call /\ v' = h /\ u' = u /\ s' = Word(s + t) /\ t' = Word(2 * t)
      /\ ext' = ext + Carry(2 * t)
      /\ pw' = 2 * pw /\ u % 2 # 0 /\ v % 2 # 0 /\ u <= v /\ v # 0
  BY DEF ReduceV, Counted
<1>5. h \in Nat /\ v = u + 2 * h
  <2>1. v - u \in Nat /\ (v - u) % 2 = 0
    BY <1>3, <1>4, OddDifference, SMT
  <2> QED BY <1>3, <1>4, <2>1, Half, SMT
<1> HIDE DEF h
<1>6. u * (s + t) + h * (2 * t) = m
  BY <1>1, <1>3, <1>5, SMT
<1>7. s + t <= m /\ (h # 0 => 2 * t < m)
  <2>1. u * (s + t) >= s + t
    BY <1>3, ProductBounds, s + t \in Nat, u \in Nat \ {0}
  <2>2. h # 0 => h * (2 * t) >= 2 * t
    BY <1>3, <1>5, ProductBounds, 2 * t \in Nat
  <2>3. h * (2 * t) \in Nat /\ u * (s + t) \in Nat
    BY <1>3, <1>5, SMT
  <2> QED BY <1>2, <1>3, <1>5, <1>6, <2>1, <2>2, <2>3, SMT
<1>8. s' = s + t
  BY <1>2, <1>3, <1>4, <1>7, Fits, s + t \in Nat, s + t < C
<1>9. /\ t' \in Nat /\ t' < C /\ ext' \in {0, 1} /\ (h # 0 => ext' = 0)
      /\ FullT' = 2 * t
  <2>1. CASE 2 * t < C
    <3>1. t' = 2 * t /\ ext' = 0
      BY <1>1, <1>2, <1>3, <1>4, <2>1, Fits, 2 * t \in Nat, SMT
    <3> QED BY <1>3, <1>4, <2>1, <3>1, 2 * t \in Nat DEF FullT
  <2>2. CASE ~(2 * t < C)
    <3>1. 2 * t - C \in Nat /\ 2 * t - C < C /\ 2 * t = C * 1 + (2 * t - C)
      BY <1>1, <1>2, <1>3, <2>2, SMT
    <3>2. (2 * t) \div C = 1 /\ (2 * t) % C = 2 * t - C
      <4>1. C \in Nat \ {0} /\ 2 * t - C \in 0..(C - 1)
        BY <1>2, <3>1, SMT
      <4>2. (C * 1 + (2 * t - C)) \div C = 1 /\ (C * 1 + (2 * t - C)) % C = 2 * t - C
        BY <4>1, DivModOfSplit
      <4> QED BY <3>1, <4>2
    <3>3. t' = 2 * t - C /\ ext' = 1
      BY <1>1, <1>4, <3>2, SMT DEF Word, Carry
    <3>4. h = 0
      BY <1>2, <1>3, <1>5, <1>7, <2>2, SMT
    <3>5. 2 * t - C + C = 2 * t
      BY <1>2, <1>3, SMT
    <3> QED BY <1>4, <3>1, <3>3, <3>4, <3>5 DEF FullT
  <2> QED BY <2>1, <2>2
<1>10. CallOK'
  BY <1>4 DEF LoopInv, CallOK
<1>11. Typing'
  <2>1. s + t \in Nat \ {0} /\ 2 * pw \in Nat
    BY <1>3, SMT
  <2> QED BY <1>3, <1>4, <1>5, <1>7, <1>8, <1>9, <2>1 DEF Typing
<1>12. Determinant'
  BY <1>4, <1>6, <1>8, <1>9 DEF Determinant
<1>13. PICK c \in Int : a * t + u * pw = c * m
  BY <1>1 DEF LoopInv, RelationT
<1>14. RelationT'
  <2>1. a * (2 * t) + u * (2 * pw) = (2 * c) * m
    BY <1>2, <1>3, <1>13, Doubled, SMT
  <2> QED BY <1>4, <1>9, <2>1, 2 * c \in Int DEF RelationT
<1>15. RelationS'
  <2>1. PICK d \in Int : a * s - v * pw = d * m
    BY DEF LoopInv, RelationS
  <2>2. a * (s + t) - h * (2 * pw) = (c + d) * m
    BY <1>2, <1>3, <1>5, <1>13, <2>1, SMT
  <2> QED BY <1>4, <1>8, <2>2, c + d \in Int DEF RelationS
<1>16. NotTheModulus'
  <2>1. t # 0
    BY <1>1, <1>3, <1>4, SMT DEF LoopInv, NotTheModulus
  <2>2. (2 * t) % 2 = 0
    BY <1>3, SMT
  <2>3. ~(t' = 0 /\ ext' = 0)
    BY <1>3, <1>9, <2>1, SMT DEF FullT
  <2> QED BY <1>1, <1>2, <1>3, <1>4, <1>9, <2>2, <2>3, SMT DEF NotTheModulus
<1> QED BY <1>10, <1>11, <1>12, <1>14, <1>15, <1>16 DEF LoopInv

-----------------------------------------------------------------------------
\* What Test stores: m - T or 2m - T, and T is none of 0 and m.
LEMMA TestResult ==
  ASSUME LoopInv, Test, u = 1
  PROVE  \E e \in {0, 1} :
           /\ FullT - e * call.m \in 1..(call.m - 1)
           /\ r' = call.m - (FullT - e * call.m)
<1> DEFINE m == call.m
           C == Cap(call.m)
           borrow == IF t < m THEN 1 ELSE 0
           x == IF ext - borrow # 0 THEN t ELSE Word(t - m)
<1>1. /\ m \in InvModuli /\ m \in Nat /\ m > 1 /\ m % 2 = 1 /\ C \in Nat /\ C > m
  BY Modulus DEF LoopInv, CallOK
<1>2. t \in Nat /\ t < C /\ ext \in {0, 1} /\ v \in Nat /\ s \in Nat \ {0} /\ (v # 0 => ext = 0)
  BY DEF LoopInv, Typing
<1>3. r' = Word(m - x)
  BY DEF Test
<1>4. FullT \in Nat /\ FullT < 2 * m /\ FullT # 0 /\ FullT # m
  <2>1. FullT \in Nat /\ FullT < 2 * m
    BY <1>1, <1>2, SMT DEF FullT, LoopInv, NotTheModulus
  <2>2. FullT # 0
    BY <1>1, <1>2, SMT DEF FullT, LoopInv, NotTheModulus
  <2>3. CASE v = 0
    <3>1. FullT % 2 = 0
      BY <2>3 DEF LoopInv, NotTheModulus
    <3> QED BY <1>1, <2>1, <2>2, <3>1, SMT
  <2>4. CASE v # 0
    <3>1. FullT < m
      BY <2>4, NoOverflow
    <3> QED BY <1>1, <2>1, <2>2, <3>1, SMT
  <2> QED BY <2>3, <2>4
<1>5. \E e \in {0, 1} : x = FullT - e * m /\ FullT - e * m \in 1..(m - 1)
  <2>1. CASE ext = 1
    <3>1. FullT = t + C /\ t < m /\ borrow = 1
      BY <1>1, <1>2, <1>4, <2>1, SMT DEF FullT
    <3>2. x = Word(t - m)
      BY <2>1, <3>1, SMT
    <3>3. t - m + C \in 1..(m - 1) /\ t - m + C < C
      BY <1>1, <1>2, <1>4, <3>1, SMT
    <3>4. (t - m) % C = t - m + C
      BY <1>1, <1>2, <3>3, SMT
    <3>5. x = FullT - 1 * m /\ FullT - 1 * m \in 1..(m - 1)
      BY <1>1, <1>2, <3>1, <3>2, <3>3, <3>4, SMT DEF Word
    <3> QED BY <3>5
  <2>2. CASE ext = 0 /\ t < m
    <3>1. FullT = t /\ borrow = 1 /\ x = t
      BY <2>2, SMT DEF FullT
    <3>2. x = FullT - 0 * m /\ FullT - 0 * m \in 1..(m - 1)
      BY <1>1, <1>2, <1>4, <2>2, <3>1, SMT
    <3> QED BY <3>2
  <2>3. CASE ext = 0 /\ ~(t < m)
    <3>0. FullT = t /\ borrow = 0 /\ ext - 0 = 0
      BY <2>3, SMT DEF FullT
    <3>1. FullT = t /\ borrow = 0 /\ x = Word(t - m)
      BY <3>0
    <3>2. t - m \in Nat /\ t - m < C
      BY <1>1, <1>2, <2>3, SMT
    <3>3. x = t - m
      BY <1>1, <3>1, <3>2, Fits
    <3>4. x = FullT - 1 * m /\ FullT - 1 * m \in 1..(m - 1)
      BY <1>1, <1>2, <1>4, <2>3, <3>1, <3>3, SMT
    <3> QED BY <3>4
  <2> QED BY <1>2, <2>1, <2>2, <2>3
<1> HIDE DEF x
<1>6. PICK e \in {0, 1} : x = FullT - e * m /\ FullT - e * m \in 1..(m - 1)
  BY <1>5
<1>7. m - x \in Nat /\ m - x < C
  <2>1. x \in 1..(m - 1)
    BY <1>6
  <2> QED BY <1>1, <2>1, SMT
<1>8. r' = m - x
  BY <1>1, <1>3, <1>7, Fits
<1> QED BY <1>6, <1>8

\* The result of a loop that ended with u = 1 is an almost inverse.
LEMMA TestAlmostInverse ==
  ASSUME LoopInv, Test
  PROVE  AlmostInverse'
<1>1. SUFFICES ASSUME k' # 0 PROVE (call'.a * r') % call'.m = pw' % call'.m
                                   /\ r' \in 0..(call'.m - 1)
  BY DEF AlmostInverse
<1>2. u = 1 /\ call' = call /\ pw' = pw
  BY <1>1 DEF Test
<1> DEFINE m == call.m
           a == call.a
           T == FullT
<1>3. PICK e \in {0, 1} : T - e * m \in 1..(m - 1) /\ r' = m - (T - e * m)
  BY <1>2, TestResult
<1>4. m \in Nat \ {0} /\ a \in Nat
  BY Modulus, SMT DEF LoopInv, CallOK
<1>5. T \in Int /\ pw \in Nat
  BY Modulus DEF LoopInv, CallOK, Typing, FullT
<1>6. PICK c \in Int : a * T + u * pw = c * m
  BY DEF LoopInv, RelationT
<1>7. a * T = c * m - pw
  <2>1. u * pw = pw
    BY <1>2, <1>5, SMT
  <2>2. a * T \in Int /\ c * m \in Int
    BY <1>4, <1>5, SMT
  <2> QED BY <1>5, <1>6, <2>1, <2>2, SMT
<1> HIDE DEF T
<1>8. r' \in 0..(m - 1)
  <2> DEFINE y == T - e * m
  <2>1. y \in 1..(m - 1) /\ r' = m - y
    BY <1>3
  <2> HIDE DEF y
  <2> QED BY <1>4, <2>1, SMT
<1>9. a * r' = pw + (a - c + a * e) * m
  <2>1. a * (m - (T - e * m)) = a * m - a * T + (a * e) * m
    BY <1>4, <1>5, SMT
  <2>2. (a - c + a * e) * m = a * m - c * m + (a * e) * m
    BY <1>4, SMT
  <2>3. a * m \in Int /\ c * m \in Int /\ (a * e) * m \in Int
    BY <1>4, SMT
  <2> DEFINE am == a * m
             cm == c * m
             aem == (a * e) * m
             whole == (a - c + a * e) * m
  <2>4. a * r' = am - a * T + aem /\ whole = am - cm + aem /\ a * T = cm - pw
    BY <1>3, <1>7, <2>1, <2>2
  <2> HIDE DEF am, cm, aem, whole
  <2>5. am \in Int /\ cm \in Int /\ aem \in Int
    BY <2>3 DEF am, cm, aem
  <2>6. a * r' = pw + whole
    BY <1>5, <2>4, <2>5, SMT
  <2> QED BY <2>6 DEF whole
<1>10. (a * r') % m = pw % m
  <2>1. a * r' \in Nat /\ a - c + a * e \in Int
    BY <1>4, <1>8, SMT
  <2> QED BY <1>4, <1>5, <1>9, <2>1, SameRest
<1> QED BY <1>2, <1>8, <1>10

-----------------------------------------------------------------------------
\* The invariant holds at first.
LEMMA InitInv == InvInit => IInv
  BY DEF InvInit, IInv, AlmostInverse

\* Every step keeps it.
LEMMA StepInv == IInv /\ [InvNext]_invVars => IInv'
<1> SUFFICES ASSUME IInv, [InvNext]_invVars PROVE IInv'
  OBVIOUS
<1>1. ASSUME NEW fn \in {"gs_mont_inv", "gs_inv"}, NEW ct \in BOOLEAN, NEW m \in InvModuli,
             NEW a \in 0..(m - 1), Invert(fn, ct, m, a)
      PROVE  IInv'
  <2>1. task' = "loop" /\ LoopInv'
    BY <1>1, InvertLoop DEF Invert
  <2> QED BY <2>1 DEF IInv, AlmostInverse
<1>2. ASSUME HalveU \/ HalveV \/ ReduceU \/ ReduceV PROVE IInv'
  <2>1. task = "loop" /\ task' = "loop"
    BY <1>2 DEF HalveU, HalveV, ReduceU, ReduceV, Counted
  <2>2. LoopInv'
    BY <1>2, <2>1, HalveULoop, HalveVLoop, ReduceULoop, ReduceVLoop DEF IInv
  <2> QED BY <2>1, <2>2 DEF IInv, AlmostInverse
<1>3. CASE Rest
  <2>1. /\ task = "loop" /\ task' = "loop"
        /\ UNCHANGED <<call, u, v, s, t, ext, pw>>
    BY <1>3 DEF Rest
  <2>2. LoopInv'
    BY <2>1 DEF IInv, LoopInv, CallOK, Typing, Determinant, RelationT, RelationS,
                NotTheModulus, FullT
  <2> QED BY <2>1, <2>2 DEF IInv, AlmostInverse
<1>4. CASE Test
  <2>1. task = "loop" /\ task' = "scale"
    BY <1>4 DEF Test
  <2>2. AlmostInverse'
    BY <1>4, <2>1, TestAlmostInverse DEF IInv
  <2> QED BY <2>1, <2>2 DEF IInv
<1>5. CASE Scale
  BY <1>5 DEF Scale, IInv, AlmostInverse
<1>6. CASE Return
  BY <1>6 DEF Return, IInv, AlmostInverse
<1>7. CASE UNCHANGED invVars
  BY <1>7 DEF invVars, IInv, AlmostInverse, LoopInv, CallOK, Typing, Determinant, RelationT,
              RelationS, NotTheModulus, FullT
<1> QED BY <1>1, <1>2, <1>3, <1>4, <1>5, <1>6, <1>7 DEF InvNext

\* For every odd modulus, whatever the size of a chunk, alm_mont_inv and alm_mont_inv_ct
\* give (k,r) with a*r = 2^k mod m and r below m unless they answer 0: the only carry that
\* matters is the one they keep.
THEOREM AlmostInverseAlways == InvSpec => []AlmostInverse
<1>1. IInv => AlmostInverse
  BY DEF IInv
<1> QED BY InitInv, StepInv, <1>1, PTL DEF InvSpec

-----------------------------------------------------------------------------
(* From the almost inverse to the inverse: products by Montgomery.          *)

\* x and y are the same modulo m.
Same(x, y, m) == x % m = y % m

\* It is an equivalence.
LEMMA SameAs ==
  ASSUME NEW x, NEW y, NEW z, NEW m
  PROVE  /\ Same(x, x, m)
         /\ Same(x, y, m) => Same(y, x, m)
         /\ Same(x, y, m) /\ Same(y, z, m) => Same(x, z, m)
BY Zenon DEF Same

\* Equal rests stay equal when both numbers are multiplied.
LEMMA SameProduct ==
  ASSUME NEW m \in Nat \ {0}, NEW x \in Nat, NEW y \in Nat, NEW z \in Nat, Same(x, y, m)
  PROVE  Same(x * z, y * z, m)
<1>0. /\ x % m \in 0..(m - 1) /\ x \div m \in Nat /\ x = m * (x \div m) + (x % m)
      /\ y % m \in 0..(m - 1) /\ y \div m \in Nat /\ y = m * (y \div m) + (y % m)
      /\ x % m = y % m
  BY DivMod DEF Same
<1> DEFINE p == x \div m
           q == y \div m
           e == x % m
<1>1. /\ p \in Nat /\ e \in Nat /\ x = m * p + e
      /\ q \in Nat /\ y = m * q + e
  BY <1>0
<1> HIDE DEF p, q, e
<1>2. (p - q) * z \in Int /\ x * z \in Nat /\ y * z \in Nat
  BY <1>1, SMT
<1>3. (m * p + e) * z = (m * q + e) * z + ((p - q) * z) * m
  BY <1>1, SMT
<1>4. x * z = y * z + ((p - q) * z) * m
  BY <1>1, <1>3
<1> QED BY <1>2, <1>4, SameRest DEF Same

\* The rest of a number has the same rest.
LEMMA RestOfRest ==
  ASSUME NEW m \in Nat \ {0}, NEW x \in Nat
  PROVE  x % m \in 0..(m - 1) /\ x % m \in Nat /\ Same(x % m, x, m)
<1>1. /\ x % m \in 0..(m - 1) /\ x \div m \in Nat /\ x = m * (x \div m) + (x % m)
  BY DivMod
<1>2. x % m \in Nat
  BY <1>1
<1>3. x = (x % m) + (x \div m) * m
  BY <1>1, SMT
<1> DEFINE r0 == x % m
           q == x \div m
<1>4. r0 \in Nat /\ q \in Int /\ x = r0 + q * m
  BY <1>1, <1>2, <1>3
<1> HIDE DEF r0, q
<1>5. x % m = r0 % m
  BY <1>4, SameRest
<1> QED BY <1>1, <1>2, <1>5 DEF r0, Same

\* A rest of one.
LEMMA OneRest ==
  ASSUME NEW m \in Nat, m > 1
  PROVE  \A x : Same(x, 1, m) <=> x % m = 1
<1>1. 1 % m = 1
  BY SMT
<1> QED BY <1>1 DEF Same

\* Every power of two has an inverse modulo an odd number.
LEMMA PowerInverse ==
  ASSUME NEW m \in Nat, m > 1, m % 2 = 1, NEW n \in Nat
  PROVE  \E x \in 0..(m - 1) : Same(x * Power2[n], 1, m)
<1> DEFINE S == {p \in Nat : \E x \in 0..(m - 1) : Same(x * Power2[p], 1, m)}
<1>0. m \in Nat \ {0}
  OBVIOUS
<1>1. 0 \in S
  <2>1. 1 \in 0..(m - 1) /\ 1 * Power2[0] = 1
    BY PowerSteps
  <2>2. Same(1 * Power2[0], 1, m)
    BY <2>1, SameAs
  <2> QED BY <2>1, <2>2
<1>2. ASSUME NEW p \in Nat, p \in S
      PROVE  p + 1 \in S
  <2>1. PICK x \in 0..(m - 1) : Same(x * Power2[p], 1, m)
    BY <1>2
  <2> DEFINE P == Power2[p]
             h == (m + 1) \div 2
             y == (x * h) % m
  <2>2. P \in Nat /\ x \in Nat
    BY PowerTyped
  <2>3. h \in Nat /\ 2 * h = m + 1
    BY SMT
  <2>4. Same(x * P, 1, m)
    BY <2>1
  <2>5. Power2[p + 1] = 2 * P
    BY PowerSteps
  <2> HIDE DEF P, h
  <2>6. x * h \in Nat /\ 2 * P \in Nat /\ x * P \in Nat /\ (x * h) * (2 * P) \in Nat
    BY <2>2, <2>3, SMT
  <2>7. y \in 0..(m - 1) /\ y \in Nat /\ Same(y, x * h, m)
    BY <1>0, <2>6, RestOfRest
  <2> HIDE DEF y
  <2>8. Same(y * (2 * P), (x * h) * (2 * P), m)
    BY <1>0, <2>6, <2>7, SameProduct
  <2>9. (x * h) * (2 * P) = (x * P) * (2 * h)
    BY <2>2, <2>3, SMT
  <2>10. (x * P) * (2 * h) = (x * P) + (x * P) * m
    BY <2>3, <2>6, SMT
  <2> DEFINE a == (x * h) * (2 * P)
             b == x * P
  <2>11. a \in Nat /\ b \in Nat /\ b \in Int /\ a = b + b * m /\ Same(y * (2 * P), a, m) /\ Same(b, 1, m)
    BY <2>4, <2>6, <2>8, <2>9, <2>10
  <2> HIDE DEF a, b
  <2>12. Same(a, b, m)
    BY <1>0, <2>11, SameRest DEF Same
  <2>13. Same(y * Power2[p + 1], 1, m)
    BY <2>5, <2>11, <2>12, SameAs
  <2> QED BY <2>7, <2>13
<1> HIDE DEF S
<1>3. n \in S
  BY <1>1, <1>2, Induction
<1> QED BY <1>3 DEF S

\* RadixInverse is the inverse of the radix.
LEMMA RadixInverted ==
  ASSUME NEW m \in Nat, m > 1, m % 2 = 1
  PROVE  RadixInverse(m) \in 0..(m - 1) /\ Same(RadixInverse(m) * Cap(m), 1, m)
<1>1. LenBits(m) \in Nat
  BY ChunksHold
<1>2. \E x \in 0..(m - 1) : (x * Cap(m)) % m = 1
  BY <1>1, PowerInverse, OneRest DEF Cap
<1>3. RadixInverse(m) \in 0..(m - 1) /\ (RadixInverse(m) * Cap(m)) % m = 1
  BY <1>2, Zenon DEF RadixInverse
<1> QED BY <1>3, OneRest

\* A number times the radix and its inverse.
LEMMA RadixUndone ==
  ASSUME NEW m \in Nat, m > 1, m % 2 = 1, NEW z \in Nat, NEW R, R = RadixInverse(m), NEW C, C = Cap(m)
  PROVE  R \in Nat /\ C \in Nat /\ Same((R * C) * z, z, m)
<1>1. R \in Nat /\ C \in Nat /\ Same(R * C, 1, m) /\ m \in Nat \ {0}
  BY RadixInverted, ChunksHold
<1>2. R * C \in Nat /\ 1 * z = z
  BY <1>1, SMT
<1>3. Same((R * C) * z, 1 * z, m)
  BY <1>1, <1>2, SameProduct
<1> QED BY <1>1, <1>2, <1>3

\* Montgomery's product times the radix is the product.
LEMMA MontgomeryProduct ==
  ASSUME NEW m \in Nat, m > 1, m % 2 = 1, NEW x \in Nat, NEW y \in Nat
  PROVE  /\ mon_mul(x, y, m) \in 0..(m - 1)
         /\ Same(mon_mul(x, y, m) * Cap(m), x * y, m)
<1> DEFINE R == RadixInverse(m)
           C == Cap(m)
           xy == x * y
           w == xy % m
           z == (w * R) % m
<1>1. R \in Nat /\ C \in Nat /\ m \in Nat \ {0}
  BY RadixInverted, ChunksHold
<1>2. mon_mul(x, y, m) = z
  BY DEF mon_mul
<1>3. xy \in Nat
  BY SMT
<1>4. \A n \in Nat : Same((R * C) * n, n, m)
  BY RadixUndone
<1> HIDE DEF R, C, xy
<1>5. w \in Nat /\ Same(w, xy, m)
  BY <1>1, <1>3, RestOfRest
<1> HIDE DEF w
<1>6. w * R \in Nat /\ R * C \in Nat
  BY <1>1, <1>5, SMT
<1>7. z \in 0..(m - 1) /\ z \in Nat /\ Same(z, w * R, m)
  BY <1>1, <1>6, RestOfRest
<1> HIDE DEF z
<1>8. Same(z * C, (w * R) * C, m)
  BY <1>1, <1>6, <1>7, SameProduct
<1>9. (w * R) * C = (R * C) * w
  BY <1>1, <1>5, SMT
<1>10. Same((R * C) * w, w, m)
  BY <1>4, <1>5
<1>11. Same(z * C, xy, m)
  BY <1>5, <1>8, <1>9, <1>10, SameAs
<1> QED BY <1>2, <1>7, <1>11 DEF C, xy

\* The radix can be cancelled.
LEMMA RadixCancelled ==
  ASSUME NEW m \in Nat, m > 1, m % 2 = 1, NEW x \in Nat, NEW y \in Nat,
         Same(x * Cap(m), y * Cap(m), m)
  PROVE  Same(x, y, m)
<1> DEFINE R == RadixInverse(m)
           C == Cap(m)
<1>1. R \in Nat /\ C \in Nat /\ m \in Nat \ {0}
  BY RadixInverted, ChunksHold
<1>2. Same(x * C, y * C, m)
  OBVIOUS
<1>3. Same((R * C) * x, x, m) /\ Same((R * C) * y, y, m)
  BY RadixUndone
<1> HIDE DEF R, C
<1>4. x * C \in Nat /\ y * C \in Nat
  BY <1>1, SMT
<1>5. Same((x * C) * R, (y * C) * R, m)
  BY <1>1, <1>2, <1>4, SameProduct
<1>6. (x * C) * R = (R * C) * x /\ (y * C) * R = (R * C) * y
  BY <1>1, SMT
<1> QED BY <1>3, <1>5, <1>6, SameAs

\* Of a number that is 2^i/a, the Montgomery product with 2^j is 2^(i+j)/a over the radix.
LEMMA MontgomeryStep ==
  ASSUME NEW m \in Nat, m > 1, m % 2 = 1, NEW a \in Nat, NEW x \in Nat,
         NEW i \in Nat, NEW j \in Nat, NEW n \in Nat, i + j = n + LenBits(m),
         Same(a * x, Power2[i], m),
         NEW f \in Nat, Same(f, Power2[j], m)
  PROVE  /\ mon_mul(x, f, m) \in 0..(m - 1)
         /\ Same(a * mon_mul(x, f, m), Power2[n], m)
<1> DEFINE y == mon_mul(x, f, m)
           C == Cap(m)
           I == Power2[i]
           J == Power2[j]
           N == Power2[n]
<1>1. y \in 0..(m - 1) /\ Same(y * C, x * f, m)
  BY MontgomeryProduct
<1>2. y \in Nat /\ C \in Nat /\ I \in Nat /\ J \in Nat /\ N \in Nat /\ m \in Nat \ {0}
  BY <1>1, ChunksHold, PowerTyped
<1>3. I * J = N * C
  <2>1. LenBits(m) \in Nat
    BY ChunksHold
  <2>2. Power2[i + j] = I * J
    BY PowerSum
  <2>3. Power2[n + LenBits(m)] = N * C
    BY <2>1, PowerSum DEF Cap
  <2> QED BY <2>2, <2>3
<1>4. Same(a * x, I, m) /\ Same(f, J, m)
  OBVIOUS
<1> HIDE DEF y, C, I, J, N
<1>5. /\ y * C \in Nat /\ x * f \in Nat /\ a * x \in Nat /\ a * y \in Nat
  BY <1>2, SMT
<1>6. Same((y * C) * a, (x * f) * a, m)
  BY <1>1, <1>2, <1>5, SameProduct
<1>7. Same((a * x) * f, I * f, m)
  BY <1>2, <1>4, <1>5, SameProduct
<1>8. Same(f * I, J * I, m)
  BY <1>2, <1>4, SameProduct
<1>9. /\ (y * C) * a = (a * y) * C /\ (x * f) * a = (a * x) * f
      /\ f * I = I * f /\ J * I = I * J
  BY <1>2, SMT
<1>10. Same((a * y) * C, N * C, m)
  BY <1>3, <1>6, <1>7, <1>8, <1>9, SameAs
<1>11. Same(a * y, N, m)
  BY <1>2, <1>5, <1>10, RadixCancelled DEF C
<1> QED BY <1>1, <1>11 DEF y, N

\* gs_mont_inv and gs_inv turn an almost inverse into the inverse they are for.
LEMMA ScaledInverse ==
  ASSUME NEW m \in Nat, m > 1, m % 2 = 1, NEW a \in Nat, NEW x \in Nat,
         NEW kk \in Nat, kk <= 2 * LenBits(m), Same(a * x, Power2[kk], m)
  PROVE  /\ gs_mont_inv(x, kk, m) \in 0..(m - 1)
         /\ Same(a * gs_mont_inv(x, kk, m), Cap(m), m)
         /\ gs_inv(x, kk, m) \in 0..(m - 1)
         /\ Same(a * gs_inv(x, kk, m), 1, m)
<1> DEFINE L == LenBits(m)
<1>1. L \in Nat /\ Cap(m) = Power2[L] /\ Cap(m) \in Nat /\ 2 * L \in Nat
  BY ChunksHold DEF Cap
<1>2. Power2[0] = 1 /\ Same(1, Power2[0], m)
  BY PowerSteps, SameAs
<1>3. R2(m) \in Nat /\ Same(R2(m), Power2[2 * L], m)
  <2>1. Power2[2 * L] = Cap(m) * Cap(m)
    <3>1. 2 * L = L + L /\ L \in Nat
      BY <1>1
    <3>2. Power2[L + L] = Power2[L] * Power2[L]
      BY <3>1, PowerSum
    <3> QED BY <1>1, <3>1, <3>2
  <2>2. Cap(m) * Cap(m) \in Nat /\ m \in Nat \ {0}
    BY <1>1, SMT
  <2>3. R2(m) = (Cap(m) * Cap(m)) % m
    BY DEF R2
  <2> DEFINE cc == Cap(m) * Cap(m)
  <2>4. cc \in Nat /\ R2(m) = cc % m /\ Power2[2 * L] = cc
    BY <2>1, <2>2, <2>3
  <2> HIDE DEF cc
  <2> QED BY <2>2, <2>4, RestOfRest
<1> HIDE DEF L
<1>4. ASSUME NEW y \in Nat, NEW f \in Nat, NEW i \in Nat, NEW j \in Nat, NEW n \in Nat,
             i + j = n + L, Same(a * y, Power2[i], m), Same(f, Power2[j], m)
      PROVE  /\ mon_mul(y, f, m) \in 0..(m - 1) /\ mon_mul(y, f, m) \in Nat
             /\ Same(a * mon_mul(y, f, m), Power2[n], m)
  <2>1. i + j = n + LenBits(m)
    BY <1>4 DEF L
  <2>2. /\ mon_mul(y, f, m) \in 0..(m - 1)
        /\ Same(a * mon_mul(y, f, m), Power2[n], m)
    BY <1>4, <2>1, MontgomeryStep
  <2> QED BY <2>2
<1>5. ASSUME NEW y \in Nat, NEW i \in Nat, NEW j \in Nat, NEW n \in Nat,
             i + j = n + L, Same(a * y, Power2[i], m)
      PROVE  /\ mon_mul(y, Power2[j], m) \in 0..(m - 1)
             /\ Same(a * mon_mul(y, Power2[j], m), Power2[n], m)
  <2>1. Power2[j] \in Nat /\ Same(Power2[j], Power2[j], m)
    BY PowerTyped, SameAs
  <2> QED BY <1>4, <1>5, <2>1
<1>6. kk <= 2 * L
  BY DEF L
<1>7. /\ gs_mont_inv(x, kk, m) \in 0..(m - 1)
      /\ Same(a * gs_mont_inv(x, kk, m), Power2[L], m)
  <2>1. CASE kk <= L
    <3> DEFINE y == mon_mul(x, R2(m), m)
               k1 == kk + L
               j == 2 * L - k1
    <3>1. k1 \in Nat /\ kk + 2 * L = k1 + L /\ j \in Nat /\ k1 + j = L + L
      BY <1>1, <2>1
    <3>2. gs_mont_inv(x, kk, m) = mon_mul(y, Power2[j], m)
      BY <2>1 DEF gs_mont_inv, L
    <3> HIDE DEF k1, j
    <3> HIDE DEF y
    <3>3. y \in Nat /\ Same(a * y, Power2[k1], m)
      <4>1. 2 * L \in Nat /\ kk + 2 * L = k1 + L /\ k1 \in Nat /\ Same(a * x, Power2[kk], m)
        BY <1>1, <3>1
      <4>2. /\ mon_mul(x, R2(m), m) \in Nat
            /\ Same(a * mon_mul(x, R2(m), m), Power2[k1], m)
        BY <1>3, <1>4, <4>1
      <4> QED BY <4>2 DEF y
    <3> QED BY <1>1, <1>5, <3>1, <3>2, <3>3
  <2>2. CASE ~(kk <= L)
    <3> DEFINE j == 2 * L - kk
    <3>1. j \in Nat /\ kk + j = L + L
      BY <1>1, <1>6
    <3>2. gs_mont_inv(x, kk, m) = mon_mul(x, Power2[j], m)
      BY <2>2 DEF gs_mont_inv, L
    <3> HIDE DEF j
    <3> QED BY <1>1, <1>5, <3>1, <3>2
  <2> QED BY <2>1, <2>2
<1>8. /\ gs_inv(x, kk, m) \in 0..(m - 1)
      /\ Same(a * gs_inv(x, kk, m), Power2[0], m)
  <2>1. CASE kk > L
    <3> DEFINE y == mon_mul(x, 1, m)
               n == kk - L
               j == L - n
    <3>1. n \in Nat /\ kk + 0 = n + L /\ j \in Nat /\ n + j = 0 + L
      BY <1>1, <1>6, <2>1
    <3>2. gs_inv(x, kk, m) = mon_mul(y, Power2[j], m)
      BY <2>1 DEF gs_inv, L
    <3> HIDE DEF n, j
    <3> HIDE DEF y
    <3>3. y \in Nat /\ Same(a * y, Power2[n], m)
      <4>1. 0 \in Nat /\ 1 \in Nat /\ kk + 0 = n + L /\ n \in Nat /\ Same(a * x, Power2[kk], m)
        BY <3>1
      <4>2. /\ mon_mul(x, 1, m) \in Nat
            /\ Same(a * mon_mul(x, 1, m), Power2[n], m)
        BY <1>2, <1>4, <4>1
      <4> QED BY <4>2 DEF y
    <3> QED BY <1>1, <1>5, <3>1, <3>2, <3>3
  <2>2. CASE ~(kk > L)
    <3> DEFINE j == L - kk
    <3>1. j \in Nat /\ kk + j = 0 + L
      BY <1>1, <2>2
    <3>2. gs_inv(x, kk, m) = mon_mul(x, Power2[j], m)
      BY <2>2 DEF gs_inv, L
    <3> HIDE DEF j
    <3> QED BY <1>1, <1>5, <3>1, <3>2
  <2> QED BY <2>1, <2>2
<1> QED BY <1>1, <1>2, <1>7, <1>8

-----------------------------------------------------------------------------
(* The loop finds an inverse whenever there is one.                        *)

\* Twice the bits of the modulus: more iterations than can do anything.
Enough == 2 * MOD_BITSIZE(call.m)

\* u and v make up the number that is inverted, as they do the modulus: what divides
\* both divides it.
MakesUp == \E x, y \in Nat : call.a = u * x + v * y

\* Every iteration halves the product of u and v at least.
Shrinks == v # 0 => pw * (u * v) <= call.m * call.a

\* k and the loop counter run together until v is zero.
Counts ==
  /\ k \in Nat /\ pw = Power2[k] /\ k <= Enough
  /\ k = 0 => u = call.m
  /\ iter \in Nat
  /\ call.ct => iter <= Enough /\ (v # 0 => k = iter)

\* The function called is one of the two.
Asked == call.fn \in {"gs_mont_inv", "gs_inv"}

Progress == Asked /\ MakesUp /\ Shrinks /\ Counts

\* What the two functions that scale the result find: no inverse, or an almost inverse
\* that their products can scale.
Scalable ==
  /\ CallOK /\ Asked
  /\ k \in Nat /\ k <= 2 * LenBits(call.m) /\ (k # 0 => pw = Power2[k])
  /\ k = 0 => \A x \in 0..(call.m - 1) : (call.a * x) % call.m # 1

InverseInv ==
  /\ IInv
  /\ task = "loop" => Progress
  /\ task = "scale" => Scalable
  /\ Inverted

\* What halves the product of u and v lets it shrink.
LEMMA Shrunk ==
  ASSUME NEW p \in Nat, NEW x \in Nat, NEW y \in Nat, NEW x1 \in Nat, NEW y1 \in Nat, NEW c \in Nat,
         p * (x * y) <= c, 2 * (x1 * y1) <= x * y
  PROVE  (2 * p) * (x1 * y1) <= c
<1> DEFINE d == x * y
           e == x1 * y1
           f == d - 2 * e
<1>1. d \in Nat /\ e \in Nat /\ p * d <= c /\ 2 * e <= d
  BY SMT
<1> HIDE DEF d, e
<1>2. f \in Nat /\ d = 2 * e + f
  BY <1>1
<1> HIDE DEF f
<1>3. p * (2 * e + f) = (2 * p) * e + p * f /\ p * f \in Nat /\ (2 * p) * e \in Nat
  BY <1>1, <1>2, SMT
<1>4. (2 * p) * e <= c
  BY <1>1, <1>2, <1>3
<1> QED BY <1>4 DEF e

\* The product of a number with one below it has less than twice its bits.
LEMMA SquareBits ==
  ASSUME NEW m \in Nat, NEW a \in Nat, a < m
  PROVE  m * a \in Nat /\ m * a < Power2[2 * MOD_BITSIZE(m)]
<1> DEFINE B == MOD_BITSIZE(m)
           P == Power2[B]
<1>1. B \in Nat /\ m < P /\ P \in Nat
  BY BitSize, PowerTyped
<1>2. Power2[2 * B] = P * P
  <2>1. 2 * B = B + B
    BY <1>1
  <2> QED BY <1>1, <2>1, PowerSum
<1> HIDE DEF B, P
<1> DEFINE d == P - m
           e == P - a
<1>3. d \in Nat \ {0} /\ e \in Nat \ {0} /\ P = m + d /\ P = a + e
  BY <1>1
<1> HIDE DEF d, e
<1>4. P * P = (m + d) * (a + e)
  BY <1>3
<1>5. (m + d) * (a + e) = m * a + (m * e + d * a + d * e)
  BY <1>3, SMT
<1>6. m * e \in Nat /\ d * a \in Nat /\ d * e \in Nat /\ m * a \in Nat /\ d * e >= e
  BY <1>3, ProductBounds, SMT
<1>7. m * a < P * P
  BY <1>3, <1>4, <1>5, <1>6
<1> QED BY <1>2, <1>6, <1>7 DEF B

\* While v is positive there are iterations left.
LEMMA IterationsLeft ==
  ASSUME LoopInv, Progress, v # 0
  PROVE  k < Enough
<1>1. call.m \in InvModuli /\ call.m \in Nat /\ call.a \in Nat /\ call.a < call.m
  BY Modulus DEF LoopInv, CallOK
<1>2. call.m * call.a \in Nat /\ call.m * call.a < Power2[Enough]
  BY <1>1, SquareBits DEF Enough
<1>3. u \in Nat \ {0} /\ v \in Nat \ {0} /\ pw \in Nat
  BY DEF LoopInv, Typing
<1>4. pw * (u * v) <= call.m * call.a
  BY DEF Progress, Shrinks
<1>5. pw * (u * v) >= pw /\ pw * (u * v) \in Nat
  <2>1. u * v \in Nat /\ u * v >= v
    BY <1>3, ProductBounds, SMT
  <2> DEFINE w == u * v
  <2>2. w \in Nat \ {0} /\ w = u * v
    BY <1>3, <2>1
  <2> HIDE DEF w
  <2>3. w * pw >= pw /\ w * pw = pw * w /\ pw * w \in Nat
    BY <1>3, <2>2, ProductBounds, SMT
  <2> QED BY <2>2, <2>3
<1>6. Power2[k] < Power2[Enough]
  <2>1. pw < Power2[Enough] /\ pw = Power2[k]
    <3> DEFINE w == pw * (u * v)
               c == call.m * call.a
    <3>1. w \in Nat /\ w >= pw /\ w <= c /\ c \in Nat /\ c < Power2[Enough]
      BY <1>2, <1>4, <1>5
    <3>2. Power2[Enough] \in Nat
      <4>1. Enough \in Nat
        BY <1>1, BitSize DEF Enough
      <4> QED BY <4>1, PowerTyped
    <3> HIDE DEF w, c
    <3> QED BY <1>3, <3>1, <3>2 DEF Progress, Counts
  <2> QED BY <2>1
<1>7. Enough \in Nat /\ k \in Nat
  BY <1>1, BitSize DEF Enough, Progress, Counts
<1> QED BY <1>6, <1>7, PowerOrder

\* The invariant at the beginning of a call.
LEMMA InvertProgress ==
  ASSUME NEW fn \in {"gs_mont_inv", "gs_inv"}, NEW ct, NEW m \in InvModuli, NEW a \in 0..(m - 1), Invert(fn, ct, m, a)
  PROVE  Progress'
<1>1. /\ call' = [fn |-> fn, ct |-> ct, m |-> m, a |-> a] /\ call'.m = m /\ call'.a = a
      /\ u' = m /\ v' = a /\ k' = 0 /\ iter' = 0 /\ pw' = 1
  BY DEF Invert
<1>2. m \in Nat /\ a \in Nat /\ m > 1
  BY Modulus
<1>3. MakesUp'
  <2>1. a = m * 0 + a * 1
    BY <1>2, SMT
  <2>2. \E x, y \in Nat : a = m * x + a * y
    BY <2>1
  <2> QED BY <1>1, <2>2 DEF MakesUp
<1>4. Shrinks'
  <2>1. 1 * (m * a) <= m * a
    BY <1>2, SMT
  <2> QED BY <1>1, <2>1 DEF Shrinks
<1>5. Enough' \in Nat
  <2>1. MOD_BITSIZE(m) \in Nat
    BY <1>2, BitSize
  <2> QED BY <1>1, <2>1 DEF Enough
<1>6. Counts'
  BY <1>1, <1>5, PowerSteps DEF Counts
<1>7. Asked'
  BY <1>1 DEF Asked
<1> QED BY <1>3, <1>4, <1>6, <1>7 DEF Progress

\* What an iteration does to the counters.
LEMMA CountedProgress ==
  ASSUME LoopInv, Progress, Counted
  PROVE  Counts' /\ k \in Nat /\ Enough' = Enough
<1>1. /\ k' = k + 1 /\ pw' = 2 * pw /\ iter' = iter + 1 /\ call' = call /\ v # 0
      /\ call.ct => iter < Enough
  BY DEF Counted, Continues, Enough
<1>2. k < Enough
  BY <1>1, IterationsLeft
<1>3. Enough \in Nat /\ Enough' = Enough
  <2>1. call.m \in Nat /\ call.m > 0
    BY Modulus DEF LoopInv, CallOK
  <2> QED BY <1>1, <2>1, BitSize DEF Enough
<1>4. /\ k \in Nat /\ pw = Power2[k] /\ iter \in Nat
      /\ call.ct => k = iter
  BY <1>1 DEF Progress, Counts
<1>5. Power2[k + 1] = 2 * pw
  BY <1>4, PowerSteps
<1> QED BY <1>1, <1>2, <1>3, <1>4, <1>5 DEF Counts

\* Halving u counts, and keeps what is made of u and v.
LEMMA HalveUProgress ==
  ASSUME LoopInv, Progress, HalveU
  PROVE  Progress'
<1> DEFINE h == u \div 2
<1>1. /\ call' = call /\ u' = h /\ v' = v /\ pw' = 2 * pw /\ v # 0 /\ u % 2 = 0
  BY DEF HalveU, Counted
<1>2. u \in Nat /\ v \in Nat /\ pw \in Nat /\ u > 0
  BY DEF LoopInv, Typing
<1>3. h \in Nat /\ u = 2 * h
  BY <1>1, <1>2, Half
<1> HIDE DEF h
<1>4. Counts'
  BY <1>1, <1>2, <1>3, CountedProgress DEF HalveU
<1>5. MakesUp'
  <2>1. PICK x, y \in Nat : call.a = u * x + v * y
    BY DEF Progress, MakesUp
  <2>2. u * x = h * (2 * x)
    BY <1>3, SMT
  <2>3. call.a = h * (2 * x) + v * y /\ 2 * x \in Nat
    BY <2>1, <2>2
  <2> QED BY <1>1, <2>3 DEF MakesUp
<1>6. Shrinks'
  <2>1. 2 * (h * v) <= u * v
    BY <1>2, <1>3, SMT
  <2>2. call.m * call.a \in Nat /\ pw * (u * v) <= call.m * call.a
    BY <1>1, SquareBits, Modulus DEF LoopInv, CallOK, Progress, Shrinks
  <2>3. (2 * pw) * (h * v) <= call.m * call.a
    BY <1>2, <1>3, <2>1, <2>2, Shrunk
  <2> QED BY <1>1, <2>3 DEF Shrinks
<1> QED BY <1>1, <1>4, <1>5, <1>6 DEF Progress, Asked

\* So does halving v.
LEMMA HalveVProgress ==
  ASSUME LoopInv, Progress, HalveV
  PROVE  Progress'
<1> DEFINE h == v \div 2
<1>1. /\ call' = call /\ u' = u /\ v' = h /\ pw' = 2 * pw /\ v # 0 /\ v % 2 = 0
  BY DEF HalveV, Counted
<1>2. u \in Nat /\ v \in Nat /\ pw \in Nat
  BY DEF LoopInv, Typing
<1>3. h \in Nat /\ v = 2 * h
  BY <1>1, <1>2, Half
<1> HIDE DEF h
<1>4. Counts'
  BY <1>1, <1>2, <1>3, CountedProgress DEF HalveV
<1>5. MakesUp'
  <2>1. PICK x, y \in Nat : call.a = u * x + v * y
    BY DEF Progress, MakesUp
  <2>2. v * y = h * (2 * y)
    BY <1>3, SMT
  <2>3. call.a = u * x + h * (2 * y) /\ 2 * y \in Nat
    BY <2>1, <2>2
  <2> QED BY <1>1, <2>3 DEF MakesUp
<1>6. Shrinks'
  <2>1. 2 * (u * h) <= u * v
    BY <1>2, <1>3, SMT
  <2>2. call.m * call.a \in Nat /\ pw * (u * v) <= call.m * call.a
    BY <1>1, SquareBits, Modulus DEF LoopInv, CallOK, Progress, Shrinks
  <2>3. (2 * pw) * (u * h) <= call.m * call.a
    BY <1>2, <1>3, <2>1, <2>2, Shrunk
  <2> QED BY <1>1, <2>3 DEF Shrinks
<1> QED BY <1>1, <1>4, <1>5, <1>6 DEF Progress, Asked

\* So does taking v from u.
LEMMA ReduceUProgress ==
  ASSUME LoopInv, Progress, ReduceU
  PROVE  Progress'
<1> DEFINE h == (u - v) \div 2
<1>1. /\ call' = call /\ u' = h /\ v' = v /\ pw' = 2 * pw /\ v # 0
      /\ u % 2 # 0 /\ v % 2 # 0 /\ u > v
  BY DEF ReduceU, Counted
<1>2. u \in Nat /\ v \in Nat /\ pw \in Nat
  BY DEF LoopInv, Typing
<1>3. h \in Nat /\ u = 2 * h + v
  BY <1>1, <1>2, Half, OddDifference
<1> HIDE DEF h
<1>4. Counts'
  BY <1>1, <1>2, <1>3, CountedProgress DEF ReduceU
<1>5. MakesUp'
  <2>1. PICK x, y \in Nat : call.a = u * x + v * y
    BY DEF Progress, MakesUp
  <2>2. (2 * h + v) * x + v * y = h * (2 * x) + v * (x + y)
    BY <1>2, <1>3, SMT
  <2>3. call.a = h * (2 * x) + v * (x + y) /\ 2 * x \in Nat /\ x + y \in Nat
    BY <1>3, <2>1, <2>2
  <2> QED BY <1>1, <2>3 DEF MakesUp
<1>6. Shrinks'
  <2>1. 2 * (h * v) <= u * v
    <3>1. (2 * h + v) * v = 2 * (h * v) + v * v /\ v * v \in Nat /\ h * v \in Nat
      BY <1>2, <1>3, SMT
    <3> QED BY <1>3, <3>1
  <2>2. call.m * call.a \in Nat /\ pw * (u * v) <= call.m * call.a
    BY <1>1, SquareBits, Modulus DEF LoopInv, CallOK, Progress, Shrinks
  <2>3. (2 * pw) * (h * v) <= call.m * call.a
    BY <1>2, <1>3, <2>1, <2>2, Shrunk
  <2> QED BY <1>1, <2>3 DEF Shrinks
<1> QED BY <1>1, <1>4, <1>5, <1>6 DEF Progress, Asked

\* So does taking u from v.
LEMMA ReduceVProgress ==
  ASSUME LoopInv, Progress, ReduceV
  PROVE  Progress'
<1> DEFINE h == (v - u) \div 2
<1>1. /\ call' = call /\ u' = u /\ v' = h /\ pw' = 2 * pw /\ v # 0
      /\ u % 2 # 0 /\ v % 2 # 0 /\ u <= v
  BY DEF ReduceV, Counted
<1>2. u \in Nat /\ v \in Nat /\ pw \in Nat
  BY DEF LoopInv, Typing
<1>3. h \in Nat /\ v = 2 * h + u
  BY <1>1, <1>2, Half, OddDifference
<1> HIDE DEF h
<1>4. Counts'
  BY <1>1, <1>2, <1>3, CountedProgress DEF ReduceV
<1>5. MakesUp'
  <2>1. PICK x, y \in Nat : call.a = u * x + v * y
    BY DEF Progress, MakesUp
  <2>2. u * x + (2 * h + u) * y = u * (x + y) + h * (2 * y)
    BY <1>2, <1>3, SMT
  <2>3. call.a = u * (x + y) + h * (2 * y) /\ 2 * y \in Nat /\ x + y \in Nat
    BY <1>3, <2>1, <2>2
  <2> QED BY <1>1, <2>3 DEF MakesUp
<1>6. Shrinks'
  <2>1. 2 * (u * h) <= u * v
    <3>1. u * (2 * h + u) = 2 * (u * h) + u * u /\ u * u \in Nat /\ u * h \in Nat
      BY <1>2, <1>3, SMT
    <3> QED BY <1>3, <3>1
  <2>2. call.m * call.a \in Nat /\ pw * (u * v) <= call.m * call.a
    BY <1>1, SquareBits, Modulus DEF LoopInv, CallOK, Progress, Shrinks
  <2>3. (2 * pw) * (u * h) <= call.m * call.a
    BY <1>2, <1>3, <2>1, <2>2, Shrunk
  <2> QED BY <1>1, <2>3 DEF Shrinks
<1> QED BY <1>1, <1>4, <1>5, <1>6 DEF Progress, Asked

\* An iteration after v became zero only counts.
LEMMA RestProgress ==
  ASSUME LoopInv, Progress, Rest
  PROVE  Progress'
<1>1. /\ UNCHANGED <<call, u, v, k, pw>> /\ iter' = iter + 1 /\ v = 0
      /\ call.ct => iter < Enough
  BY DEF Rest, Continues, Enough
<1>2. MakesUp' /\ Shrinks'
  BY <1>1 DEF Progress, MakesUp, Shrinks
<1>3. Enough' = Enough /\ Enough \in Nat
  <2>1. call.m \in Nat /\ call.m > 0
    BY Modulus DEF LoopInv, CallOK
  <2> QED BY <1>1, <2>1, BitSize DEF Enough
<1>4. Counts'
  BY <1>1, <1>3 DEF Progress, Counts
<1> QED BY <1>1, <1>2, <1>4 DEF Progress, Asked

\* A number that shares a divisor with the modulus has no inverse.
LEMMA NoInverse ==
  ASSUME NEW d \in Nat, NEW x \in Nat, NEW y \in Nat, NEW m \in Nat, m > 1, m = d * x,
         NEW a \in Nat, a = d * y, NEW z \in Nat, (a * z) % m = 1
  PROVE  d = 1
<1> DEFINE az == a * z
           q == az \div m
           e == y * z - x * q
<1>1. az \in Nat /\ m \in Nat \ {0} /\ az % m = 1
  BY SMT
<1> HIDE DEF az
<1>2. az \div m \in Nat /\ az = m * (az \div m) + (az % m)
  BY <1>1, DivMod
<1>3. q \in Nat /\ a * z = m * q + 1
  BY <1>1, <1>2 DEF az
<1> HIDE DEF q
<1>4. (d * y) * z = (d * x) * q + 1
  BY <1>3
<1>5. d * e = 1 /\ e \in Int
  BY <1>3, <1>4, SMT
<1> HIDE DEF e
<1>6. CASE e <= 0
  <2>1. d * (-e) >= 0 /\ d * (-e) = -(d * e)
    BY <1>5, <1>6, SMT
  <2> QED BY <1>5, <2>1
<1>7. CASE e > 0
  <2>1. e \in Nat \ {0} /\ e * d >= d /\ e * d = d * e
    BY <1>5, <1>7, ProductBounds, SMT
  <2>2. d # 0
    BY <1>5, SMT
  <2> QED BY <1>5, <2>1, <2>2
<1> QED BY <1>5, <1>6, <1>7

\* The loop ends with v = 0 in both forms, and with u = 1 if there is an inverse.
LEMMA TestScalable ==
  ASSUME LoopInv, Progress, Test
  PROVE  Scalable'
<1>1. /\ ~Continues /\ k' = (IF u = 1 THEN k ELSE 0) /\ UNCHANGED <<call, u, v, pw>>
  BY DEF Test
<1> DEFINE m == call.m
           a == call.a
<1>2. m \in InvModuli /\ m \in Nat /\ m > 1 /\ a \in Nat /\ m \in Nat \ {0} /\ CallOK
  BY Modulus DEF LoopInv, CallOK
<1>3. Enough \in Nat /\ Enough <= 2 * LenBits(m) /\ LenBits(m) \in Nat
  BY <1>2, BitSize, ChunksHold DEF Enough
<1>4. k \in Nat /\ pw = Power2[k] /\ k <= Enough
  BY DEF Progress, Counts
<1>5. v = 0
  <2>1. SUFFICES ASSUME v # 0 PROVE FALSE
    OBVIOUS
  <2>2. call.ct /\ ~(iter < Enough)
    BY <1>1, <2>1 DEF Continues, Enough
  <2>3. k = iter
    BY <2>1, <2>2 DEF Progress, Counts
  <2>4. k < Enough
    BY <2>1, IterationsLeft
  <2> QED BY <2>2, <2>3, <2>4
<1>6. u \in Nat /\ s \in Nat /\ FullT \in Nat
  BY <1>2, Modulus DEF LoopInv, Typing, FullT
<1>7. m = u * s
  <2>1. u * s + v * FullT = m
    BY DEF LoopInv, Determinant
  <2>2. v * FullT = 0 /\ u * s \in Nat
    BY <1>5, <1>6, SMT
  <2> QED BY <2>1, <2>2
<1>8. \E x \in Nat : a = u * x
  <2>1. PICK x, y \in Nat : a = u * x + v * y
    BY DEF Progress, MakesUp
  <2>2. v * y = 0 /\ u * x \in Nat
    BY <1>5, <1>6, SMT
  <2> QED BY <2>1, <2>2
<1>9. u # 1 => \A z \in 0..(m - 1) : (a * z) % m # 1
  <2>1. SUFFICES ASSUME NEW z \in 0..(m - 1), (a * z) % m = 1 PROVE u = 1
    OBVIOUS
  <2>2. PICK y \in Nat : a = u * y
    BY <1>8
  <2>3. z \in Nat
    OBVIOUS
  <2> HIDE DEF m, a
  <2>4. /\ u \in Nat /\ s \in Nat /\ y \in Nat /\ m \in Nat /\ m > 1 /\ a \in Nat /\ z \in Nat
        /\ m = u * s /\ a = u * y /\ (a * z) % m = 1
    BY <1>2, <1>6, <1>7, <2>1, <2>2, <2>3
  <2> QED BY ONLY <2>4, NoInverse, Zenon
<1>10. u = 1 => k # 0
  BY <1>2 DEF Progress, Counts
<1>11. CallOK' /\ Asked'
  BY <1>1, <1>2 DEF CallOK, Progress, Asked
<1>12. CASE u = 1
  BY <1>1, <1>3, <1>4, <1>10, <1>11, <1>12 DEF Scalable
<1>13. CASE u # 1
  BY <1>1, <1>3, <1>4, <1>9, <1>11, <1>13 DEF Scalable
<1> QED BY <1>12, <1>13

\* The scaled result.
LEMMA ScaleInverts ==
  ASSUME AlmostInverse, Scalable, Scale
  PROVE  Inverted'
<1>1. /\ task = "scale" /\ UNCHANGED call
      /\ r' = IF k = 0 THEN -1
              ELSE IF call.fn = "gs_mont_inv" THEN gs_mont_inv(r, k, call.m) ELSE gs_inv(r, k, call.m)
  BY DEF Scale
<1> DEFINE m == call.m
           a == call.a
<1>2. m \in InvModuli /\ m \in Nat /\ m > 1 /\ m % 2 = 1 /\ a \in Nat
  BY Modulus DEF Scalable, CallOK
<1>3. CASE k = 0
  <2>1. r' = -1 /\ \A x \in 0..(m - 1) : (a * x) % m # 1
    BY <1>1, <1>3 DEF Scalable
  <2> QED BY <1>1, <2>1 DEF Inverted
<1>4. CASE k # 0
  <2>1. r \in Nat /\ Same(a * r, Power2[k], m)
    BY <1>1, <1>2, <1>4 DEF AlmostInverse, Scalable, Same
  <2>2. k \in Nat /\ k <= 2 * LenBits(m)
    BY DEF Scalable
  <2>3. /\ gs_mont_inv(r, k, m) \in 0..(m - 1)
        /\ Same(a * gs_mont_inv(r, k, m), Cap(m), m)
        /\ gs_inv(r, k, m) \in 0..(m - 1)
        /\ Same(a * gs_inv(r, k, m), 1, m)
    BY <1>2, <2>1, <2>2, ScaledInverse
  <2>4. (a * gs_mont_inv(r, k, m)) % m = Cap(m) % m /\ (a * gs_inv(r, k, m)) % m = 1
    BY <1>2, <2>3, OneRest DEF Same
  <2>5. -1 \notin 0..(m - 1)
    BY <1>2
  <2>6. CASE call.fn = "gs_mont_inv"
    <3>1. r' = gs_mont_inv(r, k, m)
      BY <1>1, <1>4, <2>6
    <3>2. r' # -1 /\ (a * r') % m = Cap(m) % m
      BY <2>3, <2>4, <2>5, <3>1
    <3> QED BY <1>1, <2>6, <3>2 DEF Inverted
  <2>7. CASE call.fn # "gs_mont_inv"
    <3>1. r' = gs_inv(r, k, m)
      BY <1>1, <1>4, <2>7
    <3>2. r' # -1 /\ (a * r') % m = 1
      BY <2>3, <2>4, <2>5, <3>1
    <3>3. call.fn = "gs_inv"
      BY <2>7 DEF Scalable, Asked
    <3> QED BY <1>1, <3>2, <3>3 DEF Inverted
  <2> QED BY <2>6, <2>7
<1> QED BY <1>3, <1>4

\* The invariant holds at first.
LEMMA InverseInit == InvInit => InverseInv
  BY InitInv DEF InvInit, InverseInv, Inverted

\* Every step keeps it.
LEMMA InverseStep == InverseInv /\ [InvNext]_invVars => InverseInv'
<1> SUFFICES ASSUME InverseInv, [InvNext]_invVars PROVE InverseInv'
  OBVIOUS
<1>1. IInv /\ IInv'
  BY StepInv DEF InverseInv
<1>2. ASSUME NEW fn \in {"gs_mont_inv", "gs_inv"}, NEW ct \in BOOLEAN, NEW m \in InvModuli,
             NEW a \in 0..(m - 1), Invert(fn, ct, m, a)
      PROVE  InverseInv'
  <2>1. task' = "loop" /\ Progress'
    BY <1>2, InvertProgress DEF Invert
  <2> QED BY <1>1, <2>1 DEF InverseInv, Inverted
<1>3. ASSUME HalveU \/ HalveV \/ ReduceU \/ ReduceV \/ Rest PROVE InverseInv'
  <2>1. task = "loop" /\ task' = "loop"
    BY <1>3 DEF HalveU, HalveV, ReduceU, ReduceV, Rest, Counted
  <2>2. LoopInv /\ Progress
    BY <2>1 DEF InverseInv, IInv
  <2>3. Progress'
    BY <1>3, <2>2, HalveUProgress, HalveVProgress, ReduceUProgress, ReduceVProgress, RestProgress
  <2> QED BY <1>1, <2>1, <2>3 DEF InverseInv, Inverted
<1>4. CASE Test
  <2>1. task = "loop" /\ task' = "scale"
    BY <1>4 DEF Test
  <2>2. Scalable'
    BY <1>4, <2>1, TestScalable DEF InverseInv, IInv
  <2> QED BY <1>1, <2>1, <2>2 DEF InverseInv, Inverted
<1>5. CASE Scale
  <2>1. task = "scale" /\ task' = "done"
    BY <1>5 DEF Scale
  <2>2. Inverted'
    BY <1>5, <2>1, ScaleInverts DEF InverseInv, IInv
  <2> QED BY <1>1, <2>1, <2>2 DEF InverseInv
<1>6. CASE Return
  BY <1>1, <1>6 DEF Return, InverseInv, Inverted
<1>7. CASE UNCHANGED invVars
  <2>1. UNCHANGED <<task, call, u, v, s, t, ext, k, iter, r, pw>>
    BY <1>7 DEF invVars
  <2>2. Progress => Progress'
    BY <2>1 DEF Progress, Asked, MakesUp, Shrinks, Counts, Enough
  <2>3. Scalable => Scalable'
    BY <2>1 DEF Scalable, Asked, CallOK
  <2> QED BY <1>1, <2>1, <2>2, <2>3 DEF InverseInv, Inverted
<1> QED BY <1>2, <1>3, <1>4, <1>5, <1>6, <1>7 DEF InvNext

\* For every odd modulus and every number below it, whatever the size of a chunk, both
\* functions answer with the inverse, or its Montgomery form, or find that there is none;
\* the fixed number of iterations of the constant-time form is always enough.
THEOREM InvertedAlways == InvSpec => []Inverted
<1>1. InverseInv => Inverted
  BY DEF InverseInv
<1> QED BY InverseInit, InverseStep, <1>1, PTL DEF InvSpec

-----------------------------------------------------------------------------
(* SM2 encryption: the key stream.                                         *)

\* Digest number c of the key stream of z, and the byte of the stream that stands at i.
Window(z, c) == Standard!Digest(SM3, z \o <<{<<"ctr", c>>}>>, HASH_LEN)
StreamByte(z, i) == Window(z, ((i - 1) \div HASH_LEN) + 1)[((i - 1) % HASH_LEN) + 1]

\* The coordinates of a point.
Secret(z) == z \in Seq(Byte0) /\ Len(z) = 2 * ELEM_LEN

\* A hash context that waits for a message.
Waiting(h) == Context(h) /\ h.method = SM3 /\ Absorbed(h) = <<>>

\* A hash context under a message.
Taking(h) == Context(h) /\ h.method = SM3 /\ Absorbed(h) \in Seq(Byte1)

EcesContext(id, z, state, counter, window, index, nonZero, kdf, tag) ==
  [idCtx |-> id, pSharedSecret |-> z, state |-> state, kdfCounter |-> counter,
   pKdfWindow |-> window, kdfIndex |-> index, wasNonZero |-> nonZero,
   kdfHasher |-> kdf, tagHasher |-> tag]

\* A context between two calls, whatever has become of it.
Fielded(x) ==
  /\ x = EcesContext(x.idCtx, x.pSharedSecret, x.state, x.kdfCounter, x.pKdfWindow, x.kdfIndex,
                     x.wasNonZero, x.kdfHasher, x.tagHasher)
  /\ x.idCtx \in {"none", "ECES"} /\ x.state \in States
  /\ Secret(x.pSharedSecret)
  /\ x.kdfCounter \in 0..(CTR_MOD - 1) /\ x.kdfIndex \in 0..HASH_LEN
  /\ x.pKdfWindow \in Seq(Byte1) /\ Len(x.pKdfWindow) = HASH_LEN
  /\ x.wasNonZero \in BOOLEAN
  /\ Waiting(x.kdfHasher) /\ Taking(x.tagHasher)

\* n bytes of the key stream are used up: the counter and the index stand behind them, the
\* window is the one the counter tells, and the flag knows of every byte.
At(x, n) ==
  /\ x.kdfCounter * HASH_LEN + x.kdfIndex = n + HASH_LEN
  /\ x.kdfCounter # 0 => x.pKdfWindow = Window(x.pSharedSecret, x.kdfCounter)
  /\ x.wasNonZero <=> \E i \in 1..n : StreamByte(x.pSharedSecret, i) \notin ZeroBytes

\* What the assumptions say of the sizes.
LEMMA EcesSizes ==
  /\ SM3 \in Methods /\ HASH_LEN \in Nat \ {0} /\ SM3.hashLen = HASH_LEN
  /\ ELEM_LEN \in Nat \ {0} /\ 2 * ELEM_LEN \in Nat /\ 2 * ELEM_LEN < LO_MOD
  /\ ELEM_LEN < LO_MOD /\ ELEM_LEN <= 2 * ELEM_LEN
  /\ CTR_MOD \in Nat \ {0} /\ MAX_MSG \in Nat /\ MAX_MSG <= (CTR_MOD - 1) * HASH_LEN
  /\ LO_MOD \in Nat /\ 1 < LO_MOD /\ \A n : Countable(SM3, n)
<1>1. SM3 \in Methods /\ SM3.mrl = 1 /\ SM3.hashLen = HASH_LEN
  BY ESAssumption DEF HASH_LEN
<1>2. HASH_LEN \in Nat \ {0}
  BY <1>1, Sizes
<1>3. \A n : Countable(SM3, n)
  BY <1>1 DEF Countable
<1>4. LO_MOD \in Nat /\ 1 < LO_MOD
  BY HashAssumption
<1> QED BY <1>1, <1>2, <1>3, <1>4, ESAssumption DEF HASH_LEN

\* The byte of a window is the byte of the stream that its counter and its place tell.
LEMMA StreamByteAt ==
  ASSUME NEW z, NEW c \in Nat, NEW j \in 0..(HASH_LEN - 1)
  PROVE  StreamByte(z, (c * HASH_LEN + j) + 1) = Window(z, c + 1)[j + 1]
<1> DEFINE h == HASH_LEN
           i == h * c + j
<1>1. h \in Nat \ {0} /\ j \in 0..(h - 1)
  BY EcesSizes
<1>2. i \div h = c /\ i % h = j
  BY <1>1, DivModOfSplit
<1>3. c * HASH_LEN + j = i
  BY <1>1, SMT
<1>4. i \in Nat
  BY <1>1, SMT
<1> HIDE DEF i
<1>5. (i + 1) - 1 = i
  BY <1>4
<1>6. StreamByte(z, i + 1) = Window(z, (i \div h) + 1)[(i % h) + 1]
  BY <1>5 DEF StreamByte
<1> QED BY <1>2, <1>3, <1>6

\* The fields NextWindow replaces.
WithWindowed(x, c1, j1, w1, h1) == [x EXCEPT !.kdfCounter = c1, !.kdfIndex = j1,
                    !.pKdfWindow = w1, !.kdfHasher = h1]

\* The others stay.
LEMMA Windowed ==
  ASSUME NEW x, Fielded(x), NEW c1, NEW j1, NEW w1, NEW h1
  PROVE  WithWindowed(x, c1, j1, w1, h1)
           = EcesContext(x.idCtx, x.pSharedSecret, x.state, c1, w1, j1, x.wasNonZero, h1,
                         x.tagHasher)
<1> DEFINE id == x.idCtx
           z == x.pSharedSecret
           state == x.state
           c == x.kdfCounter
           w == x.pKdfWindow
           j == x.kdfIndex
           f == x.wasNonZero
           h == x.kdfHasher
           th == x.tagHasher
<1>1. x = EcesContext(id, z, state, c, w, j, f, h, th)
  BY DEF Fielded
<1> HIDE DEF id, z, state, c, w, j, f, h, th
<1> DEFINE x1 == [x EXCEPT !.kdfCounter = c1]
<1> DEFINE x2 == [x1 EXCEPT !.kdfIndex = j1]
<1> DEFINE x3 == [x2 EXCEPT !.pKdfWindow = w1]
<1> DEFINE x4 == [x3 EXCEPT !.kdfHasher = h1]
<1>2. WithWindowed(x, c1, j1, w1, h1) = x4
  BY DEF WithWindowed
<1>3. x1 = EcesContext(id, z, state, c1, w, j, f, h, th)
  BY <1>1 DEF EcesContext
<1> HIDE DEF x1
<1>4. x2 = EcesContext(id, z, state, c1, w, j1, f, h, th)
  BY <1>3 DEF EcesContext
<1> HIDE DEF x2
<1>5. x3 = EcesContext(id, z, state, c1, w1, j1, f, h, th)
  BY <1>4 DEF EcesContext
<1> HIDE DEF x3
<1>6. x4 = EcesContext(id, z, state, c1, w1, j1, f, h1, th)
  BY <1>5 DEF EcesContext
<1> HIDE DEF x4
<1> QED BY <1>2, <1>6, Zenon DEF id, z, state, f, th

\* The fields KdfNextByte replaces.
WithByteTaken(x, f1, j1) == [x EXCEPT !.wasNonZero = f1, !.kdfIndex = j1]

\* The others stay.
LEMMA ByteTaken ==
  ASSUME NEW x, Fielded(x), NEW f1, NEW j1
  PROVE  WithByteTaken(x, f1, j1)
           = EcesContext(x.idCtx, x.pSharedSecret, x.state, x.kdfCounter, x.pKdfWindow, j1, f1,
                         x.kdfHasher, x.tagHasher)
<1> DEFINE id == x.idCtx
           z == x.pSharedSecret
           state == x.state
           c == x.kdfCounter
           w == x.pKdfWindow
           j == x.kdfIndex
           f == x.wasNonZero
           h == x.kdfHasher
           th == x.tagHasher
<1>1. x = EcesContext(id, z, state, c, w, j, f, h, th)
  BY DEF Fielded
<1> HIDE DEF id, z, state, c, w, j, f, h, th
<1> DEFINE x1 == [x EXCEPT !.wasNonZero = f1]
<1> DEFINE x2 == [x1 EXCEPT !.kdfIndex = j1]
<1>2. WithByteTaken(x, f1, j1) = x2
  BY DEF WithByteTaken
<1>3. x1 = EcesContext(id, z, state, c, w, j, f1, h, th)
  BY <1>1 DEF EcesContext
<1> HIDE DEF x1
<1>4. x2 = EcesContext(id, z, state, c, w, j1, f1, h, th)
  BY <1>3 DEF EcesContext
<1> HIDE DEF x2
<1> QED BY <1>2, <1>4, Zenon DEF id, z, state, c, w, h, th

\* The fields Init replaces.
WithRecreated(x, id1, h1, state1) == [x EXCEPT !.idCtx = id1, !.kdfHasher = h1, !.state = state1]

\* The others stay.
LEMMA Recreated ==
  ASSUME NEW x, Fielded(x), NEW id1, NEW h1, NEW state1
  PROVE  WithRecreated(x, id1, h1, state1)
           = EcesContext(id1, x.pSharedSecret, state1, x.kdfCounter, x.pKdfWindow, x.kdfIndex,
                         x.wasNonZero, h1, x.tagHasher)
<1> DEFINE id == x.idCtx
           z == x.pSharedSecret
           state == x.state
           c == x.kdfCounter
           w == x.pKdfWindow
           j == x.kdfIndex
           f == x.wasNonZero
           h == x.kdfHasher
           th == x.tagHasher
<1>1. x = EcesContext(id, z, state, c, w, j, f, h, th)
  BY DEF Fielded
<1> HIDE DEF id, z, state, c, w, j, f, h, th
<1> DEFINE x1 == [x EXCEPT !.idCtx = id1]
<1> DEFINE x2 == [x1 EXCEPT !.kdfHasher = h1]
<1> DEFINE x3 == [x2 EXCEPT !.state = state1]
<1>2. WithRecreated(x, id1, h1, state1) = x3
  BY DEF WithRecreated
<1>3. x1 = EcesContext(id1, z, state, c, w, j, f, h, th)
  BY <1>1 DEF EcesContext
<1> HIDE DEF x1
<1>4. x2 = EcesContext(id1, z, state, c, w, j, f, h1, th)
  BY <1>3 DEF EcesContext
<1> HIDE DEF x2
<1>5. x3 = EcesContext(id1, z, state1, c, w, j, f, h1, th)
  BY <1>4 DEF EcesContext
<1> HIDE DEF x3
<1> QED BY <1>2, <1>5, Zenon DEF z, c, w, j, f, th

\* The fields SetKey replaces.
WithRekeyed(x, z1, c1, j1, f1, state1) == [x EXCEPT !.pSharedSecret = z1, !.kdfCounter = c1,
                    !.kdfIndex = j1, !.wasNonZero = f1, !.state = state1]

\* The others stay.
LEMMA Rekeyed ==
  ASSUME NEW x, Fielded(x), NEW z1, NEW c1, NEW j1, NEW f1, NEW state1
  PROVE  WithRekeyed(x, z1, c1, j1, f1, state1)
           = EcesContext(x.idCtx, z1, state1, c1, x.pKdfWindow, j1, f1, x.kdfHasher, x.tagHasher)
<1> DEFINE id == x.idCtx
           z == x.pSharedSecret
           state == x.state
           c == x.kdfCounter
           w == x.pKdfWindow
           j == x.kdfIndex
           f == x.wasNonZero
           h == x.kdfHasher
           th == x.tagHasher
<1>1. x = EcesContext(id, z, state, c, w, j, f, h, th)
  BY DEF Fielded
<1> HIDE DEF id, z, state, c, w, j, f, h, th
<1> DEFINE x1 == [x EXCEPT !.pSharedSecret = z1]
<1> DEFINE x2 == [x1 EXCEPT !.kdfCounter = c1]
<1> DEFINE x3 == [x2 EXCEPT !.kdfIndex = j1]
<1> DEFINE x4 == [x3 EXCEPT !.wasNonZero = f1]
<1> DEFINE x5 == [x4 EXCEPT !.state = state1]
<1>2. WithRekeyed(x, z1, c1, j1, f1, state1) = x5
  BY DEF WithRekeyed
<1>3. x1 = EcesContext(id, z1, state, c, w, j, f, h, th)
  BY <1>1 DEF EcesContext
<1> HIDE DEF x1
<1>4. x2 = EcesContext(id, z1, state, c1, w, j, f, h, th)
  BY <1>3 DEF EcesContext
<1> HIDE DEF x2
<1>5. x3 = EcesContext(id, z1, state, c1, w, j1, f, h, th)
  BY <1>4 DEF EcesContext
<1> HIDE DEF x3
<1>6. x4 = EcesContext(id, z1, state, c1, w, j1, f1, h, th)
  BY <1>5 DEF EcesContext
<1> HIDE DEF x4
<1>7. x5 = EcesContext(id, z1, state1, c1, w, j1, f1, h, th)
  BY <1>6 DEF EcesContext
<1> HIDE DEF x5
<1> QED BY <1>2, <1>7, Zenon DEF id, w, h, th

\* The fields Start and Final replace.
WithRetagged(x, th1, state1) == [x EXCEPT !.tagHasher = th1, !.state = state1]

\* The others stay.
LEMMA Retagged ==
  ASSUME NEW x, Fielded(x), NEW th1, NEW state1
  PROVE  WithRetagged(x, th1, state1)
           = EcesContext(x.idCtx, x.pSharedSecret, state1, x.kdfCounter, x.pKdfWindow,
                         x.kdfIndex, x.wasNonZero, x.kdfHasher, th1)
<1> DEFINE id == x.idCtx
           z == x.pSharedSecret
           state == x.state
           c == x.kdfCounter
           w == x.pKdfWindow
           j == x.kdfIndex
           f == x.wasNonZero
           h == x.kdfHasher
           th == x.tagHasher
<1>1. x = EcesContext(id, z, state, c, w, j, f, h, th)
  BY DEF Fielded
<1> HIDE DEF id, z, state, c, w, j, f, h, th
<1> DEFINE x1 == [x EXCEPT !.tagHasher = th1]
<1> DEFINE x2 == [x1 EXCEPT !.state = state1]
<1>2. WithRetagged(x, th1, state1) = x2
  BY DEF WithRetagged
<1>3. x1 = EcesContext(id, z, state, c, w, j, f, h, th1)
  BY <1>1 DEF EcesContext
<1> HIDE DEF x1
<1>4. x2 = EcesContext(id, z, state1, c, w, j, f, h, th1)
  BY <1>3 DEF EcesContext
<1> HIDE DEF x2
<1> QED BY <1>2, <1>4, Zenon DEF id, z, c, w, j, f, h

\* The field Encrypt and Decrypt replace.
WithAbsorbing(x, th1) == [x EXCEPT !.tagHasher = th1]

\* The others stay.
LEMMA Absorbing ==
  ASSUME NEW x, Fielded(x), NEW th1
  PROVE  WithAbsorbing(x, th1)
           = EcesContext(x.idCtx, x.pSharedSecret, x.state, x.kdfCounter, x.pKdfWindow,
                         x.kdfIndex, x.wasNonZero, x.kdfHasher, th1)
<1> DEFINE id == x.idCtx
           z == x.pSharedSecret
           state == x.state
           c == x.kdfCounter
           w == x.pKdfWindow
           j == x.kdfIndex
           f == x.wasNonZero
           h == x.kdfHasher
           th == x.tagHasher
<1>1. x = EcesContext(id, z, state, c, w, j, f, h, th)
  BY DEF Fielded
<1> HIDE DEF id, z, state, c, w, j, f, h, th
<1> DEFINE x1 == [x EXCEPT !.tagHasher = th1]
<1>2. WithAbsorbing(x, th1) = x1
  BY DEF WithAbsorbing
<1>3. x1 = EcesContext(id, z, state, c, w, j, f, h, th1)
  BY <1>1 DEF EcesContext
<1> HIDE DEF x1
<1> QED BY <1>2, <1>3, Zenon DEF id, z, state, c, w, j, f, h

\* The fields of a context.
LEMMA EcesFields ==
  ASSUME NEW id, NEW z, NEW state, NEW c, NEW w, NEW j, NEW f, NEW h, NEW th
  PROVE  LET x == EcesContext(id, z, state, c, w, j, f, h, th)
         IN  /\ x.idCtx = id /\ x.pSharedSecret = z /\ x.state = state /\ x.kdfCounter = c
             /\ x.pKdfWindow = w /\ x.kdfIndex = j /\ x.wasNonZero = f /\ x.kdfHasher = h
             /\ x.tagHasher = th
             /\ x = EcesContext(x.idCtx, x.pSharedSecret, x.state, x.kdfCounter, x.pKdfWindow,
                                x.kdfIndex, x.wasNonZero, x.kdfHasher, x.tagHasher)
BY DEF EcesContext

\* The digest of the secret and a counter, and the hasher ready for the next one.
LEMMA WindowHashed ==
  ASSUME NEW h, Waiting(h), NEW z, Secret(z), NEW c \in Nat
  PROVE  LET g == HashUpdate(HashUpdate(h, z), <<{<<"ctr", c>>}>>)
         IN  /\ HashTag(g, HASH_LEN) = Window(z, c) /\ Waiting(HashRestart(g))
             /\ Window(z, c) \in Seq(Byte1) /\ Len(Window(z, c)) = HASH_LEN
<1> DEFINE b == {<<"ctr", c>>}
           d == HashUpdate(h, z)
           g == HashUpdate(d, <<b>>)
<1>1. /\ z \in Seq(Byte0) /\ z \in Seq(Byte1) /\ z \in Seq(Byte) /\ Len(z) < LO_MOD
  BY EcesSizes, Levels DEF Secret
<1>2. b \in Byte0
  <2>1. "ctr" \in Kinds
    BY DEF Kinds
  <2> QED BY <2>1, DataByte
<1> HIDE DEF b
<1>3. <<b>> \in Seq(Byte0) /\ <<b>> \in Seq(Byte) /\ Len(<<b>>) < LO_MOD
  BY <1>2, Levels, Single, EcesSizes
<1>4. Context(d) /\ Absorbed(d) = Absorbed(h) \o z /\ d.method = h.method
  BY <1>1, UpdateContext DEF Waiting
<1> HIDE DEF d
<1>5. Context(g) /\ Absorbed(g) = Absorbed(d) \o <<b>> /\ g.method = d.method
  BY <1>3, <1>4, UpdateContext
<1> HIDE DEF g
<1>6. Absorbed(d) = z
  <2>1. <<>> \o z = z
    BY <1>1, ConcatEmptySeq
  <2> QED BY <1>4, <2>1 DEF Waiting
<1>7. Absorbed(g) = z \o <<b>> /\ g.method = SM3
  BY <1>4, <1>5, <1>6, Zenon DEF Waiting
<1>8. z \o <<b>> \in Seq(Byte0)
  BY <1>1, <1>3, ConcatProperties
<1>9. HashTag(g, HASH_LEN) = Standard!Digest(SM3, z \o <<b>>, HASH_LEN)
  <2>1. Countable(g.method, Len(Absorbed(g)))
    BY <1>7, EcesSizes
  <2> QED BY <1>5, <1>7, <2>1, TagIsDigest
<1>10. HashTag(g, HASH_LEN) \in Seq(Over(Byte0)) /\ Len(HashTag(g, HASH_LEN)) = HASH_LEN
  <2>1. Byte0 \subseteq Byte0 /\ Absorbed(g) \in Seq(Byte0) /\ HASH_LEN \in Nat
    BY <1>7, <1>8, EcesSizes
  <2> QED BY <1>5, <2>1, TagLevel
<1>11. Waiting(HashRestart(g))
  BY <1>5, <1>7, RestartContext, RestartFields DEF Waiting
<1>12. Window(z, c) = HashTag(g, HASH_LEN)
  BY <1>9, Zenon DEF Window, b
<1> QED BY <1>10, <1>11, <1>12 DEF Byte1, g, d, b

\* The next window of a context: the counter does not wrap below CTR_MOD.
LEMMA NextWindowIs ==
  ASSUME NEW x, Fielded(x), x.kdfCounter + 1 < CTR_MOD
  PROVE  LET n == x.kdfCounter + 1
         IN  \E h : /\ Waiting(h)
                    /\ NextWindow(x) = EcesContext(x.idCtx, x.pSharedSecret, x.state, n,
                                                   Window(x.pSharedSecret, n), 0, x.wasNonZero,
                                                   h, x.tagHasher)
<1> DEFINE z == x.pSharedSecret
           n == x.kdfCounter + 1
           g == HashUpdate(HashUpdate(x.kdfHasher, z), <<{<<"ctr", n>>}>>)
           d == HashRestart(g)
           w == HashTag(g, HASH_LEN)
<1>1. n \in Nat /\ n % CTR_MOD = n
  <2>1. n \in 0..(CTR_MOD - 1) /\ CTR_MOD \in Nat \ {0}
    BY EcesSizes DEF Fielded
  <2> HIDE DEF n
  <2> QED BY <2>1, ModOfSmall
<1>2. Waiting(x.kdfHasher) /\ Secret(z)
  BY DEF Fielded
<1> HIDE DEF z
<1>3. w = Window(z, n) /\ Waiting(d)
  <2> HIDE DEF n
  <2> QED BY <1>1, <1>2, WindowHashed
<1>4. NextWindow(x) = WithWindowed(x, n, 0, w, d)
  BY <1>1, Zenon DEF NextWindow, WithWindowed, w, d, g, z, n
<1> HIDE DEF n, w, d
<1>6. WithWindowed(x, n, 0, w, d)
        = EcesContext(x.idCtx, x.pSharedSecret, x.state, n, w, 0, x.wasNonZero, d, x.tagHasher)
  BY Windowed
<1> QED BY <1>3, <1>4, <1>6, Zenon DEF z, n

\* Of the products with a positive number the smaller has the smaller factor.
LEMMA SmallerFactor ==
  ASSUME NEW b \in Nat \ {0}, NEW p \in Nat, NEW q \in Nat, p * b < q * b
  PROVE  p < q
<1>1. ASSUME q <= p PROVE FALSE
  <2> DEFINE d == p - q
  <2>1. d \in Nat /\ p = q + d
    BY <1>1
  <2> HIDE DEF d
  <2>2. (q + d) * b = q * b + d * b /\ d * b >= 0 /\ q * b \in Int /\ d * b \in Int
    BY <2>1, SMT
  <2> QED BY <2>1, <2>2, SMT
<1> QED BY <1>1

\* y is the context x after the key stream gave n bytes in all: nothing else has changed.
Follows(x, y, n) ==
  /\ Fielded(y) /\ At(y, n)
  /\ y.idCtx = x.idCtx /\ y.state = x.state /\ y.pSharedSecret = x.pSharedSecret
  /\ y.tagHasher = x.tagHasher

\* The byte of the window that was used last.
LastByte(x) == x.pKdfWindow[x.kdfIndex]

\* The window that the next byte is taken from.
Refilled(x) == IF x.kdfIndex = HASH_LEN THEN NextWindow(x) ELSE x

\* It is the one the number of the byte tells, and holds an unused byte.
LEMMA RefilledIs ==
  ASSUME NEW x, Fielded(x), NEW n \in Nat, At(x, n), n < MAX_MSG
  PROVE  \E c \in 1..(CTR_MOD - 1), j \in 0..(HASH_LEN - 1) : \E h :
           /\ Refilled(x) = EcesContext(x.idCtx, x.pSharedSecret, x.state, c,
                                        Window(x.pSharedSecret, c), j, x.wasNonZero, h, x.tagHasher)
           /\ Waiting(h) /\ c * HASH_LEN + j = n + HASH_LEN
           /\ Window(x.pSharedSecret, c) \in Seq(Byte1)
           /\ Len(Window(x.pSharedSecret, c)) = HASH_LEN
<1> DEFINE z == x.pSharedSecret
           c == x.kdfCounter
           j == x.kdfIndex
           m == HASH_LEN
<1>1. m \in Nat \ {0} /\ CTR_MOD \in Nat \ {0} /\ MAX_MSG <= (CTR_MOD - 1) * m /\ MAX_MSG \in Nat
  BY EcesSizes
<1>2. c \in 0..(CTR_MOD - 1) /\ j \in 0..m /\ Secret(z) /\ Waiting(x.kdfHasher)
  BY DEF Fielded
<1>3. c * m + j = n + m /\ (c # 0 => x.pKdfWindow = Window(z, c))
  BY DEF At
<1>4. CASE j = m
  <2> HIDE DEF c, j, m
  <2>1. c * m = n /\ (c + 1) * m + 0 = n + m
    BY <1>1, <1>2, <1>3, <1>4, SMT
  <2>2. c + 1 < CTR_MOD
    <3> DEFINE q == CTR_MOD - 1
    <3>1. q \in Nat /\ c \in Nat /\ q * m \in Int /\ MAX_MSG <= q * m
      BY <1>1, <1>2, SMT
    <3> HIDE DEF q
    <3>2. c * m < q * m
      BY <1>1, <2>1, <3>1
    <3>3. c < q
      BY <1>1, <3>1, <3>2, SmallerFactor
    <3> QED BY <1>1, <1>2, <3>1, <3>3 DEF q
  <2>3. PICK h : /\ Waiting(h)
                 /\ NextWindow(x) = EcesContext(x.idCtx, z, x.state, c + 1, Window(z, c + 1), 0,
                                                x.wasNonZero, h, x.tagHasher)
    BY <2>2, NextWindowIs DEF c
  <2>4. Refilled(x) = NextWindow(x)
    BY <1>4 DEF Refilled, j, m
  <2>5. c + 1 \in 1..(CTR_MOD - 1) /\ 0 \in 0..(m - 1) /\ c + 1 \in Nat
    BY <1>1, <1>2, <2>2
  <2>6. Window(z, c + 1) \in Seq(Byte1) /\ Len(Window(z, c + 1)) = m
    BY <1>2, <2>5, WindowHashed DEF m
  <2> HIDE DEF z
  <2> QED BY <2>1, <2>3, <2>4, <2>5, <2>6, Zenon DEF m, z
<1>5. CASE j # m
  <2>1. c # 0
    <3>1. ASSUME c = 0 PROVE FALSE
      <4> HIDE DEF c, j, m
      <4>1. c * m = 0
        BY <1>1, <3>1
      <4> QED BY <1>1, <1>2, <1>3, <1>5, <4>1
    <3> QED BY <3>1
  <2>2. c \in 1..(CTR_MOD - 1) /\ j \in 0..(m - 1) /\ c \in Nat
    <3> HIDE DEF c, j, m
    <3> QED BY <1>1, <1>2, <1>5, <2>1
  <2>3. Window(z, c) \in Seq(Byte1) /\ Len(Window(z, c)) = m
    BY <1>2, <2>2, WindowHashed
  <2>4. Refilled(x) = EcesContext(x.idCtx, z, x.state, c, Window(z, c), j, x.wasNonZero,
                                  x.kdfHasher, x.tagHasher)
    <3>1. Refilled(x) = x /\ x.pKdfWindow = Window(z, c)
      BY <1>3, <1>5, <2>1 DEF Refilled
    <3>2. x = EcesContext(x.idCtx, x.pSharedSecret, x.state, x.kdfCounter, x.pKdfWindow,
                          x.kdfIndex, x.wasNonZero, x.kdfHasher, x.tagHasher)
      BY DEF Fielded
    <3> QED BY <3>1, <3>2, Zenon
  <2> HIDE DEF z, c, j
  <2> QED BY <1>2, <1>3, <2>2, <2>3, <2>4, Zenon DEF z, m
<1> QED BY <1>4, <1>5

\* The context after one more byte of the key stream.
LEMMA NextByteIs ==
  ASSUME NEW x, Fielded(x), NEW n \in Nat, At(x, n), n < MAX_MSG
  PROVE  /\ Follows(x, KdfNextByte(x), n + 1)
         /\ LastByte(KdfNextByte(x)) = StreamByte(x.pSharedSecret, n + 1)
         /\ StreamByte(x.pSharedSecret, n + 1) \in Byte1
<1> DEFINE z == x.pSharedSecret
           m == HASH_LEN
           W(c) == Window(z, c)
           Refills(c, j, h) ==
             /\ Refilled(x) = EcesContext(x.idCtx, z, x.state, c, W(c), j, x.wasNonZero, h, x.tagHasher)
             /\ Waiting(h) /\ c * m + j = n + m
             /\ W(c) \in Seq(Byte1) /\ Len(W(c)) = m
<1>0. PICK c \in 1..(CTR_MOD - 1), j \in 0..(m - 1) : \E h : Refills(c, j, h)
  BY RefilledIs
<1>1. PICK h : Refills(c, j, h)
  BY <1>0
<1>2. m \in Nat \ {0} /\ CTR_MOD \in Nat \ {0}
  BY EcesSizes
<1> DEFINE y0 == Refilled(x)
           b == W(c)[j + 1]
           f == x.wasNonZero \/ b \notin ZeroBytes
           y == EcesContext(x.idCtx, z, x.state, c, W(c), j + 1, f, h, x.tagHasher)
<1>3. /\ y0.idCtx = x.idCtx /\ y0.pSharedSecret = z /\ y0.state = x.state /\ y0.kdfCounter = c
      /\ y0.pKdfWindow = W(c) /\ y0.kdfIndex = j /\ y0.wasNonZero = x.wasNonZero
      /\ y0.kdfHasher = h /\ y0.tagHasher = x.tagHasher
  BY <1>1 DEF EcesContext
<1>4. Fielded(y0)
  <2>1. /\ x.idCtx \in {"none", "ECES"} /\ x.state \in States /\ Secret(z)
        /\ x.wasNonZero \in BOOLEAN /\ Taking(x.tagHasher)
    BY DEF Fielded
  <2>2. c \in 0..(CTR_MOD - 1) /\ j \in 0..HASH_LEN
    BY <1>2
  <2>3. y0 = EcesContext(y0.idCtx, y0.pSharedSecret, y0.state, y0.kdfCounter, y0.pKdfWindow,
                         y0.kdfIndex, y0.wasNonZero, y0.kdfHasher, y0.tagHasher)
    BY <1>1, <1>3, Zenon
  <2> HIDE DEF y0, z, W
  <2> QED BY <1>1, <1>3, <2>1, <2>2, <2>3, Zenon DEF Fielded, m
<1>5. KdfNextByte(x) = WithByteTaken(y0, f, j + 1)
  <2>1. KdfNextByte(x) = WithByteTaken(y0, y0.wasNonZero \/ y0.pKdfWindow[y0.kdfIndex + 1] \notin ZeroBytes,
                                       y0.kdfIndex + 1)
    <3> HIDE DEF y0
    <3>1. KdfNextByte(x) = [y0 EXCEPT !.wasNonZero = y0.wasNonZero \/ y0.pKdfWindow[y0.kdfIndex + 1] \notin ZeroBytes,
                                      !.kdfIndex = y0.kdfIndex + 1]
      BY DEF KdfNextByte, Refilled, y0
    <3> QED BY <3>1 DEF WithByteTaken
  <2> HIDE DEF y0, z, W
  <2> QED BY <1>3, <2>1, Zenon DEF b, f
<1>6. KdfNextByte(x) = y
  <2> DEFINE j1 == j + 1
             f1 == f
  <2> HIDE DEF y0, z, W, f1, j1
  <2>1. WithByteTaken(y0, f1, j1)
          = EcesContext(y0.idCtx, y0.pSharedSecret, y0.state, y0.kdfCounter, y0.pKdfWindow, j1, f1,
                        y0.kdfHasher, y0.tagHasher)
    BY <1>4, ByteTaken
  <2> QED BY <1>3, <1>5, <2>1, Zenon DEF j1, f1
<1> HIDE DEF y0
<1>7. b = StreamByte(z, n + 1)
  <2> DEFINE a == c - 1
  <2>1. a \in Nat /\ a + 1 = c /\ a * m + j = n
    BY <1>1, <1>2, SMT
  <2> HIDE DEF a
  <2>2. StreamByte(z, (a * m + j) + 1) = Window(z, a + 1)[j + 1]
    BY <2>1, StreamByteAt
  <2> QED BY <2>1, <2>2
<1>8. b \in Byte1
  <2>1. j + 1 \in 1..Len(W(c))
    BY <1>1, <1>2
  <2> HIDE DEF W
  <2> QED BY <1>1, <2>1, ElementOfSeq
<1>9. /\ y.idCtx = x.idCtx /\ y.pSharedSecret = z /\ y.state = x.state /\ y.kdfCounter = c
      /\ y.pKdfWindow = W(c) /\ y.kdfIndex = j + 1 /\ y.wasNonZero = f
      /\ y.kdfHasher = h /\ y.tagHasher = x.tagHasher
      /\ y = EcesContext(y.idCtx, y.pSharedSecret, y.state, y.kdfCounter, y.pKdfWindow, y.kdfIndex,
                         y.wasNonZero, y.kdfHasher, y.tagHasher)
  <2> HIDE DEF f, z, W
  <2> QED BY DEF EcesContext
<1>10. /\ x.idCtx \in {"none", "ECES"} /\ x.state \in States /\ Secret(z)
       /\ x.wasNonZero \in BOOLEAN /\ Taking(x.tagHasher)
  BY DEF Fielded
<1>11. f \in BOOLEAN /\ c \in 0..(CTR_MOD - 1) /\ j + 1 \in 0..HASH_LEN
  BY <1>2, <1>10
<1>12. f <=> \E i \in 1..(n + 1) : StreamByte(z, i) \notin ZeroBytes
  <2>1. x.wasNonZero <=> \E i \in 1..n : StreamByte(z, i) \notin ZeroBytes
    BY DEF At
  <2>2. 1..(n + 1) = 1..n \cup {n + 1}
    OBVIOUS
  <2> HIDE DEF z, b
  <2> QED BY <1>7, <2>1, <2>2
<1>13. c * m + (j + 1) = (n + 1) + m
  BY <1>1, <1>2, SMT
<1> HIDE DEF y, f, z, W, b
<1>14. Fielded(y)
  BY <1>1, <1>9, <1>10, <1>11, Zenon DEF Fielded, m
<1>15. At(y, n + 1)
  BY <1>9, <1>12, <1>13 DEF At, m, W
<1>16. LastByte(y) = b
  BY <1>9 DEF LastByte, b
<1>17. y.idCtx = x.idCtx /\ y.state = x.state /\ y.pSharedSecret = x.pSharedSecret
       /\ y.tagHasher = x.tagHasher
  BY <1>9 DEF z
<1> QED BY <1>6, <1>7, <1>8, <1>14, <1>15, <1>16, <1>17 DEF Follows, z

\* after holds the contexts after 0, 1, .. n bytes.
Bytes(after, x, n) == after = [i \in 0..n |-> IF i = 0 THEN x ELSE KdfNextByte(after[i - 1])]

\* There are such contexts for every number of bytes.
LEMMA BytesExist ==
  ASSUME NEW x, NEW n \in Nat
  PROVE  \E after : Bytes(after, x, n)
<1> DEFINE S == {p \in Nat : \E after : Bytes(after, x, p)}
<1>1. 0 \in S
  <2> DEFINE a == [i \in 0..0 |-> x]
  <2>1. Bytes(a, x, 0)
    BY DEF Bytes
  <2> QED BY <2>1
<1>2. ASSUME NEW p \in Nat, p \in S
      PROVE  p + 1 \in S
  <2>1. PICK a : Bytes(a, x, p)
    BY <1>2
  <2> DEFINE b == [i \in 0..(p + 1) |-> IF i = p + 1 THEN KdfNextByte(a[p]) ELSE a[i]]
  <2>2. ASSUME NEW i \in 0..(p + 1)
        PROVE  b[i] = IF i = 0 THEN x ELSE KdfNextByte(b[i - 1])
    <3>1. CASE i = p + 1
      <4>1. p \in 0..(p + 1) /\ b[p] = a[p] /\ p = i - 1 /\ i # 0
        BY <3>1
      <4>2. b[i] = KdfNextByte(a[p])
        BY <3>1
      <4> QED BY <4>1, <4>2
    <3>2. CASE i # p + 1
      <4>1. i \in 0..p /\ b[i] = a[i]
        BY <3>2
      <4>2. a[i] = IF i = 0 THEN x ELSE KdfNextByte(a[i - 1])
        BY <2>1, <4>1, Zenon DEF Bytes
      <4>3. i # 0 => b[i - 1] = a[i - 1]
        BY <4>1
      <4> QED BY <4>1, <4>2, <4>3
    <3> QED BY <3>1, <3>2
  <2>3. Bytes(b, x, p + 1)
    <3>1. b = [i \in 0..(p + 1) |-> b[i]]
      OBVIOUS
    <3> HIDE DEF b
    <3> QED BY <2>2, <3>1, Zenon DEF Bytes
  <2> QED BY <2>3
<1> HIDE DEF S
<1>3. n \in S
  BY <1>1, <1>2, Induction
<1> QED BY <1>3 DEF S

\* The contexts of KdfBytes.
LEMMA BytesOfKdf ==
  ASSUME NEW x, NEW n \in Nat
  PROVE  /\ KdfBytes(x, n)[0] = x
         /\ \A i \in 1..n : KdfBytes(x, n)[i] = KdfNextByte(KdfBytes(x, n)[i - 1])
<1> DEFINE a == CHOOSE a : Bytes(a, x, n)
<1>1. Bytes(a, x, n)
  BY BytesExist
<1>2. KdfBytes(x, n) = a
  BY Zenon DEF KdfBytes, Bytes
<1> HIDE DEF a
<1>3. \A i \in 0..n : a[i] = IF i = 0 THEN x ELSE KdfNextByte(a[i - 1])
  BY <1>1, Zenon DEF Bytes
<1> QED BY <1>2, <1>3

\* However many bytes are taken, each is the byte of the stream at its place.
LEMMA KdfRuns ==
  ASSUME NEW x, Fielded(x), NEW n \in Nat, At(x, n), NEW len \in Nat, n + len <= MAX_MSG
  PROVE  /\ \A i \in 0..len : Follows(x, KdfBytes(x, len)[i], n + i)
         /\ \A i \in 1..len : /\ LastByte(KdfBytes(x, len)[i]) = StreamByte(x.pSharedSecret, n + i)
                              /\ StreamByte(x.pSharedSecret, n + i) \in Byte1
<1> DEFINE after == KdfBytes(x, len)
           z == x.pSharedSecret
           Right(i) == LastByte(after[i]) = StreamByte(z, n + i) /\ StreamByte(z, n + i) \in Byte1
           S == {i \in Nat : i <= len => Follows(x, after[i], n + i) /\ (i # 0 => Right(i))}
<1>1. after[0] = x /\ \A i \in 1..len : after[i] = KdfNextByte(after[i - 1])
  BY BytesOfKdf
<1> HIDE DEF after
<1>2. 0 \in S
  <2>1. n + 0 = n
    OBVIOUS
  <2>2. Follows(x, after[0], n + 0)
    BY <1>1, <2>1 DEF Follows
  <2> QED BY <2>2
<1>3. ASSUME NEW i \in Nat, i \in S
      PROVE  i + 1 \in S
  <2>1. SUFFICES ASSUME i + 1 <= len
                 PROVE  Follows(x, after[i + 1], n + (i + 1)) /\ Right(i + 1)
    OBVIOUS
  <2> DEFINE a == after[i]
             b == after[i + 1]
             p == n + i
  <2>2. Follows(x, a, p)
    BY <1>3, <2>1
  <2>3. b = KdfNextByte(a)
    <3>1. i + 1 \in 1..len /\ (i + 1) - 1 = i
      BY <2>1
    <3> QED BY <1>1, <3>1
  <2>4. p \in Nat /\ p < MAX_MSG /\ p + 1 = n + (i + 1)
    BY <2>1, EcesSizes
  <2> HIDE DEF a, b, p
  <2>5. Fielded(a) /\ At(a, p) /\ a.pSharedSecret = z
    BY <2>2 DEF Follows
  <2>6. /\ Follows(a, b, p + 1) /\ LastByte(b) = StreamByte(z, p + 1)
        /\ StreamByte(z, p + 1) \in Byte1
    BY <2>3, <2>4, <2>5, NextByteIs
  <2>7. Follows(x, b, p + 1)
    BY <2>2, <2>6, Zenon DEF Follows
  <2> QED BY <2>4, <2>6, <2>7 DEF b
<1> HIDE DEF S
<1>4. Nat \subseteq S
  BY <1>2, <1>3, Induction
<1>5. ASSUME NEW i \in 0..len PROVE Follows(x, after[i], n + i) /\ (i # 0 => Right(i))
  BY <1>4 DEF S
<1> HIDE DEF Right
<1>6. \A i \in 1..len : Right(i)
  BY <1>5
<1> QED BY <1>5, <1>6 DEF after, z, Right

-----------------------------------------------------------------------------
(* SM2 encryption: the message under way.                                  *)

\* The promise's operators are those of the reference.
LEMMA EcesReference ==
  /\ \A kind, first, n : Promise!Data(kind, first, n) = Data(kind, first, n)
  /\ \A z, i : Promise!KeyByte(z, i) = StreamByte(z, i)
  /\ \A z, n, src : Promise!Crypt(z, n, src)
                      = [i \in DOMAIN src |-> Xor(src[i], StreamByte(z, n + i))]
  /\ \A z, m : Promise!Tag(z, m)
                 = Standard!Digest(SM3, FirstHalf(z) \o m \o SecondHalf(z), HASH_LEN)
<1>1. \A m, msg, n : Promise!Digest(m, msg, n) = Standard!Digest(m, msg, n)
  BY DEF Promise!Digest, Promise!Padded, Promise!ZeroBlock, Standard!Digest, Standard!Padded,
         Standard!ZeroBlock
<1>2. \A kind, first, n : Promise!Data(kind, first, n) = Data(kind, first, n)
  BY DEF Promise!Data, Data
<1>3. \A z, i : Promise!KeyByte(z, i) = StreamByte(z, i)
  BY <1>1, Zenon DEF Promise!KeyByte, StreamByte, Window, HASH_LEN
<1>4. \A x, y : Promise!Xor(x, y) = Xor(x, y)
  BY DEF Promise!Xor, Xor
<1>5. \A z, n, src : Promise!Crypt(z, n, src)
                       = [i \in DOMAIN src |-> Xor(src[i], StreamByte(z, n + i))]
  BY <1>3, <1>4, Zenon DEF Promise!Crypt
<1>6. \A z, m : Promise!Tag(z, m)
                  = Standard!Digest(SM3, FirstHalf(z) \o m \o SecondHalf(z), HASH_LEN)
  BY <1>1, Zenon DEF Promise!Tag, FirstHalf, SecondHalf, HASH_LEN
<1> QED BY <1>2, <1>3, <1>5, <1>6

\* The bytes that Encrypt and Decrypt put out are those of the promise.
LEMMA TextCrypted ==
  ASSUME NEW x, Fielded(x), NEW n \in Nat, At(x, n), NEW len \in Nat, n + len <= MAX_MSG,
         NEW src \in Seq(Byte1), Len(src) = len
  PROVE  /\ XorKdf(KdfBytes(x, len), src) = Promise!Crypt(x.pSharedSecret, n, src)
         /\ XorKdf(KdfBytes(x, len), src) \in Seq(Byte1)
         /\ Len(XorKdf(KdfBytes(x, len), src)) = len
<1> DEFINE a == KdfBytes(x, len)
           z == x.pSharedSecret
           d == [i \in 1..len |-> Xor(src[i], StreamByte(z, n + i))]
<1>1. DOMAIN src = 1..len
  BY SeqDef
<1>2. ASSUME NEW i \in 1..len
      PROVE  LastByte(a[i]) = StreamByte(z, n + i) /\ StreamByte(z, n + i) \in Byte1
  BY KdfRuns
<1> HIDE DEF a, z
<1>3. XorKdf(a, src) = d
  <2>1. XorKdf(a, src) = [i \in 1..len |-> Xor(src[i], LastByte(a[i]))]
    BY <1>1, Zenon DEF XorKdf, LastByte
  <2>2. \A i \in 1..len : Xor(src[i], LastByte(a[i])) = Xor(src[i], StreamByte(z, n + i))
    BY <1>2, Zenon
  <2> QED BY <2>1, <2>2, Zenon
<1>4. Promise!Crypt(z, n, src) = d
  BY <1>1, EcesReference, Zenon
<1>5. \A i \in 1..len : Xor(src[i], StreamByte(z, n + i)) \in Byte1
  <2>1. ASSUME NEW i \in 1..len PROVE Xor(src[i], StreamByte(z, n + i)) \in Byte1
    <3>1. src[i] \in Byte1
      BY ElementOfSeq
    <3> QED BY <1>2, <3>1, XorByte DEF Byte1
  <2> QED BY <2>1
<1>6. d \in Seq(Byte1) /\ Len(d) = len
  BY <1>5
<1> QED BY <1>3, <1>4, <1>6 DEF a, z

\* The message msg is under way.
Under(x, msg) ==
  /\ Fielded(x) /\ At(x, Len(msg)) /\ msg \in Seq(Byte1) /\ Len(msg) <= MAX_MSG
  /\ Absorbed(x.tagHasher) = FirstHalf(x.pSharedSecret) \o msg

\* The halves of a secret.
LEMMA Halves ==
  ASSUME NEW z, Secret(z)
  PROVE  /\ FirstHalf(z) \in Seq(Byte1) /\ FirstHalf(z) \in Seq(Byte) /\ Len(FirstHalf(z)) = ELEM_LEN
         /\ SecondHalf(z) \in Seq(Byte1) /\ SecondHalf(z) \in Seq(Byte)
         /\ Len(SecondHalf(z)) = ELEM_LEN
<1> DEFINE e == ELEM_LEN
           l == 2 * ELEM_LEN
<1>1. z \in Seq(Byte1) /\ Len(z) = l /\ e \in Nat /\ l \in Nat /\ e <= l /\ l - e = e
  BY EcesSizes, Levels DEF Secret
<1> HIDE DEF e, l
<1>2. SubSeq(z, e + 1, l) \in Seq(Byte1) /\ Len(SubSeq(z, e + 1, l)) = e
  BY <1>1, Part
<1>3. SubSeq(z, 1, e) \in Seq(Byte1) /\ Len(SubSeq(z, 1, e)) = e
  <2>1. 0 \in Nat /\ 0 <= e /\ e <= Len(z) /\ 0 + 1 = 1 /\ e - 0 = e
    BY <1>1
  <2>2. SubSeq(z, 0 + 1, e) \in Seq(Byte1) /\ Len(SubSeq(z, 0 + 1, e)) = e - 0
    BY <1>1, <2>1, Part
  <2> QED BY <2>1, <2>2
<1> QED BY <1>2, <1>3, Levels DEF FirstHalf, SecondHalf, e, l

\* What the tag hasher holds tells the message.
LEMMA MessageUnder ==
  ASSUME NEW x, NEW msg, Under(x, msg)
  PROVE  LET a == Absorbed(x.tagHasher)
         IN  /\ SubSeq(a, ELEM_LEN + 1, Len(a)) = msg /\ Len(a) - ELEM_LEN = Len(msg)
             /\ SubSeq(a, 1, ELEM_LEN) = FirstHalf(x.pSharedSecret) /\ Len(msg) \in Nat
<1> DEFINE p == FirstHalf(x.pSharedSecret)
<1>1. p \in Seq(Byte1) /\ Len(p) = ELEM_LEN /\ msg \in Seq(Byte1) /\ ELEM_LEN \in Nat
  BY Halves, EcesSizes DEF Under, Fielded
<1>2. Absorbed(x.tagHasher) = p \o msg
  BY DEF Under
<1> HIDE DEF p
<1>3. SubSeq(p \o msg, 1, ELEM_LEN) = p
      /\ SubSeq(p \o msg, ELEM_LEN + 1, Len(p \o msg)) = msg
  BY <1>1, Uncut
<1>4. Len(p \o msg) = ELEM_LEN + Len(msg) /\ Len(msg) \in Nat
  BY <1>1, Joined
<1>5. Len(p \o msg) - ELEM_LEN = Len(msg)
  BY <1>1, <1>4
<1> QED BY <1>2, <1>3, <1>4, <1>5 DEF p

\* The invariant: after SetKey the key stream is unused, and under a message it stands where the
\* message does and the tag hasher holds the first coordinate and the message.
EcesInv ==
  /\ Fielded(st)
  /\ st.idCtx = "ECES" /\ st.state = "KeySet" => At(st, 0)
  /\ st.idCtx = "ECES" /\ st.state = "Processing" => \E msg : Under(st, msg)

\* More bytes of a message: their key stream is used, and the tag hasher absorbs them.
LEMMA UnderMore ==
  ASSUME NEW x, NEW msg, Under(x, msg), NEW len \in Nat, len < LO_MOD, Len(msg) + len <= MAX_MSG,
         NEW src \in Seq(Byte1), Len(src) = len
  PROVE  LET a == KdfBytes(x, len)[len]
             y == WithAbsorbing(a, HashUpdate(a.tagHasher, src))
         IN  /\ Under(y, msg \o src)
             /\ y.idCtx = x.idCtx /\ y.state = x.state /\ y.pSharedSecret = x.pSharedSecret
<1> DEFINE a == KdfBytes(x, len)[len]
           g == HashUpdate(a.tagHasher, src)
           y == WithAbsorbing(a, g)
           n == Len(msg)
           z == x.pSharedSecret
<1>1. Fielded(x) /\ At(x, n) /\ msg \in Seq(Byte1) /\ n \in Nat
      /\ Absorbed(x.tagHasher) = FirstHalf(z) \o msg
  BY MessageUnder DEF Under
<1>2. Follows(x, a, n + len)
  <2> HIDE DEF n
  <2>1. \A i \in 0..len : Follows(x, KdfBytes(x, len)[i], n + i)
    BY <1>1, KdfRuns DEF n
  <2>2. len \in 0..len
    OBVIOUS
  <2> QED BY <2>1, <2>2
<1> HIDE DEF a
<1>3. /\ Fielded(a) /\ At(a, n + len) /\ a.idCtx = x.idCtx /\ a.state = x.state
      /\ a.pSharedSecret = z /\ a.tagHasher = x.tagHasher
  BY <1>2 DEF Follows
<1>4. Context(a.tagHasher) /\ a.tagHasher.method = SM3 /\ src \in Seq(Byte) /\ Secret(z)
  BY <1>3, Levels DEF Fielded, Taking
<1>5. Context(g) /\ Absorbed(g) = Absorbed(a.tagHasher) \o src /\ g.method = SM3
  BY <1>4, UpdateContext
<1> HIDE DEF g
<1>6. /\ FirstHalf(z) \in Seq(Byte1) /\ FirstHalf(z) \o msg \in Seq(Byte1)
      /\ msg \o src \in Seq(Byte1) /\ Len(msg \o src) = n + len
  BY <1>1, <1>4, Halves, Joined
<1>7. Absorbed(g) = FirstHalf(z) \o (msg \o src)
  <2>1. Absorbed(g) = (FirstHalf(z) \o msg) \o src
    BY <1>1, <1>3, <1>5, Zenon
  <2>2. (FirstHalf(z) \o msg) \o src = FirstHalf(z) \o (msg \o src)
    <3> DEFINE p == FirstHalf(z)
    <3>1. p \in Seq(Byte1) /\ msg \in Seq(Byte1) /\ src \in Seq(Byte1)
      BY <1>1, <1>6
    <3> HIDE DEF p
    <3>2. (p \o msg) \o src = p \o (msg \o src)
      BY ONLY <3>1, ConcatAssociative
    <3> QED BY <3>2 DEF p
  <2> QED BY <2>1, <2>2
<1>8. Taking(g)
  <2>1. FirstHalf(z) \o (msg \o src) \in Seq(Byte1)
    BY <1>6, Joined
  <2> QED BY <1>5, <1>7, <2>1 DEF Taking
<1>9. y = EcesContext(a.idCtx, a.pSharedSecret, a.state, a.kdfCounter, a.pKdfWindow, a.kdfIndex,
                      a.wasNonZero, a.kdfHasher, g)
  BY <1>3, Absorbing
<1> HIDE DEF y
<1>10. /\ y.idCtx = a.idCtx /\ y.pSharedSecret = a.pSharedSecret /\ y.state = a.state
       /\ y.kdfCounter = a.kdfCounter /\ y.pKdfWindow = a.pKdfWindow /\ y.kdfIndex = a.kdfIndex
       /\ y.wasNonZero = a.wasNonZero /\ y.kdfHasher = a.kdfHasher /\ y.tagHasher = g
       /\ y = EcesContext(y.idCtx, y.pSharedSecret, y.state, y.kdfCounter, y.pKdfWindow,
                          y.kdfIndex, y.wasNonZero, y.kdfHasher, y.tagHasher)
  BY <1>9 DEF EcesContext
<1>11. Fielded(y)
  BY <1>3, <1>8, <1>10, Zenon DEF Fielded
<1>12. At(y, n + len)
  BY <1>3, <1>10, Zenon DEF At
<1>13. Under(y, msg \o src)
  BY <1>3, <1>6, <1>7, <1>10, <1>11, <1>12 DEF Under, n
<1> QED BY <1>3, <1>10, <1>13 DEF y, g, a, z

\* An unused key stream: the window is exhausted.
LEMMA AtStart ==
  ASSUME NEW x, x.kdfCounter = 0, x.kdfIndex = HASH_LEN, x.wasNonZero = FALSE
  PROVE  At(x, 0)
BY EcesSizes DEF At

\* A call that does nothing but fail.
LEMMA EcesRefused ==
  ASSUME EcesInv, NEW status, status # "ippStsNoErr", Returns(status), UNCHANGED st
  PROVE  EcesInv' /\ Promise!Fail
<1>1. EcesInv'
  BY DEF EcesInv
<1>2. Promise!Fail
  BY DEF Promise!Fail, Returns
<1> QED BY <1>1, <1>2

\* Memory at first.
LEMMA EcesInitHolds == ASSUME Init PROVE EcesInv /\ Promise!Init
<1> DEFINE zs == ZeroBlock(2 * ELEM_LEN)
           w == ZeroBlock(HASH_LEN)
           h == HashInit("none", SM3)
<1>1. st = EcesContext("none", zs, "Init", 0, w, 0, FALSE, h, h)
  BY Zenon DEF Init, EcesContext
<1>2. out = [ret |-> "ippStsNoErr", data |-> <<>>]
  BY DEF Init
<1>3. \A n \in Nat : ZeroBlock(n) \in Seq(Byte0) /\ Len(ZeroBlock(n)) = n
  BY ZeroByte DEF ZeroBlock
<1>4. Secret(zs) /\ w \in Seq(Byte1) /\ Len(w) = HASH_LEN
  BY <1>3, EcesSizes, Levels DEF Secret
<1>5. Waiting(h) /\ Taking(h)
  <2>1. Context(h) /\ Absorbed(h) = <<>>
    BY InitContext, EcesSizes
  <2>2. h.method = SM3
    BY DEF HashInit
  <2>3. <<>> \in Seq(Byte1)
    OBVIOUS
  <2> QED BY <2>1, <2>2, <2>3 DEF Waiting, Taking
<1> HIDE DEF zs, w, h
<1>6. /\ st.idCtx = "none" /\ st.pSharedSecret = zs /\ st.state = "Init" /\ st.kdfCounter = 0
      /\ st.pKdfWindow = w /\ st.kdfIndex = 0 /\ st.wasNonZero = FALSE /\ st.kdfHasher = h
      /\ st.tagHasher = h
      /\ st = EcesContext(st.idCtx, st.pSharedSecret, st.state, st.kdfCounter, st.pKdfWindow,
                          st.kdfIndex, st.wasNonZero, st.kdfHasher, st.tagHasher)
  BY <1>1 DEF EcesContext
<1>7. 0 \in 0..(CTR_MOD - 1) /\ 0 \in 0..HASH_LEN
  BY EcesSizes
<1>8. Fielded(st)
  BY <1>4, <1>5, <1>6, <1>7 DEF Fielded, States
<1>9. EcesInv
  BY <1>6, <1>8 DEF EcesInv
<1>10. Promise!Init
  BY <1>2, <1>6 DEF Promise!Init
<1> QED BY <1>9, <1>10

\* Init: the context is new whatever it was.
LEMMA EcesCreateKeeps ==
  ASSUME EcesInv, NEW ok \in BOOLEAN, Create(ok)
  PROVE  EcesInv' /\ (Promise!Fail \/ Promise!New)
<1> DEFINE h == HashInit("here", SM3)
<1>1. CASE ok
  <2>1. st' = WithRecreated(st, "ECES", h, "Init") /\ Done(<<>>)
    BY <1>1, Zenon DEF Create, WithRecreated, h
  <2>2. Fielded(st)
    BY DEF EcesInv
  <2>3. Waiting(h)
    <3>1. Context(h) /\ Absorbed(h) = <<>>
      BY InitContext, EcesSizes
    <3>2. h.method = SM3
      BY DEF HashInit
    <3> QED BY <3>1, <3>2 DEF Waiting
  <2> HIDE DEF h
  <2>4. st' = EcesContext("ECES", st.pSharedSecret, "Init", st.kdfCounter, st.pKdfWindow,
                          st.kdfIndex, st.wasNonZero, h, st.tagHasher)
    BY <2>1, <2>2, Recreated
  <2>5. /\ st'.idCtx = "ECES" /\ st'.pSharedSecret = st.pSharedSecret /\ st'.state = "Init"
        /\ st'.kdfCounter = st.kdfCounter /\ st'.pKdfWindow = st.pKdfWindow
        /\ st'.kdfIndex = st.kdfIndex /\ st'.wasNonZero = st.wasNonZero /\ st'.kdfHasher = h
        /\ st'.tagHasher = st.tagHasher
        /\ st' = EcesContext(st'.idCtx, st'.pSharedSecret, st'.state, st'.kdfCounter,
                             st'.pKdfWindow, st'.kdfIndex, st'.wasNonZero, st'.kdfHasher,
                             st'.tagHasher)
    BY <2>4 DEF EcesContext
  <2>6. "Init" \in States /\ "ECES" \in {"none", "ECES"}
    BY DEF States
  <2>7. Fielded(st')
    BY <2>2, <2>3, <2>5, <2>6, Zenon DEF Fielded
  <2>8. EcesInv'
    BY <2>5, <2>7 DEF EcesInv
  <2>9. Promise!New
    BY <2>1, <2>5 DEF Promise!New, Promise!Done, Done
  <2> QED BY <2>8, <2>9
<1>2. CASE ~ok
  <2>1. Returns("ippStsSizeErr") /\ UNCHANGED st
    BY <1>2 DEF Create
  <2> DEFINE e == "ippStsSizeErr"
  <2>2. e # "ippStsNoErr"
    OBVIOUS
  <2> HIDE DEF e
  <2>3. Returns(e) /\ UNCHANGED st
    BY <2>1 DEF e
  <2> QED BY <2>2, <2>3, EcesRefused
<1> QED BY <1>1, <1>2

\* SetKey: the stream of the new secret starts unused, and a message under way is dropped.
LEMMA EcesSetKeyKeeps ==
  ASSUME EcesInv, NEW sameLen \in BOOLEAN,
         NEW product \in Secrets \cup {"ippStsPointAtInfinity", "ippStsContextMatchErr"},
         SetKey(sameLen, product)
  PROVE  EcesInv' /\ (Promise!Fail \/ (product \in Secrets /\ Promise!SetKey(product)))
<1> DEFINE z == Data(product, 0, 2 * ELEM_LEN)
<1>1. CASE st.idCtx = "ECES" /\ sameLen /\ product \in Secrets
  <2>1. st' = WithRekeyed(st, z, 0, HASH_LEN, FALSE, "KeySet") /\ Done(<<>>)
    BY <1>1, Zenon DEF SetKey, WithRekeyed, z
  <2>2. Fielded(st)
    BY DEF EcesInv
  <2>3. Secret(z)
    <3>1. product \in Kinds /\ 0 \in Nat /\ 2 * ELEM_LEN \in Nat
      BY <1>1, ESAssumption, EcesSizes DEF Kinds
    <3> QED BY <3>1, KindBytes DEF Secret
  <2> HIDE DEF z
  <2> DEFINE o == 0
             m == HASH_LEN
             f == FALSE
  <2> HIDE DEF o, m, f
  <2>4. st' = EcesContext(st.idCtx, z, "KeySet", o, st.pKdfWindow, m, f, st.kdfHasher,
                          st.tagHasher)
    <3> DEFINE state == "KeySet"
    <3> HIDE DEF state
    <3>1. st' = WithRekeyed(st, z, o, m, f, state)
      BY <2>1 DEF o, m, f, state
    <3>2. st' = EcesContext(st.idCtx, z, state, o, st.pKdfWindow, m, f, st.kdfHasher, st.tagHasher)
      BY <2>2, <3>1, Rekeyed
    <3> QED BY <3>2 DEF state
  <2>5. /\ st'.idCtx = st.idCtx /\ st'.pSharedSecret = z /\ st'.state = "KeySet"
        /\ st'.kdfCounter = o /\ st'.pKdfWindow = st.pKdfWindow
        /\ st'.kdfIndex = m /\ st'.wasNonZero = f /\ st'.kdfHasher = st.kdfHasher
        /\ st'.tagHasher = st.tagHasher
        /\ st' = EcesContext(st'.idCtx, st'.pSharedSecret, st'.state, st'.kdfCounter,
                             st'.pKdfWindow, st'.kdfIndex, st'.wasNonZero, st'.kdfHasher,
                             st'.tagHasher)
    BY <2>4 DEF EcesContext
  <2>6. "KeySet" \in States /\ o \in 0..(CTR_MOD - 1) /\ m \in 0..HASH_LEN /\ f \in BOOLEAN
    BY EcesSizes DEF States, o, m, f
  <2>7. Fielded(st')
    BY <2>2, <2>3, <2>5, <2>6, Zenon DEF Fielded
  <2>8. At(st', 0)
    BY <2>5, AtStart DEF o, m, f
  <2>9. EcesInv'
    BY <2>5, <2>7, <2>8 DEF EcesInv
  <2>10. Promise!SetKey(product)
    <3>1. Promise!Coordinates(product) = z
      BY EcesReference, Zenon DEF Promise!Coordinates, z
    <3>2. st'.state = "KeySet" /\ st'.idCtx = "ECES" /\ st'.pSharedSecret = z /\ st.idCtx = "ECES"
      BY <1>1, <2>5
    <3>3. st.state # "none"
      BY <2>2 DEF Fielded, States
    <3> HIDE DEF Promise!Coordinates
    <3> QED BY <2>1, <3>1, <3>2, <3>3 DEF Promise!SetKey, Promise!Done, Done
  <2> QED BY <1>1, <2>9, <2>10
<1>2. CASE ~(st.idCtx = "ECES" /\ sameLen /\ product \in Secrets)
  <2>1. PICK status \in {"ippStsPointAtInfinity", "ippStsContextMatchErr", "ippStsBadArgErr"} :
          Returns(status) /\ UNCHANGED st
    BY <1>2 DEF SetKey
  <2>2. status # "ippStsNoErr"
    BY <2>1
  <2> QED BY <2>1, <2>2, EcesRefused
<1> QED BY <1>1, <1>2

\* Start: the tag hasher begins anew with the first coordinate.
LEMMA EcesStartKeeps ==
  ASSUME EcesInv, Start
  PROVE  EcesInv' /\ (Promise!Fail \/ Promise!Start)
<1> DEFINE z == st.pSharedSecret
           h == HashInit("here", SM3)
           g == HashUpdate(h, FirstHalf(z))
<1>1. CASE st.idCtx = "ECES" /\ st.state = "KeySet"
  <2>1. st' = WithRetagged(st, g, "Processing") /\ Done(<<>>)
    BY <1>1, Zenon DEF Start, WithRetagged, z, h, g
  <2>2. Fielded(st) /\ At(st, 0)
    BY <1>1 DEF EcesInv
  <2>3. FirstHalf(z) \in Seq(Byte) /\ FirstHalf(z) \in Seq(Byte1) /\ Len(FirstHalf(z)) < LO_MOD
    BY <2>2, Halves, EcesSizes DEF Fielded
  <2>4. Context(h) /\ Absorbed(h) = <<>> /\ h.method = SM3
    <3>1. Context(h) /\ Absorbed(h) = <<>>
      BY InitContext, EcesSizes
    <3>2. h.method = SM3
      BY DEF HashInit
    <3> QED BY <3>1, <3>2
  <2> HIDE DEF h
  <2>5. Context(g) /\ Absorbed(g) = Absorbed(h) \o FirstHalf(z) /\ g.method = SM3
    BY <2>3, <2>4, UpdateContext
  <2> HIDE DEF g
  <2>6. Absorbed(g) = FirstHalf(z)
    <3>1. <<>> \o FirstHalf(z) = FirstHalf(z)
      BY <2>3, ConcatEmptySeq
    <3> QED BY <2>4, <2>5, <3>1, Zenon
  <2>7. Taking(g) /\ Absorbed(g) = FirstHalf(z) \o <<>>
    <3>1. FirstHalf(z) \o <<>> = FirstHalf(z)
      BY <2>3, ConcatEmptySeq
    <3> QED BY <2>3, <2>5, <2>6, <3>1 DEF Taking
  <2> HIDE DEF z
  <2>8. st' = EcesContext(st.idCtx, st.pSharedSecret, "Processing", st.kdfCounter,
                          st.pKdfWindow, st.kdfIndex, st.wasNonZero, st.kdfHasher, g)
    BY <2>1, <2>2, Retagged
  <2>9. /\ st'.idCtx = st.idCtx /\ st'.pSharedSecret = st.pSharedSecret /\ st'.state = "Processing"
        /\ st'.kdfCounter = st.kdfCounter /\ st'.pKdfWindow = st.pKdfWindow
        /\ st'.kdfIndex = st.kdfIndex /\ st'.wasNonZero = st.wasNonZero
        /\ st'.kdfHasher = st.kdfHasher /\ st'.tagHasher = g
        /\ st' = EcesContext(st'.idCtx, st'.pSharedSecret, st'.state, st'.kdfCounter,
                             st'.pKdfWindow, st'.kdfIndex, st'.wasNonZero, st'.kdfHasher,
                             st'.tagHasher)
    BY <2>8 DEF EcesContext
  <2>10. "Processing" \in States
    BY DEF States
  <2>11. Fielded(st')
    BY <2>2, <2>7, <2>9, <2>10, Zenon DEF Fielded
  <2>12. At(st', 0)
    BY <2>2, <2>9, Zenon DEF At
  <2>13. Under(st', <<>>)
    <3>1. Len(<<>>) = 0 /\ <<>> \in Seq(Byte1) /\ 0 <= MAX_MSG
      BY EcesSizes
    <3>2. Absorbed(st'.tagHasher) = FirstHalf(st'.pSharedSecret) \o <<>>
      BY <2>7, <2>9, Zenon DEF z
    <3>3. At(st', Len(<<>>))
      BY <2>12, <3>1
    <3> QED BY <2>11, <3>1, <3>2, <3>3, Zenon DEF Under
  <2>14. EcesInv'
    BY <2>9, <2>11, <2>13 DEF EcesInv
  <2>15. Promise!Start
    <3> DEFINE a == Absorbed(st'.tagHasher)
    <3>1. SubSeq(a, ELEM_LEN + 1, Len(a)) = <<>>
      BY <2>13, MessageUnder
    <3> HIDE DEF a
    <3>2. SubSeq(Absorbed(st'.tagHasher), ELEM_LEN + 1, Len(Absorbed(st'.tagHasher))) = <<>>
      BY <3>1 DEF a
    <3>3. st'.idCtx = "ECES" /\ st'.state = "Processing" /\ st'.pSharedSecret = st.pSharedSecret
      BY <1>1, <2>9
    <3> QED BY <1>1, <2>1, <3>2, <3>3 DEF Promise!Start, Promise!Done, Done
  <2> QED BY <2>14, <2>15
<1>2. CASE ~(st.idCtx = "ECES" /\ st.state = "KeySet")
  <2> DEFINE e == "ippStsContextMatchErr"
  <2>1. e # "ippStsNoErr" /\ Returns(e) /\ UNCHANGED st
    BY <1>2 DEF Start
  <2> HIDE DEF e
  <2> QED BY <2>1, EcesRefused
<1> QED BY <1>1, <1>2

\* The guard of Encrypt and Decrypt.
LEMMA DataAccepted ==
  ASSUME EcesInv, NEW ok, NEW len \in CallLens, DataStatus(ok, len) = "ippStsNoErr",
         MsgLen + len <= MAX_MSG
  PROVE  \E msg : /\ Under(st, msg) /\ MsgLen = Len(msg) /\ Len(msg) \in Nat
                  /\ len \in Nat /\ len < LO_MOD /\ Len(msg) + len <= MAX_MSG
                  /\ len \in 0..MAX_MSG
                  /\ st.idCtx = "ECES" /\ st.state = "Processing"
<1>1. st.idCtx = "ECES" /\ st.state = "Processing" /\ ~(len < 0)
  BY DEF DataStatus
<1>2. len \in Nat /\ len < LO_MOD
  BY <1>1, ESAssumption
<1>3. PICK msg : Under(st, msg)
  BY <1>1 DEF EcesInv
<1>4. MsgLen = Len(msg) /\ Len(msg) \in Nat
  BY <1>3, MessageUnder DEF MsgLen
<1>5. Len(msg) + len <= MAX_MSG /\ len \in 0..MAX_MSG
  BY <1>2, <1>4, EcesSizes
<1> QED BY <1>1, <1>2, <1>3, <1>4, <1>5

\* Any call on the message that is not accepted.
LEMMA DataRefused ==
  ASSUME EcesInv, NEW ok, NEW len, DataStatus(ok, len) # "ippStsNoErr",
         Returns(DataStatus(ok, len)), UNCHANGED st
  PROVE  EcesInv' /\ Promise!Fail
BY EcesRefused

\* What a step that adds src to the message msg does in the promise.
MessageGrows(msg, src) ==
  /\ st.idCtx = "ECES" /\ st.state = "Processing"
  /\ st'.idCtx = "ECES" /\ st'.state = "Processing" /\ st'.pSharedSecret = st.pSharedSecret
  /\ SubSeq(Absorbed(st.tagHasher), ELEM_LEN + 1, Len(Absorbed(st.tagHasher))) = msg
  /\ SubSeq(Absorbed(st'.tagHasher), ELEM_LEN + 1, Len(Absorbed(st'.tagHasher))) = msg \o src

\* Bytes encrypted or decrypted join the message under way, and keep the invariant.
LEMMA TextStep ==
  ASSUME NEW msg, Under(st, msg), st.idCtx = "ECES", st.state = "Processing",
         NEW len \in Nat, len < LO_MOD, Len(msg) + len <= MAX_MSG,
         NEW src \in Seq(Byte1), Len(src) = len,
         st' = WithAbsorbing(KdfBytes(st, len)[len], HashUpdate(KdfBytes(st, len)[len].tagHasher, src))
  PROVE  EcesInv' /\ MessageGrows(msg, src)
<1>1. /\ Under(st', msg \o src)
      /\ st'.idCtx = st.idCtx /\ st'.state = st.state /\ st'.pSharedSecret = st.pSharedSecret
  BY UnderMore
<1>2. EcesInv'
  <2>1. Fielded(st')
    BY <1>1 DEF Under
  <2> QED BY <1>1, <2>1 DEF EcesInv
<1>3. /\ SubSeq(Absorbed(st.tagHasher), ELEM_LEN + 1, Len(Absorbed(st.tagHasher))) = msg
      /\ SubSeq(Absorbed(st'.tagHasher), ELEM_LEN + 1, Len(Absorbed(st'.tagHasher))) = msg \o src
  BY <1>1, MessageUnder
<1> QED BY <1>1, <1>2, <1>3, Zenon DEF MessageGrows

\* Encrypt: the tag hasher takes the input.
LEMMA EcesEncryptKeeps ==
  ASSUME EcesInv, NEW ok, NEW len \in CallLens, Encrypt(ok, len)
  PROVE  EcesInv' /\ (Promise!Fail \/ (len \in 0..MAX_MSG /\ Promise!Encrypt(len)))
<1>1. CASE DataStatus(ok, len) = "ippStsNoErr"
  <2>1. PICK msg : /\ Under(st, msg) /\ MsgLen = Len(msg) /\ Len(msg) \in Nat
                   /\ len \in Nat /\ len < LO_MOD /\ Len(msg) + len <= MAX_MSG
                   /\ len \in 0..MAX_MSG
                   /\ st.idCtx = "ECES" /\ st.state = "Processing"
    BY <1>1, DataAccepted DEF Encrypt
  <2> DEFINE n == Len(msg)
             z == st.pSharedSecret
             src == Data("plain", n, len)
             a == KdfBytes(st, len)
             c == XorKdf(a, src)
  <2>2. st' = WithAbsorbing(a[len], HashUpdate(a[len].tagHasher, src)) /\ Done(c)
    <3>1. st' = [a[len] EXCEPT !.tagHasher = HashUpdate(@, src)] /\ Done(c)
      BY <1>1, <2>1, Zenon DEF Encrypt
    <3> HIDE DEF a, src, c
    <3> QED BY <3>1 DEF WithAbsorbing
  <2>3. src \in Seq(Byte1) /\ Len(src) = len
    <3>1. "plain" \in Kinds
      BY DEF Kinds
    <3>2. Data("plain", n, len) \in Seq(Byte0) /\ Len(Data("plain", n, len)) = len
      BY <2>1, <3>1, KindBytes
    <3> QED BY <3>2, Levels
  <2> HIDE DEF src
  <2>4. EcesInv' /\ MessageGrows(msg, src)
    BY <2>1, <2>2, <2>3, TextStep
  <2>5. c = Promise!Crypt(z, n, src)
    <3>1. Fielded(st) /\ At(st, n)
      BY <2>1 DEF Under
    <3> HIDE DEF n
    <3> QED BY <2>1, <2>3, <3>1, TextCrypted DEF n
  <2> HIDE DEF a, c
  <2>6. Promise!Data("plain", n, len) = src
    BY EcesReference, Zenon DEF src
  <2>7. Promise!Encrypt(len)
    <3> HIDE DEF n, z
    <3> DEFINE mm == SubSeq(Absorbed(st.tagHasher), ELEM_LEN + 1, Len(Absorbed(st.tagHasher)))
               mn == SubSeq(Absorbed(st'.tagHasher), ELEM_LEN + 1, Len(Absorbed(st'.tagHasher)))
    <3>1. /\ st.idCtx = "ECES" /\ st.state = "Processing" /\ mm = msg /\ mn = msg \o src
          /\ st'.idCtx = "ECES" /\ st'.state = "Processing" /\ st'.pSharedSecret = z
      BY <2>4 DEF MessageGrows, z
    <3> HIDE DEF mm, mn
    <3>2. /\ (IF st.idCtx = "ECES" THEN st.state ELSE "none") = "Processing"
          /\ (IF st'.idCtx = "ECES" THEN st'.state ELSE "none") = "Processing"
          /\ (IF st.idCtx = "ECES" /\ st.state # "Init" THEN st.pSharedSecret ELSE <<>>) = z
          /\ (IF st'.idCtx = "ECES" /\ st'.state # "Init" THEN st'.pSharedSecret ELSE <<>>) = z
          /\ (IF st.idCtx = "ECES" /\ st.state = "Processing" THEN mm ELSE <<>>) = msg
          /\ (IF st'.idCtx = "ECES" /\ st'.state = "Processing" THEN mn ELSE <<>>) = msg \o src
      BY <3>1 DEF z
    <3>3. out' = [ret |-> "ippStsNoErr", data |-> Promise!Crypt(z, n, Promise!Data("plain", n, len))]
      BY <2>2, <2>5, <2>6, Zenon DEF Done
    <3> QED BY <2>6, <3>2, <3>3, Zenon DEF Promise!Encrypt, Promise!Done, mm, mn, n
  <2> QED BY <2>1, <2>4, <2>7
<1>2. CASE DataStatus(ok, len) # "ippStsNoErr"
  BY <1>2, DataRefused DEF Encrypt
<1> QED BY <1>1, <1>2

\* Decrypt: the tag hasher takes the output.
LEMMA EcesDecryptKeeps ==
  ASSUME EcesInv, NEW ok, NEW len \in CallLens, Decrypt(ok, len)
  PROVE  EcesInv' /\ (Promise!Fail \/ (len \in 0..MAX_MSG /\ Promise!Decrypt(len)))
<1>1. CASE DataStatus(ok, len) = "ippStsNoErr"
  <2>1. PICK msg : /\ Under(st, msg) /\ MsgLen = Len(msg) /\ Len(msg) \in Nat
                   /\ len \in Nat /\ len < LO_MOD /\ Len(msg) + len <= MAX_MSG
                   /\ len \in 0..MAX_MSG
                   /\ st.idCtx = "ECES" /\ st.state = "Processing"
    BY <1>1, DataAccepted DEF Decrypt
  <2> DEFINE n == Len(msg)
             z == st.pSharedSecret
             cipher == Data("cipher", n, len)
             a == KdfBytes(st, len)
             src == XorKdf(a, cipher)
  <2>2. st' = WithAbsorbing(a[len], HashUpdate(a[len].tagHasher, src)) /\ Done(src)
    <3>1. st' = [a[len] EXCEPT !.tagHasher = HashUpdate(@, src)] /\ Done(src)
      BY <1>1, <2>1, Zenon DEF Decrypt
    <3> HIDE DEF a, src
    <3> QED BY <3>1 DEF WithAbsorbing
  <2>3. cipher \in Seq(Byte1) /\ Len(cipher) = len
    <3>1. "cipher" \in Kinds
      BY DEF Kinds
    <3>2. Data("cipher", n, len) \in Seq(Byte0) /\ Len(Data("cipher", n, len)) = len
      BY <2>1, <3>1, KindBytes
    <3> QED BY <3>2, Levels
  <2> HIDE DEF cipher
  <2>4. src = Promise!Crypt(z, n, cipher) /\ src \in Seq(Byte1) /\ Len(src) = len
    <3>1. Fielded(st) /\ At(st, n)
      BY <2>1 DEF Under
    <3> HIDE DEF n
    <3> QED BY <2>1, <2>3, <3>1, TextCrypted DEF n
  <2> HIDE DEF src
  <2>5. EcesInv' /\ MessageGrows(msg, src)
    BY <2>1, <2>2, <2>4, TextStep
  <2>6. Promise!Data("cipher", n, len) = cipher
    BY EcesReference, Zenon DEF cipher
  <2>7. Promise!Decrypt(len)
    <3> HIDE DEF n, z, a
    <3> DEFINE mm == SubSeq(Absorbed(st.tagHasher), ELEM_LEN + 1, Len(Absorbed(st.tagHasher)))
               mn == SubSeq(Absorbed(st'.tagHasher), ELEM_LEN + 1, Len(Absorbed(st'.tagHasher)))
    <3>1. /\ st.idCtx = "ECES" /\ st.state = "Processing" /\ mm = msg /\ mn = msg \o src
          /\ st'.idCtx = "ECES" /\ st'.state = "Processing" /\ st'.pSharedSecret = z
      BY <2>5 DEF MessageGrows, z
    <3> HIDE DEF mm, mn
    <3>2. /\ (IF st.idCtx = "ECES" THEN st.state ELSE "none") = "Processing"
          /\ (IF st'.idCtx = "ECES" THEN st'.state ELSE "none") = "Processing"
          /\ (IF st.idCtx = "ECES" /\ st.state # "Init" THEN st.pSharedSecret ELSE <<>>) = z
          /\ (IF st'.idCtx = "ECES" /\ st'.state # "Init" THEN st'.pSharedSecret ELSE <<>>) = z
          /\ (IF st.idCtx = "ECES" /\ st.state = "Processing" THEN mm ELSE <<>>) = msg
          /\ (IF st'.idCtx = "ECES" /\ st'.state = "Processing" THEN mn ELSE <<>>) = msg \o src
      BY <3>1 DEF z
    <3>3. Promise!Crypt(z, n, Promise!Data("cipher", n, len)) = src
      BY <2>4, <2>6, Zenon
    <3>4. out' = [ret |-> "ippStsNoErr", data |-> src]
      BY <2>2, Zenon DEF Done
    <3> QED BY <3>2, <3>3, <3>4, Zenon DEF Promise!Decrypt, Promise!Done, mm, mn, n
  <2> QED BY <2>1, <2>5, <2>7
<1>2. CASE DataStatus(ok, len) # "ippStsNoErr"
  BY <1>2, DataRefused DEF Decrypt
<1> QED BY <1>1, <1>2

\* The digest that Final makes is the tag of the whole message.
LEMMA TagOfMessage ==
  ASSUME NEW msg, Under(st, msg)
  PROVE  LET g == HashUpdate(st.tagHasher, SecondHalf(st.pSharedSecret))
         IN  /\ HashTag(g, HASH_LEN) = Promise!Tag(st.pSharedSecret, msg)
             /\ Taking(HashRestart(g))
<1> DEFINE z == st.pSharedSecret
           y == SecondHalf(z)
           g == HashUpdate(st.tagHasher, y)
           w == (FirstHalf(z) \o msg) \o y
<1>1. Secret(z) /\ Context(st.tagHasher) /\ st.tagHasher.method = SM3
      /\ Absorbed(st.tagHasher) = FirstHalf(z) \o msg
  BY DEF Under, Fielded, Taking
<1>2. y \in Seq(Byte) /\ Len(y) < LO_MOD
  BY <1>1, Halves, EcesSizes
<1> HIDE DEF y
<1>3. Context(g) /\ Absorbed(g) = w /\ g.method = SM3
  <2>1. Context(g) /\ Absorbed(g) = Absorbed(st.tagHasher) \o y /\ g.method = SM3
    BY <1>1, <1>2, UpdateContext
  <2> QED BY <1>1, <2>1, Zenon
<1> HIDE DEF g
<1>4. HashTag(g, HASH_LEN) = Standard!Digest(SM3, w, HASH_LEN)
  <2> HIDE DEF w
  <2>1. Countable(g.method, Len(Absorbed(g)))
    BY <1>3, EcesSizes
  <2> QED BY <1>3, <2>1, TagIsDigest
<1>5. Promise!Tag(z, msg) = Standard!Digest(SM3, w, HASH_LEN)
  BY EcesReference, Zenon DEF w, y
<1>6. Taking(HashRestart(g))
  <2>1. Context(HashRestart(g)) /\ Absorbed(HashRestart(g)) = <<>> /\ HashRestart(g).method = SM3
    BY <1>3, RestartContext, RestartFields
  <2>2. <<>> \in Seq(Byte1)
    OBVIOUS
  <2> QED BY <2>1, <2>2 DEF Taking
<1> QED BY <1>4, <1>5, <1>6 DEF g, y, z

\* Final: the tag of the message, and the status tells whether its key stream was zero.
LEMMA EcesFinalKeeps ==
  ASSUME EcesInv, NEW tagLen \in TagLens, Final(tagLen)
  PROVE  EcesInv' /\ (Promise!Fail \/ (tagLen \in 0..SM3.hashLen /\ Promise!Final(tagLen)))
<1> DEFINE z == st.pSharedSecret
           g == HashUpdate(st.tagHasher, SecondHalf(z))
           h == HashRestart(g)
           tag == HashTag(g, HASH_LEN)
           e == IF st.wasNonZero THEN "ippStsNoErr" ELSE "ippStsShareKeyErr"
<1>1. CASE st.idCtx = "ECES" /\ st.state = "Processing" /\ tagLen \in 0..HASH_LEN
  <2>1. /\ st' = WithRetagged(st, h, "Finished")
        /\ out' = [ret |-> e, data |-> SubSeq(tag, 1, tagLen)]
    BY <1>1, Zenon DEF Final, WithRetagged, z, g, h, tag, e
  <2>2. PICK msg : Under(st, msg)
    BY <1>1 DEF EcesInv
  <2>3. tag = Promise!Tag(z, msg) /\ Taking(h)
    BY <2>2, TagOfMessage
  <2>4. Fielded(st) /\ At(st, Len(msg)) /\ Len(msg) \in Nat /\ msg \in Seq(Byte1)
        /\ SubSeq(Absorbed(st.tagHasher), ELEM_LEN + 1, Len(Absorbed(st.tagHasher))) = msg
    BY <2>2, MessageUnder DEF Under
  <2>5. e = IF \E i \in DOMAIN msg : Promise!KeyByte(z, i) \notin ZeroBytes
            THEN "ippStsNoErr" ELSE "ippStsShareKeyErr"
    <3>1. DOMAIN msg = 1..Len(msg)
      BY <2>4, SeqDef
    <3>2. st.wasNonZero <=> \E i \in 1..Len(msg) : StreamByte(z, i) \notin ZeroBytes
      BY <2>4, Zenon DEF At, z
    <3>3. \A i : Promise!KeyByte(z, i) = StreamByte(z, i)
      BY EcesReference, Zenon
    <3>4. (\E i \in DOMAIN msg : Promise!KeyByte(z, i) \notin ZeroBytes) <=> st.wasNonZero
      BY <3>1, <3>2, <3>3, Zenon
    <3> QED BY <3>4, Zenon DEF e
  <2> HIDE DEF z, g, h, tag, e
  <2>6. st' = EcesContext(st.idCtx, st.pSharedSecret, "Finished", st.kdfCounter,
                          st.pKdfWindow, st.kdfIndex, st.wasNonZero, st.kdfHasher, h)
    BY <2>1, <2>4, Retagged
  <2>7. /\ st'.idCtx = st.idCtx /\ st'.pSharedSecret = st.pSharedSecret /\ st'.state = "Finished"
        /\ st'.kdfCounter = st.kdfCounter /\ st'.pKdfWindow = st.pKdfWindow
        /\ st'.kdfIndex = st.kdfIndex /\ st'.wasNonZero = st.wasNonZero
        /\ st'.kdfHasher = st.kdfHasher /\ st'.tagHasher = h
        /\ st' = EcesContext(st'.idCtx, st'.pSharedSecret, st'.state, st'.kdfCounter,
                             st'.pKdfWindow, st'.kdfIndex, st'.wasNonZero, st'.kdfHasher,
                             st'.tagHasher)
    BY <2>6 DEF EcesContext
  <2>8. "Finished" \in States
    BY DEF States
  <2>9. Fielded(st')
    BY <2>3, <2>4, <2>7, <2>8, Zenon DEF Fielded
  <2>10. EcesInv'
    BY <2>7, <2>9 DEF EcesInv
  <2>11. Promise!Final(tagLen)
    <3> DEFINE mm == SubSeq(Absorbed(st.tagHasher), ELEM_LEN + 1, Len(Absorbed(st.tagHasher)))
    <3>1. /\ st.idCtx = "ECES" /\ st.state = "Processing" /\ mm = msg
          /\ st'.idCtx = "ECES" /\ st'.state = "Finished" /\ st'.pSharedSecret = z
      BY <1>1, <2>4, <2>7 DEF z
    <3> HIDE DEF mm
    <3>2. /\ (IF st.idCtx = "ECES" THEN st.state ELSE "none") = "Processing"
          /\ (IF st'.idCtx = "ECES" THEN st'.state ELSE "none") = "Finished"
          /\ (IF st.idCtx = "ECES" /\ st.state # "Init" THEN st.pSharedSecret ELSE <<>>) = z
          /\ (IF st'.idCtx = "ECES" /\ st'.state # "Init" THEN st'.pSharedSecret ELSE <<>>) = z
          /\ (IF st.idCtx = "ECES" /\ st.state = "Processing" THEN mm ELSE <<>>) = msg
          /\ st'.state # "Processing"
      BY <3>1 DEF z
    <3>3. out' = [ret |-> IF \E i \in DOMAIN msg : Promise!KeyByte(z, i) \notin ZeroBytes
                          THEN "ippStsNoErr" ELSE "ippStsShareKeyErr",
                  data |-> SubSeq(Promise!Tag(z, msg), 1, tagLen)]
      BY <2>1, <2>3, <2>5, Zenon
    <3> QED BY <3>2, <3>3, Zenon DEF Promise!Final, mm
  <2> QED BY <1>1, <2>10, <2>11, EcesSizes
<1>2. CASE ~(st.idCtx = "ECES" /\ st.state = "Processing" /\ tagLen \in 0..HASH_LEN)
  <2>1. PICK status \in {"ippStsContextMatchErr", "ippStsIncompleteContextErr", "ippStsSizeErr"} :
          Returns(status) /\ UNCHANGED st
    BY <1>2 DEF Final
  <2>2. status # "ippStsNoErr"
    BY <2>1
  <2> QED BY <2>1, <2>2, EcesRefused
<1> QED BY <1>1, <1>2

\* Every step keeps the invariant and is a step of the promise.
LEMMA EcesNextKeeps ==
  ASSUME EcesInv, [Next]_vars
  PROVE  EcesInv' /\ [Promise!Next]_(Promise!vars)
<1>1. CASE UNCHANGED vars
  <2>1. st' = st /\ out' = out
    BY <1>1 DEF vars
  <2>2. EcesInv'
    BY <2>1 DEF EcesInv
  <2>3. UNCHANGED Promise!vars
    BY <2>1 DEF Promise!vars
  <2> QED BY <2>2, <2>3
<1>2. CASE Next
  <2> DEFINE Fails == Promise!Fail
             Begins == Promise!New
             Keys(p) == Promise!SetKey(p)
             Starts == Promise!Start
             Encrypts(n) == Promise!Encrypt(n)
             Decrypts(n) == Promise!Decrypt(n)
             Ends(n) == Promise!Final(n)
  <2>1. ASSUME \/ Fails \/ Begins \/ Starts
               \/ \E p \in Secrets : Keys(p)
               \/ \E n \in 0..MAX_MSG : Encrypts(n) \/ Decrypts(n)
               \/ \E n \in 0..SM3.hashLen : Ends(n)
        PROVE  Promise!Next
    BY <2>1, Zenon DEF Promise!Next
  <2> HIDE DEF Fails, Begins, Keys, Starts, Encrypts, Decrypts, Ends
  <2>2. ASSUME NEW ok \in BOOLEAN, Create(ok) PROVE EcesInv' /\ Promise!Next
    BY <2>1, <2>2, EcesCreateKeeps DEF Fails, Begins
  <2>3. ASSUME NEW ok \in BOOLEAN,
               NEW product \in Secrets \cup {"ippStsPointAtInfinity", "ippStsContextMatchErr"},
               SetKey(ok, product)
        PROVE  EcesInv' /\ Promise!Next
    BY <2>1, <2>3, EcesSetKeyKeeps DEF Fails, Keys
  <2>4. ASSUME Start PROVE EcesInv' /\ Promise!Next
    BY <2>1, <2>4, EcesStartKeeps DEF Fails, Starts
  <2>5. ASSUME NEW ok \in BOOLEAN, NEW len \in CallLens, Encrypt(ok, len)
        PROVE  EcesInv' /\ Promise!Next
    BY <2>1, <2>5, EcesEncryptKeeps DEF Fails, Encrypts
  <2>6. ASSUME NEW ok \in BOOLEAN, NEW len \in CallLens, Decrypt(ok, len)
        PROVE  EcesInv' /\ Promise!Next
    BY <2>1, <2>6, EcesDecryptKeeps DEF Fails, Decrypts
  <2>7. ASSUME NEW tagLen \in TagLens, Final(tagLen) PROVE EcesInv' /\ Promise!Next
    BY <2>1, <2>7, EcesFinalKeeps DEF Fails, Ends
  <2>8. EcesInv' /\ Promise!Next
    BY <1>2, <2>2, <2>3, <2>4, <2>5, <2>6, <2>7, Zenon DEF Next
  <2> QED BY <2>8
<1> QED BY <1>1, <1>2

\* In every reachable state the key stream stands where the message does.
THEOREM EcesInvariance == Spec => []EcesInv
<1>1. Init => EcesInv
  BY EcesInitHolds
<1>2. EcesInv /\ [Next]_vars => EcesInv'
  BY EcesNextKeeps
<1> QED BY <1>1, <1>2, PTL DEF Spec

\* What the invariant says of a message under way.
LEMMA EcesInStep == ASSUME EcesInv PROVE InStep
<1>1. TypeOK
  BY DEF EcesInv, Fielded, Secret, TypeOK
<1>2. ASSUME NEW h, Context(h) PROVE LengthCounted(h)
  BY <1>2 DEF Context
<1>3. Absorbed(st.kdfHasher) = <<>> /\ LengthCounted(st.kdfHasher) /\ LengthCounted(st.tagHasher)
  BY <1>2 DEF EcesInv, Fielded, Waiting, Taking
<1>4. HASH_LEN \in Nat /\ st.kdfCounter * HASH_LEN \in Int /\ st.kdfIndex \in Int
  <2>1. HASH_LEN \in Nat /\ st.kdfCounter \in Nat /\ st.kdfIndex \in Int
    BY EcesSizes DEF EcesInv, Fielded
  <2> QED BY <2>1, SMT
<1> DEFINE q == st.kdfCounter * HASH_LEN
<1>5. CASE st.idCtx = "ECES" /\ st.state = "KeySet"
  <2>1. q + st.kdfIndex = 0 + HASH_LEN
    BY <1>5 DEF EcesInv, At
  <2> HIDE DEF q
  <2>2. q + st.kdfIndex - HASH_LEN = 0
    BY <1>4, <2>1 DEF q
  <2> QED BY <1>1, <1>3, <1>5, <2>2 DEF InStep, q
<1>6. CASE st.idCtx = "ECES" /\ st.state = "Processing"
  <2>1. PICK msg : Under(st, msg)
    BY <1>6 DEF EcesInv
  <2>2. /\ SubSeq(Absorbed(st.tagHasher), 1, ELEM_LEN) = FirstHalf(st.pSharedSecret)
        /\ MsgLen = Len(msg) /\ Len(msg) \in Nat
    BY <2>1, MessageUnder DEF MsgLen
  <2>3. q + st.kdfIndex = MsgLen + HASH_LEN
    BY <2>1, <2>2 DEF Under, At
  <2> HIDE DEF q
  <2>4. q + st.kdfIndex - HASH_LEN = MsgLen
    <3> DEFINE n == MsgLen
    <3>1. n \in Nat /\ q + st.kdfIndex = n + HASH_LEN
      BY <2>2, <2>3
    <3> HIDE DEF n
    <3>2. q + st.kdfIndex - HASH_LEN = n
      BY <1>4, <3>1 DEF q
    <3> QED BY <3>2 DEF n
  <2> QED BY <1>1, <1>3, <1>6, <2>2, <2>4 DEF InStep, q
<1> QED BY <1>1, <1>5, <1>6 DEF InStep

\* However a message is cut into calls, and whatever was begun before, the key stream and the tag
\* hasher stand where the bytes of the message say.
THEOREM EcesStaysInStep == Spec => []InStep
BY EcesInvariance, EcesInStep, PTL

\* Every sequence of calls encrypts, decrypts and tags as SM2 defines for the whole message, and
\* reports a key stream of zeros and no other.
THEOREM EcesImplements == Spec => ImplementsSM2
<1>1. Init => Promise!Init
  BY EcesInitHolds
<1>2. EcesInv /\ [Next]_vars => [Promise!Next]_(Promise!vars)
  BY EcesNextKeeps
<1> QED BY <1>1, <1>2, EcesInvariance, PTL DEF Spec, ImplementsSM2, Promise!Spec

-----------------------------------------------------------------------------
(* Sums and products by their rests.                                       *)

\* Equal rests stay equal when the same number is added.
LEMMA SameSum ==
  ASSUME NEW m \in Nat \ {0}, NEW x \in Nat, NEW y \in Nat, NEW z \in Nat, Same(x, y, m)
  PROVE  Same(x + z, y + z, m)
<1>1. /\ x % m \in 0..(m - 1) /\ x \div m \in Nat /\ x = m * (x \div m) + (x % m)
      /\ y % m \in 0..(m - 1) /\ y \div m \in Nat /\ y = m * (y \div m) + (y % m)
      /\ x % m = y % m
  BY DivMod DEF Same
<1> DEFINE a == x \div m
           b == y \div m
           rx == x % m
<1>2. x = m * a + rx /\ y = m * b + rx /\ a \in Nat /\ b \in Nat /\ rx \in Nat
  BY <1>1
<1> HIDE DEF a, b, rx
<1>3. (a - b) * m = m * a - m * b /\ a - b \in Int
  BY <1>2, SMT
<1>4. (x + z) = (y + z) + (a - b) * m
  BY <1>2, <1>3
<1> QED BY <1>3, <1>4, SameRest DEF Same

\* The rest of a sum and of a product is that of the rests.
LEMMA RestOfSum ==
  ASSUME NEW m \in Nat \ {0}, NEW x \in Nat, NEW y \in Nat
  PROVE  Same((x % m) + y, x + y, m) /\ Same((x % m) + (y % m), x + y, m)
<1>1. Same(x % m, x, m) /\ x % m \in Nat /\ Same(y % m, y, m) /\ y % m \in Nat
  BY RestOfRest
<1>2. Same((x % m) + y, x + y, m)
  BY <1>1, SameSum
<1>3. Same((y % m) + (x % m), y + (x % m), m)
  BY <1>1, SameSum
<1>4. (y % m) + (x % m) = (x % m) + (y % m) /\ y + (x % m) = (x % m) + y
  BY <1>1
<1> QED BY <1>2, <1>3, <1>4, SameAs

\* A factor may be reduced before the product is.
LEMMA RestOfProduct ==
  ASSUME NEW m \in Nat \ {0}, NEW x \in Nat, NEW y \in Nat
  PROVE  Same((x % m) * y, x * y, m)
BY RestOfRest, SameProduct

-----------------------------------------------------------------------------
(* The group of a curve: sums and products of multiples of the base point. *)

\* The multiples of P by doubling, up to the n-th.
Halving(m, E, P, n) ==
  m = [j \in 0..n |-> IF j = 0 THEN AtInfinity
                      ELSE LET half  == m[j \div 2]
                               twice == Plus(E, half, half)
                           IN  IF j % 2 = 0 THEN twice ELSE Plus(E, twice, P)]

\* m[j] from the member for its half.
OfItsHalf(m, E, P, j) ==
    m[j] = IF j = 0 THEN AtInfinity
           ELSE IF j % 2 = 0 THEN Plus(E, m[j \div 2], m[j \div 2])
                ELSE Plus(E, Plus(E, m[j \div 2], m[j \div 2]), P)

Members(m, E, P, n) == m = [j \in 0..n |-> m[j]] /\ \A j \in 0..n : OfItsHalf(m, E, P, j)

\* Member by member.
LEMMA HalvingMembers ==
  ASSUME NEW E, NEW P, NEW n \in Nat, NEW m
  PROVE  Halving(m, E, P, n) <=> Members(m, E, P, n)
<1> DEFINE next(j) == IF j = 0 THEN AtInfinity
                      ELSE IF j % 2 = 0 THEN Plus(E, m[j \div 2], m[j \div 2])
                           ELSE Plus(E, Plus(E, m[j \div 2], m[j \div 2]), P)
<1>1. Halving(m, E, P, n) <=> m = [j \in 0..n |-> next(j)]
  BY Zenon DEF Halving
<1>2. Members(m, E, P, n) <=> m = [j \in 0..n |-> m[j]] /\ \A j \in 0..n : m[j] = next(j)
  BY Zenon DEF Members, OfItsHalf
<1> HIDE DEF next
<1>3. ASSUME m = [j \in 0..n |-> next(j)]
      PROVE  m = [j \in 0..n |-> m[j]] /\ \A j \in 0..n : m[j] = next(j)
  <2> DEFINE g == [j \in 0..n |-> next(j)]
  <2>1. g = [j \in 0..n |-> g[j]] /\ \A j \in 0..n : g[j] = next(j)
    OBVIOUS
  <2>2. m = g
    BY <1>3
  <2> HIDE DEF g
  <2> QED BY <2>1, <2>2
<1>4. ASSUME m = [j \in 0..n |-> m[j]], \A j \in 0..n : m[j] = next(j)
      PROVE  m = [j \in 0..n |-> next(j)]
  BY <1>4
<1> QED BY <1>1, <1>2, <1>3, <1>4

\* Half of a number.
LEMMA HalfOf ==
  ASSUME NEW j \in Nat \ {0}
  PROVE  j \div 2 \in Nat /\ j \div 2 < j /\ j % 2 \in {0, 1} /\ j = (j \div 2) + (j \div 2) + (j % 2)
  BY SMT

\* There are such functions for every n.
LEMMA HalvingExists ==
  ASSUME NEW E, NEW P, NEW n \in Nat
  PROVE  \E m : Halving(m, E, P, n)
<1> DEFINE S == {q \in Nat : \E m : Members(m, E, P, q)}
<1>1. 0 \in S
  <2> DEFINE m == [j \in 0..0 |-> AtInfinity]
  <2>1. m = [j \in 0..0 |-> m[j]] /\ \A j \in 0..0 : j = 0 /\ m[j] = AtInfinity
    OBVIOUS
  <2> HIDE DEF m
  <2>2. Members(m, E, P, 0)
    BY <2>1 DEF Members, OfItsHalf
  <2> QED BY <2>2
<1>2. ASSUME NEW q \in Nat, q \in S
      PROVE  q + 1 \in S
  <2>1. PICK m : Members(m, E, P, q)
    BY <1>2
  <2> DEFINE h == (q + 1) \div 2
             z == IF (q + 1) % 2 = 0 THEN Plus(E, m[h], m[h]) ELSE Plus(E, Plus(E, m[h], m[h]), P)
             w == [j \in 0..(q + 1) |-> IF j = q + 1 THEN z ELSE m[j]]
  <2>2. q + 1 # 0 /\ h \in 0..q
    BY HalfOf
  <2>3. /\ \A j \in 0..q : w[j] = m[j]
        /\ w[q + 1] = z
        /\ w = [j \in 0..(q + 1) |-> w[j]]
    OBVIOUS
  <2> HIDE DEF w
  <2>4. ASSUME NEW j \in 0..q PROVE OfItsHalf(w, E, P, j)
    <3>1. OfItsHalf(m, E, P, j)
      BY <2>1 DEF Members
    <3>2. j # 0 => j \div 2 \in 0..q
      BY HalfOf
    <3>3. w[j] = m[j] /\ (j # 0 => w[j \div 2] = m[j \div 2])
      BY <2>3, <3>2
    <3> QED BY <3>1, <3>3, Zenon DEF OfItsHalf
  <2>5. OfItsHalf(w, E, P, q + 1)
    <3>1. w[h] = m[h]
      BY <2>2, <2>3
    <3> QED BY <2>2, <2>3, <3>1, Zenon DEF OfItsHalf
  <2>6. \A j \in 0..(q + 1) : j \in 0..q \/ j = q + 1
    OBVIOUS
  <2>7. \A j \in 0..(q + 1) : OfItsHalf(w, E, P, j)
    BY <2>4, <2>5, <2>6, Zenon
  <2>8. Members(w, E, P, q + 1)
    BY <2>3, <2>7, Zenon DEF Members
  <2> QED BY <2>8
<1> HIDE DEF S
<1>3. n \in S
  BY <1>1, <1>2, Induction
<1> QED BY <1>3, HalvingMembers DEF S

\* A curve of the schemes.
Cyclic(E) == E \in Curves /\ IsGroup(E)

\* What the assumption says of a curve's numbers.
LEMMA CurveNumbers ==
  ASSUME NEW E, Cyclic(E)
  PROVE  E.p \in Nat /\ E.p > 3 /\ E.n \in Nat /\ E.n > 1 /\ E.n - 1 \in Nat /\ E.n \in Nat \ {0}
BY CurveAssumption DEF IsCurve, Cyclic

\* The multiples of a point are such a function.
LEMMA MultiplesHalve ==
  ASSUME NEW E, Cyclic(E), NEW P
  PROVE  Halving(Multiples(E, P), E, P, E.n - 1)
<1> DEFINE m == CHOOSE m : Halving(m, E, P, E.n - 1)
<1>1. Multiples(E, P) = [j \in 0..(E.n - 1) |-> m[j]]
  <2> DEFINE c == CHOOSE f : f = [j \in 0..(E.n - 1) |->
                      IF j = 0 THEN AtInfinity
                      ELSE LET half  == f[j \div 2]
                               twice == Plus(E, half, half)
                           IN  IF j % 2 = 0 THEN twice ELSE Plus(E, twice, P)]
  <2>1. m = c
    BY Zenon DEF Halving
  <2>2. Multiples(E, P) = [j \in 0..(E.n - 1) |-> c[j]]
    BY DEF Multiples
  <2> QED BY <2>1, <2>2
<1>2. Halving(m, E, P, E.n - 1)
  BY CurveNumbers, HalvingExists
<1> HIDE DEF m
<1>3. m = [j \in 0..(E.n - 1) |-> m[j]]
  <2>1. E.n - 1 \in Nat
    BY CurveNumbers
  <2>2. Members(m, E, P, E.n - 1)
    BY <1>2, <2>1, HalvingMembers, Zenon
  <2> QED BY <2>2, Zenon DEF Members
<1> QED BY <1>1, <1>2, <1>3, Zenon

\* Those of the base point among them.
LEMMA BaseHalving ==
  ASSUME NEW E, Cyclic(E)
  PROVE  Halving(BaseMultiples[E], E, E.g, E.n - 1)
BY MultiplesHalve DEF BaseMultiples, Cyclic

\* Multiples of the base point are told by their number modulo the order; sums are those of the
\* numbers.
LEMMA BaseSums ==
  ASSUME NEW E, Cyclic(E), NEW x \in Nat, NEW y \in Nat
  PROVE  /\ Plus(E, TimesBase(E, x), TimesBase(E, y)) = TimesBase(E, x + y)
         /\ TimesBase(E, x) = TimesBase(E, x % E.n)
         /\ Same(x, y, E.n) => TimesBase(E, x) = TimesBase(E, y)
<1> DEFINE n == E.n
<1>1. n \in Nat \ {0} /\ n > 1
  BY CurveNumbers
<1> HIDE DEF n
<1>2. x % n \in 0..(n - 1) /\ y % n \in 0..(n - 1) /\ x % n \in Nat
  BY <1>1, RestOfRest
<1>3. ((x % n) + (y % n)) % n = (x + y) % n
  BY <1>1, RestOfSum DEF Same
<1>4. Plus(E, BaseMultiples[E][x % n], BaseMultiples[E][y % n]) = BaseMultiples[E][((x % n) + (y % n)) % n]
  BY <1>2 DEF Cyclic, IsGroup, n
<1>5. (x % n) % n = x % n
  BY <1>1, RestOfRest DEF Same
<1> QED BY <1>3, <1>4, <1>5 DEF TimesBase, n, Same

\* A multiple is at infinity for multiples of the order only.
LEMMA BaseInfinity ==
  ASSUME NEW E, Cyclic(E), NEW x \in Nat
  PROVE  TimesBase(E, x) = AtInfinity <=> x % E.n = 0
<1> DEFINE n == E.n
<1>1. n \in Nat \ {0} /\ n > 1 /\ n - 1 \in Nat
  BY CurveNumbers
<1>2. BaseMultiples[E][0] = AtInfinity
  <2>1. Members(BaseMultiples[E], E, E.g, n - 1)
    BY <1>1, BaseHalving, HalvingMembers
  <2>2. 0 \in 0..(n - 1)
    BY <1>1
  <2> QED BY <2>1, <2>2, Zenon DEF Members, OfItsHalf
<1>3. \A kx \in 1..(n - 1) : BaseMultiples[E][kx] # AtInfinity
  BY CurveAssumption DEF Cyclic, IsCurve
<1>4. x % n \in 0..(n - 1)
  BY <1>1, RestOfRest
<1> HIDE DEF n
<1> QED BY <1>1, <1>2, <1>3, <1>4 DEF TimesBase, n

\* Two multiples are the same point only if their numbers are the same modulo the order.
LEMMA BaseTold ==
  ASSUME NEW E, Cyclic(E), NEW x \in Nat, NEW y \in Nat, TimesBase(E, x) = TimesBase(E, y)
  PROVE  Same(x, y, E.n)
<1> DEFINE n == E.n
           a == x % n
           b == y % n
<1>1. n \in Nat \ {0} /\ n > 1
  BY CurveNumbers
<1> HIDE DEF n
<1>2. a \in 0..(n - 1) /\ b \in 0..(n - 1) /\ Same(a, x, n) /\ Same(b, y, n)
  BY <1>1, RestOfRest
<1>3. TimesBase(E, a) = TimesBase(E, b)
  BY BaseSums DEF n
<1> HIDE DEF a, b
<1>4. ASSUME NEW c \in 0..(n - 1), NEW d \in 0..(n - 1), c < d, TimesBase(E, c) = TimesBase(E, d)
      PROVE  FALSE
  <2>1. n - c \in Nat /\ c \in Nat /\ d \in Nat /\ c + (n - c) = n /\ d + (n - c) = (d - c) + n /\ d - c \in 1..(n - 1)
    BY <1>1, <1>4
  <2>2. TimesBase(E, n) = TimesBase(E, d + (n - c))
    BY <1>4, <2>1, BaseSums
  <2>3. n % n = 0
    BY <1>1, OneBlock
  <2>4. (d + (n - c)) % n = 0
    BY <1>1, <2>1, <2>2, <2>3, BaseInfinity DEF n
  <2>5. Same(d + (n - c), d - c, n)
    <3>1. d + (n - c) = (d - c) + 1 * n /\ d - c \in Nat /\ d + (n - c) \in Nat
      BY <1>1, <2>1
    <3> QED BY <1>1, <3>1, SameRest, 1 \in Int DEF Same
  <2>6. (d - c) % n = d - c
    BY <1>1, <2>1, ModOfSmall
  <2> QED BY <2>1, <2>4, <2>5, <2>6 DEF Same
<1>5. a = b
  <2>1. a < b \/ b < a \/ a = b
    BY <1>2
  <2> QED BY <1>2, <1>3, <1>4, <2>1
<1> QED BY <1>2, <1>5, SameAs DEF n

\* Multiples are points with coordinates in the field.
LEMMA BasePoints ==
  ASSUME NEW E, Cyclic(E), NEW x \in Nat
  PROVE  /\ TimesBase(E, x) \in (0..(E.p - 1)) \X (0..(E.p - 1))
         /\ x % E.n # 0 => OnCurve(E, TimesBase(E, x))
<1>1. E.n \in Nat \ {0} /\ E.p \in Nat /\ E.p > 3
  BY CurveNumbers
<1>2. x % E.n \in 0..(E.n - 1)
  BY <1>1, RestOfRest
<1>3. CASE x % E.n = 0
  <2>1. TimesBase(E, x) = <<0, 0>>
    BY <1>3, BaseInfinity DEF AtInfinity
  <2> QED BY <1>1, <1>3, <2>1
<1>4. CASE x % E.n # 0
  <2>1. x % E.n \in 1..(E.n - 1)
    BY <1>1, <1>2, <1>4
  <2> QED BY <2>1 DEF Cyclic, IsGroup, TimesBase
<1> QED BY <1>3, <1>4

\* Products of multiples, whatever the number of doublings.
LEMMA HalvingMultiplies ==
  ASSUME NEW E, Cyclic(E), NEW i \in Nat, NEW kx \in Nat, NEW m, Halving(m, E, TimesBase(E, i), kx)
  PROVE  \A j \in 0..kx : m[j] = TimesBase(E, j * i)
<1> DEFINE P == TimesBase(E, i)
           S == {q \in Nat : \A j \in 0..q : j <= kx => m[j] = TimesBase(E, j * i)}
<1>1. \A j \in 0..kx : OfItsHalf(m, E, P, j)
  BY HalvingMembers, Zenon DEF Members
<1>2. 0 \in S
  <2>0. 0 \in 0..kx
    OBVIOUS
  <2>1. m[0] = AtInfinity
    BY <1>1, <2>0, Zenon DEF OfItsHalf
  <2>2. 0 * i = 0 /\ 0 % E.n = 0
    BY CurveNumbers
  <2>3. TimesBase(E, 0 * i) = AtInfinity
    BY <2>2, BaseInfinity, 0 \in Nat
  <2> QED BY <2>1, <2>3
<1>3. ASSUME NEW q \in Nat, q \in S
      PROVE  q + 1 \in S
  <2> DEFINE j == q + 1
             h == j \div 2
             o == j % 2
  <2>1. SUFFICES ASSUME j <= kx PROVE m[j] = TimesBase(E, j * i)
    BY <1>3
  <2>2. h \in 0..q /\ h \in Nat /\ h <= kx /\ o \in {0, 1} /\ j = h + h + o /\ j # 0 /\ j \in 0..kx
    BY <2>1, HalfOf
  <2>3. m[h] = TimesBase(E, h * i)
    BY <1>3, <2>2
  <2>4. m[j] = IF o = 0 THEN Plus(E, m[h], m[h]) ELSE Plus(E, Plus(E, m[h], m[h]), P)
    BY <1>1, <2>2, Zenon DEF OfItsHalf
  <2> HIDE DEF h, o, j
  <2> DEFINE x == h * i
  <2>5. x \in Nat /\ x + x \in Nat
    BY <2>2, SMT
  <2>6. j * i = (x + x) + o * i /\ o * i = IF o = 0 THEN 0 ELSE i
    BY <2>2, SMT
  <2> HIDE DEF x
  <2>7. Plus(E, m[h], m[h]) = TimesBase(E, x + x)
    BY <2>3, <2>5, BaseSums DEF x
  <2>8. CASE o = 0
    <3>1. j * i = x + x
      BY <2>5, <2>6, <2>8
    <3> QED BY <2>4, <2>7, <2>8, <3>1
  <2>9. CASE o = 1
    <3>1. j * i = (x + x) + i
      BY <2>5, <2>6, <2>9
    <3>2. m[j] = Plus(E, TimesBase(E, x + x), P)
      BY <2>4, <2>7, <2>9
    <3>3. Plus(E, TimesBase(E, x + x), P) = TimesBase(E, (x + x) + i)
      BY <2>5, BaseSums
    <3> QED BY <3>1, <3>2, <3>3
  <2> QED BY <2>2, <2>8, <2>9
<1> HIDE DEF S
<1>4. kx \in S
  BY <1>2, <1>3, Induction
<1> QED BY <1>4 DEF S

\* The product of a number and a multiple.
LEMMA ProductMultiplies ==
  ASSUME NEW E, Cyclic(E), NEW i \in Nat, NEW kx \in Nat
  PROVE  Product(E, kx, TimesBase(E, i)) = TimesBase(E, kx * i)
<1> DEFINE P == TimesBase(E, i)
           m == CHOOSE m : Halving(m, E, P, kx)
<1>1. Product(E, kx, P) = m[kx]
  BY Zenon DEF Product, Halving
<1>2. Halving(m, E, P, kx)
  BY HalvingExists
<1> HIDE DEF m
<1> QED BY <1>1, <1>2, HalvingMultiplies

\* And a table of them.
LEMMA TableMultiplies ==
  ASSUME NEW E, Cyclic(E), NEW i \in Nat, NEW kx \in 0..(E.n - 1)
  PROVE  Multiples(E, TimesBase(E, i))[kx] = TimesBase(E, kx * i)
BY MultiplesHalve, HalvingMultiplies, CurveNumbers

-----------------------------------------------------------------------------
(* Numbers modulo the order of a curve.                                    *)

\* Sums and products of numbers that have the same rests.
LEMMA SameSums ==
  ASSUME NEW m \in Nat \ {0}, NEW a \in Nat, NEW b \in Nat, NEW c \in Nat, NEW d \in Nat,
         Same(a, b, m), Same(c, d, m)
  PROVE  Same(a + c, b + d, m) /\ Same(a * c, b * d, m)
<1>1. Same(a + c, b + c, m) /\ Same(c + b, d + b, m)
  BY SameSum
<1>2. Same(a * c, b * c, m) /\ Same(c * b, d * b, m)
  BY SameProduct
<1>3. c + b = b + c /\ d + b = b + d
  OBVIOUS
<1>4. c * b = b * c /\ d * b = b * d
  BY SMT
<1>5. Same(b + c, b + d, m) /\ Same(b * c, b * d, m)
  BY <1>1, <1>2, <1>3, <1>4
<1> QED BY <1>1, <1>2, <1>5, SameAs

\* What is added to both drops out.
LEMMA SumCancelled ==
  ASSUME NEW m \in Nat \ {0}, NEW a \in Nat, NEW b \in Nat, NEW c \in Nat, Same(a + c, b + c, m)
  PROVE  Same(a, b, m)
<1> DEFINE kx == (m - 1) * c
<1>1. kx \in Nat /\ c + kx = c * m
  BY SMT
<1> HIDE DEF kx
<1>2. Same((a + c) + kx, (b + c) + kx, m)
  BY <1>1, SameSum
<1> DEFINE x == (a + c) + kx
           y == (b + c) + kx
<1>3. x = a + c * m /\ y = b + c * m /\ c \in Int
  BY <1>1
<1>4. x \in Nat /\ y \in Nat
  BY <1>1
<1> HIDE DEF x, y
<1>5. Same(x, a, m) /\ Same(y, b, m)
  BY <1>3, <1>4, SameRest, Zenon DEF Same
<1>6. Same(x, y, m)
  BY <1>2 DEF x, y
<1> QED BY <1>5, <1>6, SameAs

\* And so does a factor with an inverse.
LEMMA FactorCancelled ==
  ASSUME NEW m \in Nat, m > 1, NEW a \in Nat, NEW b \in Nat, NEW c \in Nat, NEW i \in Nat,
         (c * i) % m = 1, Same(a * c, b * c, m)
  PROVE  Same(a, b, m)
<1>0. m \in Nat \ {0} /\ 1 % m = 1
  BY SMT
<1>1. a * c \in Nat /\ b * c \in Nat /\ c * i \in Nat
  BY SMT
<1>2. Same((a * c) * i, (b * c) * i, m)
  BY <1>0, <1>1, SameProduct
<1>3. (a * c) * i = (c * i) * a /\ (b * c) * i = (c * i) * b /\ 1 * a = a /\ 1 * b = b
  BY SMT
<1>4. Same(c * i, 1, m)
  BY <1>0 DEF Same
<1>5. Same((c * i) * a, 1 * a, m) /\ Same((c * i) * b, 1 * b, m)
  BY <1>0, <1>1, <1>4, SameProduct, 1 \in Nat
<1>6. Same((c * i) * a, a, m) /\ Same((c * i) * b, b, m) /\ Same((c * i) * a, (c * i) * b, m)
  BY <1>2, <1>3, <1>5
<1> QED BY <1>6, SameAs

\* Numbers below m are told by their rests.
LEMMA SmallSame ==
  ASSUME NEW m \in Nat \ {0}, NEW a \in 0..(m - 1), NEW b \in 0..(m - 1), Same(a, b, m)
  PROVE  a = b
BY ModOfSmall DEF Same

-----------------------------------------------------------------------------
(* The engine of the order.                                                *)

\* One reduction is enough for summands and minuends below the modulus.
LEMMA SumReduced ==
  ASSUME NEW m \in Nat \ {0}, NEW a \in 0..(m - 1), NEW b \in 0..(m - 1)
  PROVE  cpModAdd_BNU(a, b, m) \in 0..(m - 1) /\ Same(cpModAdd_BNU(a, b, m), a + b, m)
<1>1. Cap(m) \in Nat /\ m < Cap(m)
  BY ChunksHold
<1> DEFINE z == cpModAdd_BNU(a, b, m)
<1>2. CASE a + b < m
  BY <1>2 DEF cpModAdd_BNU, Same
<1>3. CASE a + b >= m
  <2>1. a + b - m \in 0..(m - 1) /\ a + b - m < Cap(m) /\ a + b - m >= 0
    BY <1>1, <1>3
  <2>2. (a + b - m) % Cap(m) = a + b - m
    BY <1>1, <2>1, ModOfSmall
  <2>3. z = a + b - m
    BY <1>3, <2>2 DEF cpModAdd_BNU
  <2>4. a + b = z + 1 * m /\ z \in Nat /\ a + b \in Nat
    BY <2>1, <2>3
  <2> HIDE DEF z
  <2>5. Same(a + b, z, m)
    BY <2>4, SameRest, 1 \in Int DEF Same
  <2> QED BY <2>1, <2>3, <2>5, SameAs DEF z
<1> QED BY <1>2, <1>3

\* cpModSub_BNU's difference is a number below the modulus, and the sum with it the other one.
LEMMA DifferenceReduced ==
  ASSUME NEW m \in Nat \ {0}, NEW a \in 0..(m - 1), NEW b \in 0..(m - 1)
  PROVE  cpModSub_BNU(a, b, m) \in 0..(m - 1) /\ Same(cpModSub_BNU(a, b, m) + b, a, m)
<1>1. Cap(m) \in Nat /\ m < Cap(m)
  BY ChunksHold
<1> DEFINE z == cpModSub_BNU(a, b, m)
<1>2. CASE a >= b
  <2>1. z = a - b /\ z + b = a
    BY <1>2 DEF cpModSub_BNU
  <2> QED BY <1>2, <2>1 DEF Same
<1>3. CASE a < b
  <2>1. a - b + m \in 0..(m - 1) /\ a - b + m < Cap(m) /\ a - b + m >= 0
    BY <1>1, <1>3
  <2>2. (a - b + m) % Cap(m) = a - b + m
    BY <1>1, <2>1, ModOfSmall
  <2>3. z = a - b + m
    BY <1>3, <2>2 DEF cpModSub_BNU
  <2>4. z + b = a + 1 * m /\ z + b \in Nat /\ a \in Nat
    BY <2>1, <2>3
  <2> HIDE DEF z
  <2>5. Same(z + b, a, m)
    BY <2>4, SameRest, 1 \in Int DEF Same
  <2> QED BY <2>1, <2>3, <2>5 DEF z
<1> QED BY <1>2, <1>3

\* A message no longer than the order is below twice the order.
LEMMA MessageReduced ==
  ASSUME NEW E, Cyclic(E), NEW msg \in Nat, msg < Power2[OrderBitSize(E)]
  PROVE  Reduced(E, msg) \in 0..(E.n - 1) /\ Same(Reduced(E, msg), msg, E.n)
<1> DEFINE m == E.n
           b == MOD_BITSIZE(m)
           z == cpModSub_BNU(msg, m, m)
<1>1. m \in Nat \ {0} /\ m > 0
  BY CurveNumbers
<1>2. b \in Nat \ {0} /\ Power2[b - 1] <= m /\ b - 1 \in Nat
  BY <1>1, BitSize
<1>3. Power2[b] = 2 * Power2[b - 1] /\ Power2[b - 1] \in Nat
  <2>1. (b - 1) + 1 = b
    BY <1>2
  <2> HIDE DEF b
  <2> QED BY <1>2, <2>1, PowerSteps, PowerTyped
<1>4. msg < 2 * m
  BY <1>1, <1>2, <1>3 DEF OrderBitSize
<1> HIDE DEF m, b
<1>5. Cap(m) \in Nat /\ m < Cap(m)
  BY <1>1, ChunksHold
<1>6. CASE msg < m
  <2>1. msg - m + m = msg /\ msg % Cap(m) = msg
    BY <1>1, <1>5, <1>6, ModOfSmall
  <2>2. z = msg
    BY <1>6, <2>1 DEF cpModSub_BNU
  <2> QED BY <1>1, <1>6, <2>2 DEF Reduced, Same, m
<1>7. CASE msg >= m
  <2>1. z = msg - m /\ msg = z + 1 * m /\ z \in 0..(m - 1)
    BY <1>1, <1>4, <1>7 DEF cpModSub_BNU
  <2> HIDE DEF z
  <2>2. Same(msg, z, m)
    BY <1>1, <2>1, SameRest, 1 \in Int DEF Same
  <2> QED BY <2>1, <2>2, SameAs DEF Reduced, z, m
<1> QED BY <1>1, <1>6, <1>7

\* A curve with keys, and inverses modulo its order.
LEMMA OrderInverse ==
  ASSUME NEW E \in KeyCurves, NEW x \in 1..(E.n - 1)
  PROVE  Cyclic(E) /\ InvOrder[E.n][x] \in 1..(E.n - 1) /\ (x * InvOrder[E.n][x]) % E.n = 1
<1>1. Cyclic(E)
  BY SchemeAssumption DEF Cyclic
<1>2. \E y \in 1..(E.n - 1) : (x * y) % E.n = 1
  BY SchemeAssumption
<1>3. InvOrder[E.n][x] = CHOOSE y \in 1..(E.n - 1) : (x * y) % E.n = 1
  BY DEF InvOrder
<1> QED BY <1>1, <1>2, <1>3

\* [k]G + [l]Q is the multiple k + l*d.
LEMMA BaseProduct ==
  ASSUME NEW E \in KeyCurves, Cyclic(E), NEW kx \in Nat, NEW l \in Nat, NEW d \in 1..(E.n - 1)
  PROVE  BasePointProduct(E, kx, l, d) = TimesBase(E, kx + l * d)
<1> DEFINE n == E.n
           o == l % n
<1>1. n \in Nat \ {0} /\ n > 1 /\ d \in 0..(n - 1) /\ d \in Nat
  BY CurveNumbers
<1>2. o \in 0..(n - 1) /\ o \in Nat /\ Same(o, l, n)
  BY <1>1, RestOfRest
<1>3. BaseMultiples[E][d] = TimesBase(E, d)
  BY <1>1, ModOfSmall DEF TimesBase
<1>4. ProductTable[E][d] = Multiples(E, BaseMultiples[E][d])
  BY <1>1 DEF ProductTable
<1>5. ProductTable[E][d][o] = TimesBase(E, o * d)
  <2> HIDE DEF o
  <2>1. Multiples(E, TimesBase(E, d))[o] = TimesBase(E, o * d)
    BY <1>1, <1>2, TableMultiplies
  <2> QED BY <1>3, <1>4, <2>1
<1>6. o * d \in Nat /\ l * d \in Nat
  BY <1>1, <1>2, SMT
<1>7. Same(o * d, l * d, n)
  BY <1>1, <1>2, SameProduct
<1>8. TimesBase(E, o * d) = TimesBase(E, l * d)
  BY <1>6, <1>7, BaseSums
<1>9. BasePointProduct(E, kx, l, d) = Plus(E, TimesBase(E, kx), TimesBase(E, l * d))
  BY <1>5, <1>8 DEF BasePointProduct, TimesBase
<1> QED BY <1>6, <1>9, BaseSums

\* A multiple that is not at infinity is that of a number in the range of ephemeral keys.
LEMMA EphemeralOf ==
  ASSUME NEW E, Cyclic(E), NEW x \in Nat
  PROVE  /\ TimesBase(E, x) # AtInfinity => x % E.n \in 1..(E.n - 1)
         /\ TimesBase(E, x % E.n) = TimesBase(E, x) /\ Same(x % E.n, x, E.n) /\ x % E.n \in 0..(E.n - 1)
         /\ Abscissa(E, TimesBase(E, x)) \in 0..(E.n - 1)
<1>1. E.n \in Nat \ {0}
  BY CurveNumbers
<1>2. x % E.n \in 0..(E.n - 1) /\ Same(x % E.n, x, E.n)
  BY <1>1, RestOfRest
<1>3. TimesBase(E, x) # AtInfinity => x % E.n # 0
  BY BaseInfinity
<1>4. TimesBase(E, x % E.n) = TimesBase(E, x)
  BY BaseSums
<1> DEFINE c == TimesBase(E, x)[1]
<1>5. c \in Nat
  BY BasePoints, CurveNumbers
<1>6. c % E.n \in 0..(E.n - 1)
  <2> HIDE DEF c
  <2> QED BY <1>1, <1>5, RestOfRest
<1> QED BY <1>1, <1>2, <1>3, <1>4, <1>6 DEF Abscissa

\* A number times its inverse drops out.
LEMMA InverseDropped ==
  ASSUME NEW m \in Nat, m > 1, NEW c \in Nat, NEW i \in Nat, NEW z \in Nat, (c * i) % m = 1
  PROVE  Same((c * i) * z, z, m)
<1>1. m \in Nat \ {0} /\ 1 % m = 1
  BY SMT
<1>2. c * i \in Nat /\ 1 * z = z
  BY SMT
<1>3. Same(c * i, 1, m)
  BY <1>1 DEF Same
<1>4. Same((c * i) * z, 1 * z, m)
  BY <1>1, <1>2, <1>3, SameProduct, 1 \in Nat
<1> QED BY <1>2, <1>4

\* (e + d*r)/s = k for s = (e + d*r)/k, and the other way round.
LEMMA DsaNumbers ==
  ASSUME NEW m \in Nat, m > 1, NEW kx \in Nat, NEW ik \in Nat, NEW d \in Nat, NEW rx \in Nat,
         NEW e \in Nat, NEW x \in Nat, NEW sx \in Nat, NEW h \in Nat,
         Same(x, d * rx + e, m), (kx * ik) % m = 1, (sx * h) % m = 1
  PROVE  /\ e * h + (rx * h) * d \in Nat
         /\ Same(sx, x * ik, m) => Same(e * h + (rx * h) * d, kx, m)
         /\ Same(kx, e * h + (rx * h) * d, m) => Same(x * ik, sx, m)
<1> DEFINE w == e * h + (rx * h) * d
           vx == d * rx + e
<1>0. m \in Nat \ {0} /\ w = vx * h /\ w \in Nat /\ vx \in Nat /\ x * ik \in Nat /\ x * h \in Nat /\ sx * kx \in Nat
      /\ kx * sx \in Nat
  BY SMT
<1>1. /\ (x * ik) * kx = (kx * ik) * x /\ (sx * kx) * h = (sx * h) * kx
      /\ (x * h) * sx = (sx * h) * x /\ (kx * sx) * ik = (kx * ik) * sx /\ kx * sx = sx * kx
  BY SMT
<1> HIDE DEF w, vx
<1>2. Same((kx * ik) * x, x, m) /\ Same((sx * h) * kx, kx, m) /\ Same((sx * h) * x, x, m) /\ Same((kx * ik) * sx, sx, m)
  BY InverseDropped
<1>3. Same(x * h, w, m) /\ Same(w, x * h, m)
  BY <1>0, SameProduct, SameAs DEF vx
<1>4. ASSUME Same(sx, x * ik, m) PROVE Same(w, kx, m)
  <2>1. Same(sx * kx, (x * ik) * kx, m)
    BY <1>0, <1>4, SameProduct
  <2>2. Same(sx * kx, x, m)
    BY <1>1, <1>2, <2>1, SameAs
  <2>3. Same((sx * kx) * h, x * h, m)
    BY <1>0, <2>2, SameProduct
  <2>4. Same(x * h, kx, m)
    BY <1>1, <1>2, <2>3, SameAs
  <2> QED BY <1>3, <2>4, SameAs
<1>5. ASSUME Same(kx, w, m) PROVE Same(x * ik, sx, m)
  <2>1. Same(kx, x * h, m)
    BY <1>3, <1>5, SameAs
  <2>2. Same(kx * sx, (x * h) * sx, m)
    BY <1>0, <2>1, SameProduct
  <2>3. Same(x, kx * sx, m)
    BY <1>1, <1>2, <2>2, SameAs
  <2>4. Same(x * ik, (kx * sx) * ik, m)
    BY <1>0, <2>3, SameProduct
  <2> QED BY <1>1, <1>2, <2>4, SameAs
<1> QED BY <1>0, <1>4, <1>5 DEF w

\* SM2: s + t*d = k for s = (k - d*r)/(1 + d) and t = r + s, and the other way round.
LEMMA Sm2Numbers ==
  ASSUME NEW m \in Nat, m > 1, NEW kx \in Nat, NEW d \in Nat, NEW i \in Nat, NEW rx \in Nat,
         NEW sx \in Nat, NEW tx \in Nat, NEW z \in Nat,
         Same(tx, rx + sx, m), Same(z + d * rx, kx, m), ((d + 1) * i) % m = 1
  PROVE  /\ sx + tx * d \in Nat
         /\ Same(sx, i * z, m) => /\ Same(sx + tx * d, kx, m)
                                  /\ tx = 0 => Same(kx + rx, 0, m)
         /\ Same(kx, sx + tx * d, m) => /\ Same(i * z, sx, m)
                                        /\ Same(kx + rx, 0, m) => Same(tx, 0, m)
<1> DEFINE D == d + 1
           q == d * rx
<1>0. /\ m \in Nat \ {0} /\ D \in Nat /\ q \in Nat /\ tx * d \in Nat /\ (rx + sx) * d \in Nat
      /\ i * z \in Nat /\ D * sx \in Nat /\ sx * D \in Nat /\ tx * D \in Nat /\ rx + sx \in Nat /\ z + q \in Nat
  BY SMT
<1>1. /\ sx + (rx + sx) * d = sx * D + q
      /\ (i * z) * D = (D * i) * z
      /\ (sx * D) * i = (D * i) * sx /\ z * i = i * z
      /\ tx + tx * d = tx * D /\ 0 * D = 0
  BY SMT
<1>2. Same((D * i) * z, z, m) /\ Same((D * i) * sx, sx, m)
  BY <1>0, InverseDropped
<1> HIDE DEF D, q
<1>3. Same(sx + tx * d, sx * D + q, m)
  <2>1. Same(tx * d, (rx + sx) * d, m)
    BY <1>0, SameProduct
  <2>2. Same(tx * d + sx, (rx + sx) * d + sx, m)
    BY <1>0, <2>1, SameSum
  <2>3. tx * d + sx = sx + tx * d /\ (rx + sx) * d + sx = sx + (rx + sx) * d
    BY <1>0
  <2> QED BY <1>1, <2>2, <2>3
<1>4. ASSUME Same(sx, i * z, m) PROVE Same(sx + tx * d, kx, m) /\ (tx = 0 => Same(kx + rx, 0, m))
  <2>1. Same(sx * D, (i * z) * D, m)
    BY <1>0, <1>4, SameProduct
  <2>2. Same(sx * D, z, m)
    BY <1>1, <1>2, <2>1, SameAs
  <2>3. Same(sx * D + q, z + q, m)
    BY <1>0, <2>2, SameSum
  <2>4. Same(sx + tx * d, kx, m)
    BY <1>3, <2>3, SameAs DEF q
  <2>5. ASSUME tx = 0 PROVE Same(kx + rx, 0, m)
    <3>1. sx + tx * d = sx
      BY <2>5
    <3>2. Same(sx + rx, kx + rx, m)
      BY <1>0, <2>4, <3>1, SameSum
    <3>3. Same(0, sx + rx, m)
      <4>1. rx + sx = sx + rx
        OBVIOUS
      <4> QED BY <2>5, <4>1
    <3> QED BY <3>2, <3>3, SameAs
  <2> QED BY <2>4, <2>5
<1>5. ASSUME Same(kx, sx + tx * d, m) PROVE Same(i * z, sx, m) /\ (Same(kx + rx, 0, m) => Same(tx, 0, m))
  <2>1. Same(z + q, sx * D + q, m)
    BY <1>3, <1>5, SameAs DEF q
  <2>2. Same(z, sx * D, m)
    BY <1>0, <2>1, SumCancelled
  <2>3. Same(z * i, (sx * D) * i, m)
    BY <1>0, <2>2, SameProduct
  <2>4. Same(i * z, sx, m)
    BY <1>1, <1>2, <2>3, SameAs
  <2>5. ASSUME Same(kx + rx, 0, m) PROVE Same(tx, 0, m)
    <3> DEFINE y == sx + tx * d
    <3>1. y \in Nat /\ y + rx = (rx + sx) + tx * d
      BY <1>0
    <3>2. Same(tx + tx * d, (rx + sx) + tx * d, m)
      BY <1>0, SameSum
    <3> HIDE DEF y
    <3>3. Same(kx, y, m)
      BY <1>5 DEF y
    <3>4. Same(kx + rx, y + rx, m)
      BY <1>0, <3>1, <3>3, SameSum
    <3>5. Same(tx * D, y + rx, m)
      BY <1>1, <3>1, <3>2
    <3>6. Same(tx * D, 0, m)
      BY <2>5, <3>4, <3>5, SameAs
    <3>7. Same(tx * D, 0 * D, m)
      BY <1>1, <3>6
    <3> QED BY <1>0, <3>7, FactorCancelled, 0 \in Nat DEF D
  <2> QED BY <2>4, <2>5
<1> QED BY <1>0, <1>4, <1>5

-----------------------------------------------------------------------------
(* Signatures: ECDSA, ECNR and SM2.                                        *)

\* What a signature is made of: numbers of the order, and the rest of the message.
LEMMA SignatureNumbers ==
  ASSUME NEW E \in KeyCurves, NEW msg \in Nat, msg < Power2[OrderBitSize(E)]
  PROVE  /\ Cyclic(E) /\ E.n \in Nat /\ E.n > 1 /\ E.n \in Nat \ {0} /\ E.n - 1 \in Nat
         /\ \A x \in 1..(E.n - 1) : x \in Nat /\ x \in 0..(E.n - 1)
         /\ Reduced(E, msg) \in 0..(E.n - 1) /\ Reduced(E, msg) \in Nat
         /\ \A x \in 1..(E.n - 1) : /\ InvOrder[E.n][x] \in 1..(E.n - 1)
                                    /\ (x * InvOrder[E.n][x]) % E.n = 1
         /\ \A x \in Nat : x % E.n \in 0..(E.n - 1) /\ x % E.n \in Nat /\ Same(x % E.n, x, E.n)
<1>1. Cyclic(E)
  BY SchemeAssumption DEF Cyclic
<1>2. Reduced(E, msg) \in 0..(E.n - 1)
  BY <1>1, MessageReduced
<1>3. E.n \in Nat /\ E.n > 1 /\ E.n \in Nat \ {0} /\ E.n - 1 \in Nat
  BY <1>1, CurveNumbers
<1>4. \A x \in 1..(E.n - 1) : x \in Nat /\ x \in 0..(E.n - 1)
  BY <1>3
<1>5. Reduced(E, msg) \in Nat
  BY <1>2, <1>3
<1>6. \A x \in 1..(E.n - 1) : /\ InvOrder[E.n][x] \in 1..(E.n - 1)
                              /\ (x * InvOrder[E.n][x]) % E.n = 1
  BY OrderInverse
<1>7. \A x \in Nat : x % E.n \in 0..(E.n - 1) /\ x % E.n \in Nat /\ Same(x % E.n, x, E.n)
  BY <1>3, RestOfRest
<1> QED BY <1>1, <1>2, <1>3, <1>4, <1>5, <1>6, <1>7, Zenon

\* A key of 1..n-1 is its own rest, and its multiple is not at infinity.
LEMMA KeyMultiple ==
  ASSUME NEW E, Cyclic(E), NEW kx \in 1..(E.n - 1)
  PROVE  TimesBase(E, kx) # AtInfinity /\ kx % E.n = kx
<1>1. E.n \in Nat \ {0} /\ kx \in 0..(E.n - 1) /\ kx \in Nat
  BY CurveNumbers
<1>2. kx % E.n = kx
  BY <1>1, ModOfSmall
<1> QED BY <1>1, <1>2, BaseInfinity

\* What SignDSA makes VerifyDSA accepts.
LEMMA DsaAccepted ==
  ASSUME NEW E \in KeyCurves, NEW d \in 1..(E.n - 1), NEW kx \in 1..(E.n - 1), NEW msg \in Nat,
         msg < Power2[OrderBitSize(E)], Len(ippsGFpECSignDSA(E, d, kx, msg)) = 2
  PROVE  ippsGFpECVerifyDSA(E, d, msg, ippsGFpECSignDSA(E, d, kx, msg))
<1> DEFINE n == E.n
           e == Reduced(E, msg)
           ik == InvOrder[n][kx]
<1>1. /\ Cyclic(E) /\ n \in Nat /\ n > 1 /\ n \in Nat \ {0} /\ e \in 0..(n - 1) /\ e \in Nat
      /\ ik \in 1..(n - 1) /\ ik \in Nat /\ (kx * ik) % n = 1 /\ d \in Nat /\ kx \in Nat
      /\ \A y \in Nat : y % n \in 0..(n - 1) /\ y % n \in Nat /\ Same(y % n, y, n)
      /\ \A y \in 1..(n - 1) : InvOrder[n][y] \in 1..(n - 1) /\ (y * InvOrder[n][y]) % n = 1
  BY SignatureNumbers, Zenon
<1> DEFINE rx == Abscissa(E, TimesBase(E, kx))
           q == (d * rx) % n
           x == cpModAdd_BNU(q, e, n)
           sx == (x * ik) % n
           sig == <<rx, sx>>
           h == InvOrder[n][sx]
           P == BasePointProduct(E, e * h, rx * h, d)
<1>2. rx \in 0..(n - 1) /\ rx \in Nat
  BY <1>1, EphemeralOf
<1>3. ippsGFpECSignDSA(E, d, kx, msg) = IF rx = 0 \/ x = 0 THEN EphemeralKeyErr ELSE sig
  BY DEF ippsGFpECSignDSA
<1> HIDE DEF n, e, rx, x, ik, sx, h, q
<1>4. ippsGFpECSignDSA(E, d, kx, msg) = sig /\ rx # 0 /\ x # 0
  <2>1. Len(EphemeralKeyErr) = 0
    BY DEF EphemeralKeyErr
  <2> QED BY <1>3, <2>1
<1>5. d * rx \in Nat /\ q \in 0..(n - 1) /\ q \in Nat /\ Same(q, d * rx, n)
  <2>1. d * rx \in Nat
    BY <1>1, <1>2, SMT
  <2> QED BY <1>1, <2>1 DEF q
<1>6. x \in 0..(n - 1) /\ x \in Nat /\ Same(x, d * rx + e, n)
  <2>1. x \in 0..(n - 1) /\ Same(x, q + e, n)
    BY <1>1, <1>5, SumReduced DEF x
  <2>2. Same(q + e, d * rx + e, n)
    BY <1>1, <1>5, SameSum
  <2>3. Same(x, d * rx + e, n)
    BY <2>1, <2>2, SameAs, Zenon
  <2> QED BY <1>1, <2>1, <2>3
<1>7. x * ik \in Nat /\ sx \in 0..(n - 1) /\ sx \in Nat /\ Same(sx, x * ik, n)
  <2>1. x * ik \in Nat
    BY <1>1, <1>6, SMT
  <2> QED BY <1>1, <2>1 DEF sx
<1>8. sx # 0
  <2>1. SUFFICES ASSUME sx = 0 PROVE FALSE
    OBVIOUS
  <2>2. Same(x * ik, 0 * ik, n)
    <3>1. 0 * ik = 0
      BY <1>1
    <3> QED BY <1>7, <2>1, <3>1, SameAs
  <2>3. ik * kx = kx * ik
    BY <1>1, SMT
  <2>4. Same(x, 0, n)
    BY <1>1, <1>6, <2>2, <2>3, FactorCancelled, 0 \in Nat
  <2> QED BY <1>1, <1>4, <1>6, <2>4, SmallSame
<1>9. h \in 1..(n - 1) /\ h \in Nat /\ (sx * h) % n = 1 /\ sx \in 1..(n - 1) /\ rx \in 1..(n - 1)
  BY <1>1, <1>2, <1>4, <1>7, <1>8 DEF h
<1>10. e * h + (rx * h) * d \in Nat /\ Same(e * h + (rx * h) * d, kx, n)
  BY <1>1, <1>2, <1>6, <1>7, <1>9, DsaNumbers
<1>11. e * h \in Nat /\ rx * h \in Nat
  BY <1>1, <1>2, <1>9, SMT
<1>12. P = TimesBase(E, e * h + (rx * h) * d)
  BY <1>1, <1>11, BaseProduct DEF n
<1>13. P = TimesBase(E, kx)
  <2> DEFINE w == e * h + (rx * h) * d
  <2>1. w \in Nat /\ Same(w, kx, n) /\ P = TimesBase(E, w)
    BY <1>10, <1>12
  <2> HIDE DEF w, P
  <2> QED BY <1>1, <2>1, BaseSums DEF n
<1>14. P # AtInfinity /\ Abscissa(E, P) = rx
  BY <1>1, <1>13, KeyMultiple DEF rx
<1>15. InRange(E, sig)
  BY <1>9 DEF InRange, n
<1>16. ippsGFpECVerifyDSA(E, d, msg, sig) <=> InRange(E, sig) /\ P # AtInfinity /\ Abscissa(E, P) = rx
  BY DEF ippsGFpECVerifyDSA, h, e, n
<1> QED BY <1>4, <1>14, <1>15, <1>16

\* What VerifyDSA accepts SignDSA can make.
LEMMA DsaMakable ==
  ASSUME NEW E \in KeyCurves, NEW d \in 1..(E.n - 1), NEW msg \in Nat, NEW rx \in Nat, NEW sx \in Nat,
         msg < Power2[OrderBitSize(E)], ippsGFpECVerifyDSA(E, d, msg, <<rx, sx>>)
  PROVE  \E kx \in 1..(E.n - 1) : ippsGFpECSignDSA(E, d, kx, msg) = <<rx, sx>>
<1> DEFINE n == E.n
           e == Reduced(E, msg)
<1>1. /\ Cyclic(E) /\ n \in Nat /\ n > 1 /\ n \in Nat \ {0} /\ e \in 0..(n - 1) /\ e \in Nat /\ d \in Nat
      /\ \A y \in Nat : y % n \in 0..(n - 1) /\ y % n \in Nat /\ Same(y % n, y, n)
      /\ \A y \in 1..(n - 1) : InvOrder[n][y] \in 1..(n - 1) /\ (y * InvOrder[n][y]) % n = 1
  BY SignatureNumbers, Zenon
<1> DEFINE h == InvOrder[n][sx]
           w == e * h + (rx * h) * d
           P == BasePointProduct(E, e * h, rx * h, d)
           kx == w % n
           q == (d * rx) % n
           x == cpModAdd_BNU(q, e, n)
           ik == InvOrder[n][kx]
<1>2. /\ rx \in 1..(n - 1) /\ sx \in 1..(n - 1) /\ sx \in 0..(n - 1) /\ rx \in 0..(n - 1)
      /\ P # AtInfinity /\ Abscissa(E, P) = rx
  BY <1>1 DEF ippsGFpECVerifyDSA, InRange
<1>3. h \in 1..(n - 1) /\ h \in Nat /\ (sx * h) % n = 1
  BY <1>1, <1>2
<1>4. e * h \in Nat /\ rx * h \in Nat /\ d * rx \in Nat /\ w \in Nat
  <2>1. e \in Nat /\ h \in Nat /\ d \in Nat
    BY <1>1, <1>3
  <2> HIDE DEF n, e, h
  <2> QED BY <2>1, SMT
<1>5. P = TimesBase(E, w)
  <2> HIDE DEF n, e, h
  <2> QED BY <1>1, <1>4, BaseProduct DEF n
<1> HIDE DEF w
<1>6. kx \in 1..(n - 1) /\ TimesBase(E, kx) = P /\ Same(kx, w, n)
  BY <1>1, <1>2, <1>4, <1>5, EphemeralOf
<1>7. kx \in Nat /\ ik \in 1..(n - 1) /\ ik \in Nat /\ (kx * ik) % n = 1
  BY <1>1, <1>6
<1> HIDE DEF n, e, h, P, kx, ik
<1>8. q \in 0..(n - 1) /\ q \in Nat /\ Same(q, d * rx, n)
  BY <1>1, <1>4
<1> HIDE DEF q
<1>9. x \in 0..(n - 1) /\ x \in Nat /\ Same(x, d * rx + e, n)
  <2>1. x \in 0..(n - 1) /\ Same(x, q + e, n)
    BY <1>1, <1>8, SumReduced
  <2>2. Same(q + e, d * rx + e, n)
    BY <1>1, <1>4, <1>8, SameSum
  <2> HIDE DEF x
  <2>3. Same(x, d * rx + e, n)
    BY <2>1, <2>2, SameAs, Zenon
  <2> QED BY <1>1, <2>1, <2>3
<1> HIDE DEF x
<1>10. x * ik \in Nat /\ Same(x * ik, sx, n)
  <2>1. x * ik \in Nat
    BY <1>7, <1>9, SMT
  <2>2. Same(kx, e * h + (rx * h) * d, n)
    BY <1>6 DEF w
  <2> QED BY <1>1, <1>3, <1>7, <1>9, <2>1, <2>2, DsaNumbers
<1>11. (x * ik) % n = sx
  <2> DEFINE vx == x * ik
  <2>1. vx \in Nat /\ Same(vx, sx, n)
    BY <1>10
  <2> HIDE DEF vx
  <2>2. vx % n \in 0..(n - 1) /\ Same(vx % n, sx, n)
    BY <1>1, <2>1, SameAs
  <2>3. vx % n = sx
    BY <1>1, <1>2, <2>2, SmallSame
  <2> QED BY <2>3 DEF vx
<1>12. x # 0
  <2>1. SUFFICES ASSUME x = 0 PROVE FALSE
    OBVIOUS
  <2>2. x * ik = 0 /\ 0 % n = 0
    BY <1>1, <1>7, <2>1
  <2> QED BY <1>2, <1>11, <2>2
<1>13. Abscissa(E, TimesBase(E, kx)) = rx
  BY <1>2, <1>6
<1>14. ippsGFpECSignDSA(E, d, kx, msg) = <<rx, sx>>
  <2>1. ippsGFpECSignDSA(E, d, kx, msg) = IF rx = 0 \/ x = 0 THEN EphemeralKeyErr ELSE <<rx, (x * ik) % n>>
    BY <1>13, Zenon DEF ippsGFpECSignDSA, x, q, e, ik, n
  <2> QED BY <1>2, <1>11, <1>12, <2>1
<1> QED BY <1>6, <1>14 DEF n

\* A product reduced and added is the product added.
LEMMA ProductAdded ==
  ASSUME NEW m \in Nat \ {0}, NEW p \in Nat, NEW z \in Nat
  PROVE  p % m \in 0..(m - 1) /\ Same(z + (p % m), z + p, m)
<1>1. p % m \in 0..(m - 1) /\ p % m \in Nat /\ Same(p % m, p, m)
  BY RestOfRest
<1> DEFINE o == p % m
<1>2. o \in Nat /\ Same(o, p, m)
  BY <1>1
<1> HIDE DEF o
<1>3. Same(o + z, p + z, m) /\ o + z = z + o /\ p + z = z + p
  BY <1>2, SameSum
<1>4. Same(z + o, z + p, m)
  BY <1>3
<1> QED BY <1>1, <1>4 DEF o

\* What SignNR makes VerifyNR accepts, but for s = 0.
LEMMA NrAccepted ==
  ASSUME NEW E \in KeyCurves, NEW d \in 1..(E.n - 1), NEW kx \in 1..(E.n - 1), NEW msg \in Nat,
         msg < Power2[OrderBitSize(E)], Len(ippsGFpECSignNR(E, d, kx, msg)) = 2
  PROVE  LET sig == ippsGFpECSignNR(E, d, kx, msg)
         IN  sig[2] = 0 \/ (msg < E.n /\ ippsGFpECVerifyNR(E, d, msg, sig))
<1> DEFINE n == E.n
           a == Abscissa(E, TimesBase(E, kx))
           rx == cpModAdd_BNU(a, msg, n)
           q == (d * rx) % n
           sx == cpModSub_BNU(kx, q, n)
           P == BasePointProduct(E, sx, rx, d)
<1>1. /\ Cyclic(E) /\ n \in Nat /\ n > 1 /\ n \in Nat \ {0} /\ d \in Nat /\ kx \in Nat /\ kx \in 0..(n - 1)
  BY SignatureNumbers
<1>2. a \in 0..(n - 1) /\ a \in Nat
  BY <1>1, EphemeralOf
<1>3. ippsGFpECSignNR(E, d, kx, msg) = IF msg >= n THEN MessageErr
                                       ELSE IF rx = 0 THEN EphemeralKeyErr ELSE <<rx, sx>>
  BY DEF ippsGFpECSignNR
<1> HIDE DEF n, a, rx, q, sx, P
<1>4. ippsGFpECSignNR(E, d, kx, msg) = <<rx, sx>> /\ rx # 0 /\ msg < n
  <2>1. Len(EphemeralKeyErr) = 0 /\ Len(MessageErr) = 1
    BY DEF EphemeralKeyErr, MessageErr
  <2> QED BY <1>1, <1>3, <2>1
<1>5. rx \in 0..(n - 1) /\ rx \in Nat /\ Same(rx, a + msg, n) /\ msg \in 0..(n - 1) /\ rx \in 1..(n - 1)
  BY <1>1, <1>2, <1>4, SumReduced DEF rx
<1>6. d * rx \in Nat /\ q \in 0..(n - 1) /\ q \in Nat
  <2>1. d * rx \in Nat
    BY <1>1, <1>5, SMT
  <2> QED BY <1>1, <2>1, RestOfRest DEF q
<1>7. sx \in 0..(n - 1) /\ sx \in Nat /\ Same(sx + q, kx, n)
  BY <1>1, <1>6, DifferenceReduced DEF sx
<1>8. Same(sx + q, sx + d * rx, n)
  BY <1>1, <1>6, <1>7, ProductAdded DEF q
<1>9. rx * d = d * rx /\ rx * d \in Nat /\ sx + rx * d \in Nat
  BY <1>1, <1>5, <1>7, SMT
<1>10. Same(sx + rx * d, kx, n)
  <2>1. Same(sx + d * rx, kx, n)
    BY <1>7, <1>8, SameAs, Zenon
  <2> QED BY <1>9, <2>1
<1>11. P = TimesBase(E, sx + rx * d)
  BY <1>1, <1>5, <1>7, BaseProduct DEF P, n
<1>12. P = TimesBase(E, kx)
  BY <1>1, <1>9, <1>10, <1>11, BaseSums DEF n
<1>13. P # AtInfinity /\ Abscissa(E, P) = a
  BY <1>1, <1>12, KeyMultiple DEF a
<1>14. cpModSub_BNU(rx, a, n) = msg
  <2> DEFINE z == cpModSub_BNU(rx, a, n)
  <2>1. z \in 0..(n - 1) /\ Same(z + a, rx, n)
    BY <1>1, <1>2, <1>5, DifferenceReduced
  <2> HIDE DEF z
  <2>2. a + msg = msg + a /\ z \in Nat
    BY <1>2, <2>1
  <2>3. Same(z + a, msg + a, n)
    BY <1>5, <2>1, <2>2, SameAs, Zenon
  <2>4. Same(z, msg, n)
    BY <1>1, <1>2, <2>2, <2>3, SumCancelled
  <2>5. z = msg
    BY <1>1, <1>5, <2>1, <2>4, SmallSame
  <2> QED BY <2>5 DEF z
<1>15. sx # 0 => InRange(E, <<rx, sx>>)
  BY <1>5, <1>7 DEF InRange, n
<1>16. ippsGFpECVerifyNR(E, d, msg, <<rx, sx>>) <=>
         InRange(E, <<rx, sx>>) /\ P # AtInfinity /\ cpModSub_BNU(rx, Abscissa(E, P), n) = msg
  BY DEF ippsGFpECVerifyNR, P, n
<1> QED BY <1>4, <1>13, <1>14, <1>15, <1>16 DEF n

\* What VerifyNR accepts SignNR can make.
LEMMA NrMakable ==
  ASSUME NEW E \in KeyCurves, NEW d \in 1..(E.n - 1), NEW msg \in Nat, NEW rx \in Nat, NEW sx \in Nat,
         msg < Power2[OrderBitSize(E)], msg < E.n, ippsGFpECVerifyNR(E, d, msg, <<rx, sx>>)
  PROVE  \E kx \in 1..(E.n - 1) : ippsGFpECSignNR(E, d, kx, msg) = <<rx, sx>>
<1> DEFINE n == E.n
           w == sx + rx * d
           P == BasePointProduct(E, sx, rx, d)
           kx == w % n
           a == Abscissa(E, TimesBase(E, kx))
           q == (d * rx) % n
           z == cpModSub_BNU(kx, q, n)
<1>1. /\ Cyclic(E) /\ n \in Nat /\ n > 1 /\ n \in Nat \ {0} /\ d \in Nat
  BY SignatureNumbers
<1>2. /\ rx \in 1..(n - 1) /\ sx \in 1..(n - 1) /\ sx \in 0..(n - 1) /\ rx \in 0..(n - 1)
      /\ P # AtInfinity /\ cpModSub_BNU(rx, Abscissa(E, P), n) = msg
  BY <1>1 DEF ippsGFpECVerifyNR, InRange
<1>3. w \in Nat /\ d * rx \in Nat /\ rx * d = d * rx
  BY <1>1, SMT
<1>4. P = TimesBase(E, w)
  BY <1>1, BaseProduct
<1> HIDE DEF w, P
<1>5. kx \in 1..(n - 1) /\ TimesBase(E, kx) = P /\ Same(kx, w, n) /\ Abscissa(E, P) \in 0..(n - 1)
  BY <1>1, <1>2, <1>3, <1>4, EphemeralOf
<1>6. kx \in 0..(n - 1) /\ kx \in Nat /\ a = Abscissa(E, P) /\ a \in 0..(n - 1) /\ a \in Nat
  BY <1>1, <1>5
<1> HIDE DEF n, kx, a
<1>7. q \in 0..(n - 1) /\ q \in Nat /\ Same(sx + q, sx + d * rx, n)
  <2> DEFINE p == d * rx
  <2>1. p \in Nat /\ sx \in Nat /\ n \in Nat \ {0}
    BY <1>1, <1>3
  <2> HIDE DEF p
  <2>2. p % n \in 0..(n - 1) /\ p % n \in Nat /\ Same(sx + (p % n), sx + p, n)
    BY <2>1, ProductAdded, RestOfRest
  <2> QED BY <2>2 DEF p
<1> HIDE DEF q, z
<1>8. z \in 0..(n - 1) /\ z \in Nat /\ Same(z + q, kx, n)
  <2>1. z \in 0..(n - 1) /\ Same(z + q, kx, n)
    BY <1>1, <1>6, <1>7, DifferenceReduced, Zenon DEF z
  <2> QED BY <1>1, <2>1
<1>9. z = sx
  <2>1. Same(kx, sx + d * rx, n)
    <3>1. w = sx + d * rx
      BY <1>3 DEF w
    <3> QED BY <1>5, <3>1
  <2>2. Same(z + q, sx + q, n)
    BY <1>7, <1>8, <2>1, SameAs, Zenon
  <2>3. Same(z, sx, n)
    BY <1>1, <1>7, <1>8, <2>2, SumCancelled
  <2> QED BY <1>1, <1>2, <1>8, <2>3, SmallSame
<1>10. cpModAdd_BNU(a, msg, n) = rx
  <2> DEFINE c == cpModAdd_BNU(a, msg, n)
  <2>0. msg \in 0..(n - 1)
    BY <1>1 DEF n
  <2>1. c \in 0..(n - 1) /\ Same(c, a + msg, n)
    BY <1>1, <1>6, <2>0, SumReduced
  <2>2. Same(msg + a, rx, n)
    BY <1>1, <1>2, <1>6, DifferenceReduced
  <2> HIDE DEF c
  <2>3. a + msg = msg + a
    BY <1>6
  <2>4. Same(c, rx, n)
    BY <2>1, <2>2, <2>3, SameAs, Zenon
  <2>5. c = rx
    BY <1>1, <1>2, <2>1, <2>4, SmallSame
  <2> QED BY <2>5 DEF c
<1>11. ippsGFpECSignNR(E, d, kx, msg) = <<rx, sx>>
  <2>1. ippsGFpECSignNR(E, d, kx, msg) = IF msg >= n THEN MessageErr
                                         ELSE IF rx = 0 THEN EphemeralKeyErr ELSE <<rx, z>>
    BY <1>10, Zenon DEF ippsGFpECSignNR, z, q, a, n
  <2>2. msg < n
    BY DEF n
  <2> QED BY <1>1, <1>2, <1>9, <2>1, <2>2
<1> QED BY <1>5, <1>11 DEF n

\* An order of more chunks than the modulus is the larger number.
LEMMA MoreChunks ==
  ASSUME NEW n \in Nat \ {0}, NEW p \in Nat \ {0}, MOD_LEN(n) > MOD_LEN(p)
  PROVE  p < n
<1> DEFINE b == MOD_BITSIZE(n)
           c == MOD_BITSIZE(p)
<1>1. SUFFICES ASSUME n <= p PROVE FALSE
  OBVIOUS
<1>2. /\ b \in Nat \ {0} /\ Power2[b - 1] <= n /\ c \in Nat \ {0} /\ p < Power2[c]
      /\ Power2[b - 1] \in Nat /\ Power2[c] \in Nat
  BY BitSize, PowerTyped
<1>3. Power2[b - 1] < Power2[c]
  BY <1>1, <1>2
<1>4. MOD_LEN(n) = (b + CHUNK_BITS - 1) \div CHUNK_BITS /\ MOD_LEN(p) = (c + CHUNK_BITS - 1) \div CHUNK_BITS
  BY DEF MOD_LEN
<1> HIDE DEF b, c
<1>5. b - 1 < c
  BY <1>2, <1>3, PowerOrder
<1> DEFINE x == b + CHUNK_BITS - 1
           y == c + CHUNK_BITS - 1
<1>6. x \in Nat /\ y \in Nat /\ x <= y /\ CHUNK_BITS \in Nat \ {0}
  BY <1>2, <1>5, ChunkAssumption
<1> HIDE DEF x, y
<1>7. x \div CHUNK_BITS <= y \div CHUNK_BITS
  <2> DEFINE ux == x \div CHUNK_BITS
             vx == y \div CHUNK_BITS
  <2>1. /\ ux \in Nat /\ vx \in Nat
        /\ x = CHUNK_BITS * ux + (x % CHUNK_BITS) /\ x % CHUNK_BITS \in 0..(CHUNK_BITS - 1)
        /\ y = CHUNK_BITS * vx + (y % CHUNK_BITS) /\ y % CHUNK_BITS \in 0..(CHUNK_BITS - 1)
    BY <1>6, DivMod
  <2> HIDE DEF ux, vx
  <2>2. SUFFICES ASSUME ux >= vx + 1 PROVE FALSE
    BY <2>1 DEF ux, vx
  <2>3. CHUNK_BITS * ux >= CHUNK_BITS * vx + CHUNK_BITS
    <3>1. ux - vx \in Nat \ {0} /\ CHUNK_BITS * ux = CHUNK_BITS * vx + CHUNK_BITS * (ux - vx)
      BY <1>6, <2>1, <2>2, SMT
    <3>2. CHUNK_BITS * (ux - vx) >= CHUNK_BITS
      BY <1>6, <3>1, OneBlock
    <3>3. CHUNK_BITS * vx \in Nat /\ CHUNK_BITS * (ux - vx) \in Nat
      BY <1>6, <2>1, <3>1, SMT
    <3> QED BY <3>1, <3>2, <3>3, <1>6
  <2>4. CHUNK_BITS * ux \in Nat /\ CHUNK_BITS * vx \in Nat
    BY <1>6, <2>1, SMT
  <2> QED BY <1>6, <2>1, <2>3, <2>4
<1>8. x \div CHUNK_BITS \in Nat /\ y \div CHUNK_BITS \in Nat
  BY <1>6, DivMod
<1> QED BY <1>4, <1>7, <1>8 DEF x, y

\* Without a chunk that stays it is the abscissa of the product.
LEMMA Sm2AbscissaIs ==
  ASSUME NEW E \in KeyCurves, Cyclic(E), NEW d \in 1..(E.n - 1), NEW sx \in Nat, NEW tx \in Nat,
         tx # 0, tx < Cap(E.p), NEW w \in Nat, BasePointProduct(E, sx, tx, d) = TimesBase(E, w)
  PROVE  SM2Abscissa(E, d, sx, tx) = Abscissa(E, TimesBase(E, w))
<1> DEFINE c == TimesBase(E, w)[1]
           C == Cap(E.p)
           z == tx \div C
<1>1. E.n \in Nat \ {0} /\ E.p \in Nat \ {0}
  BY CurveNumbers
<1>2. C \in Nat \ {0}
  BY <1>1, ChunksHold
<1>3. z = 0
  <2> HIDE DEF C
  <2>1. z \in Nat /\ tx = C * z + (tx % C) /\ tx % C \in 0..(C - 1)
    BY <1>2, DivMod
  <2>2. tx < C
    BY DEF C
  <2> HIDE DEF z
  <2>3. z # 0 => C * z >= C /\ C * z \in Nat
    BY <1>2, <2>1, OneBlock
  <2> QED BY <1>2, <2>1, <2>2, <2>3
<1>4. c \in 0..(E.p - 1)
  BY BasePoints
<1>5. MOD_LEN(E.n) > MOD_LEN(E.p) => c % E.n = c
  <2>1. SUFFICES ASSUME MOD_LEN(E.n) > MOD_LEN(E.p) PROVE c % E.n = c
    OBVIOUS
  <2>2. E.p < E.n
    BY <1>1, <2>1, MoreChunks
  <2> HIDE DEF c
  <2>3. c \in 0..(E.n - 1)
    BY <1>1, <1>4, <2>2
  <2> QED BY <1>1, <2>3, ModOfSmall
<1>6. SM2Abscissa(E, d, sx, tx) = z * C + IF MOD_LEN(E.n) > MOD_LEN(E.p) THEN c ELSE c % E.n
  BY DEF SM2Abscissa, Abscissa
<1> HIDE DEF c, z, C
<1>7. c \in Nat /\ c % E.n \in Nat /\ z * C = 0
  <2>1. c \in Nat /\ z * C = 0
    BY <1>1, <1>2, <1>3, <1>4
  <2> QED BY <1>1, <2>1, RestOfRest
<1>8. SM2Abscissa(E, d, sx, tx) = c % E.n
  BY <1>5, <1>6, <1>7
<1> QED BY <1>8 DEF c, Abscissa

\* What SignSM2 makes VerifySM2 accepts, unless it keeps a chunk.
LEMMA Sm2Accepted ==
  ASSUME NEW E \in KeyCurves, NEW d \in 1..(E.n - 2), NEW kx \in 1..(E.n - 1), NEW msg \in Nat,
         msg < Power2[OrderBitSize(E)], Len(ippsGFpECSignSM2(E, d, kx, msg)) = 2
  PROVE  LET sig == ippsGFpECSignSM2(E, d, kx, msg)
         IN  SM2ChunkKept(E, "SM2", sig) \/ ippsGFpECVerifySM2(E, d, msg, sig)
<1> DEFINE n == E.n
           e == Reduced(E, msg)
           i == InvOrder[n][d + 1]
<1>0. n \in Nat /\ n > 1
  BY SignatureNumbers
<1>1. d \in 1..(n - 1) /\ d + 1 \in 1..(n - 1) /\ kx \in 0..(n - 1) /\ kx \in Nat /\ d \in Nat
  BY <1>0
<1>2. /\ Cyclic(E) /\ n \in Nat /\ n > 1 /\ n \in Nat \ {0} /\ e \in 0..(n - 1) /\ e \in Nat
      /\ i \in 1..(n - 1) /\ ((d + 1) * i) % n = 1
      /\ \A y \in Nat : y % n \in 0..(n - 1) /\ y % n \in Nat /\ Same(y % n, y, n)
  BY <1>1, SignatureNumbers, Zenon
<1> DEFINE a == Abscissa(E, TimesBase(E, kx))
           rx == cpModAdd_BNU(a, e, n)
           t1 == cpModAdd_BNU(kx, rx, n)
           q == (d * rx) % n
           z == cpModSub_BNU(kx, q, n)
           sx == (i * z) % n
           tx == cpModAdd_BNU(rx, sx, n)
<1>3. a \in 0..(n - 1) /\ a \in Nat /\ i \in Nat
  BY <1>1, <1>2, EphemeralOf
<1>4. ippsGFpECSignSM2(E, d, kx, msg) = IF rx = 0 \/ t1 = 0 \/ sx = 0 THEN EphemeralKeyErr ELSE <<rx, sx>>
  BY DEF ippsGFpECSignSM2
<1> HIDE DEF n, e, i, a, rx, t1, q, z, sx, tx
<1>5. ippsGFpECSignSM2(E, d, kx, msg) = <<rx, sx>> /\ rx # 0 /\ t1 # 0 /\ sx # 0
  <2>1. Len(EphemeralKeyErr) = 0
    BY DEF EphemeralKeyErr
  <2> QED BY <1>4, <2>1
<1>6. rx \in 0..(n - 1) /\ rx \in Nat /\ Same(rx, a + e, n) /\ rx \in 1..(n - 1)
  BY <1>2, <1>3, <1>5, SumReduced DEF rx
<1>7. d * rx \in Nat /\ q \in 0..(n - 1) /\ q \in Nat
  <2>1. d * rx \in Nat
    BY <1>1, <1>6, SMT
  <2> QED BY <1>2, <2>1, RestOfRest DEF q
<1>8. z \in 0..(n - 1) /\ z \in Nat /\ Same(z + q, kx, n)
  <2>1. z \in 0..(n - 1) /\ Same(z + q, kx, n)
    BY <1>1, <1>2, <1>7, DifferenceReduced, Zenon DEF z
  <2> QED BY <1>2, <2>1
<1>9. Same(z + d * rx, kx, n)
  <2>1. Same(z + q, z + d * rx, n)
    BY <1>2, <1>7, <1>8, ProductAdded DEF q
  <2> QED BY <1>8, <2>1, SameAs, Zenon
<1>10. sx \in 0..(n - 1) /\ sx \in Nat /\ Same(sx, i * z, n) /\ sx \in 1..(n - 1)
  <2>1. i * z \in Nat
    BY <1>3, <1>8, SMT
  <2>2. sx \in 0..(n - 1) /\ Same(sx, i * z, n)
    BY <1>2, <2>1 DEF sx
  <2> QED BY <1>2, <1>5, <2>2
<1>11. tx \in 0..(n - 1) /\ tx \in Nat /\ Same(tx, rx + sx, n)
  BY <1>2, <1>6, <1>10, SumReduced DEF tx
<1>12. sx + tx * d \in Nat /\ Same(sx + tx * d, kx, n) /\ (tx = 0 => Same(kx + rx, 0, n))
  BY <1>1, <1>2, <1>3, <1>6, <1>8, <1>9, <1>10, <1>11, Sm2Numbers
<1>13. tx # 0
  <2>1. SUFFICES ASSUME tx = 0 PROVE FALSE
    OBVIOUS
  <2>2. t1 \in 0..(n - 1) /\ Same(t1, kx + rx, n)
    BY <1>1, <1>2, <1>6, SumReduced DEF t1
  <2>3. Same(t1, 0, n)
    BY <1>12, <2>1, <2>2, SameAs, Zenon
  <2> QED BY <1>2, <1>5, <2>2, <2>3, SmallSame
<1>14. BasePointProduct(E, sx, tx, d) = TimesBase(E, kx)
  <2> DEFINE w == sx + tx * d
  <2>1. BasePointProduct(E, sx, tx, d) = TimesBase(E, w)
    BY <1>1, <1>2, <1>10, <1>11, BaseProduct DEF n
  <2>2. w \in Nat /\ Same(w, kx, n)
    BY <1>12
  <2> HIDE DEF w
  <2> QED BY <1>1, <1>2, <2>1, <2>2, BaseSums DEF n
<1>15. SUFFICES ASSUME ~SM2ChunkKept(E, "SM2", <<rx, sx>>) PROVE ippsGFpECVerifySM2(E, d, msg, <<rx, sx>>)
  BY <1>5
<1>16. tx < Cap(E.p)
  <2>1. SM2T(E, <<rx, sx>>) = tx
    BY DEF SM2T, tx, n
  <2>2. Cap(E.p) \in Nat
    BY <1>2, CurveNumbers, ChunksHold
  <2> QED BY <1>11, <1>15, <2>1, <2>2 DEF SM2ChunkKept
<1>17. SM2Abscissa(E, d, sx, tx) = a
  BY <1>1, <1>2, <1>10, <1>11, <1>13, <1>14, <1>16, Sm2AbscissaIs DEF a, n
<1>18. InRange(E, <<rx, sx>>)
  BY <1>6, <1>10 DEF InRange, n
<1>19. ippsGFpECVerifySM2(E, d, msg, <<rx, sx>>) <=>
         InRange(E, <<rx, sx>>) /\ cpModAdd_BNU(SM2Abscissa(E, d, sx, tx), e, n) = rx
  BY Zenon DEF ippsGFpECVerifySM2, tx, e, n
<1> QED BY <1>17, <1>18, <1>19 DEF rx

\* What VerifySM2 accepts SignSM2 can make, but for what it does not look at.
LEMMA Sm2Makable ==
  ASSUME NEW E \in KeyCurves, NEW d \in 1..(E.n - 2), NEW msg \in Nat, NEW rx \in Nat, NEW sx \in Nat,
         msg < Power2[OrderBitSize(E)], ippsGFpECVerifySM2(E, d, msg, <<rx, sx>>),
         ~SM2Unchecked(E, d, "SM2", <<rx, sx>>), ~SM2ChunkKept(E, "SM2", <<rx, sx>>)
  PROVE  \E kx \in 1..(E.n - 1) : ippsGFpECSignSM2(E, d, kx, msg) = <<rx, sx>>
<1> DEFINE n == E.n
           e == Reduced(E, msg)
           i == InvOrder[n][d + 1]
<1>0. n \in Nat /\ n > 1
  BY SignatureNumbers
<1>1. d \in 1..(n - 1) /\ d + 1 \in 1..(n - 1) /\ d \in Nat
  BY <1>0
<1>2. /\ Cyclic(E) /\ n \in Nat /\ n > 1 /\ n \in Nat \ {0} /\ e \in 0..(n - 1) /\ e \in Nat
      /\ i \in 1..(n - 1) /\ ((d + 1) * i) % n = 1
      /\ \A y \in Nat : y % n \in 0..(n - 1) /\ y % n \in Nat /\ Same(y % n, y, n)
  BY <1>1, SignatureNumbers, Zenon
<1>3. i \in Nat
  BY <1>2
<1> DEFINE tx == cpModAdd_BNU(rx, sx, n)
           w == sx + tx * d
           P == BasePointProduct(E, sx, tx, d)
           kx == w % n
           a == Abscissa(E, TimesBase(E, kx))
           t1 == cpModAdd_BNU(kx, rx, n)
           q == (d * rx) % n
           z == cpModSub_BNU(kx, q, n)
<1>4. /\ InRange(E, <<rx, sx>>) /\ cpModAdd_BNU(SM2Abscissa(E, d, sx, tx), e, n) = rx
      /\ tx # 0 /\ P # AtInfinity /\ SM2T(E, <<rx, sx>>) = tx
  <2> HIDE DEF n, e, tx, P
  <2>1. SM2T(E, <<rx, sx>>) = tx
    BY DEF SM2T, tx, n
  <2>2. InRange(E, <<rx, sx>>) /\ cpModAdd_BNU(SM2Abscissa(E, d, sx, tx), e, n) = rx
    BY Zenon DEF ippsGFpECVerifySM2, tx, e, n
  <2>3. tx # 0 /\ P # AtInfinity
    BY <2>1 DEF SM2Unchecked, P
  <2> QED BY <2>1, <2>2, <2>3
<1> HIDE DEF n, e, i, tx, w, P, kx, a, t1, q, z
<1>5. rx \in 1..(n - 1) /\ sx \in 1..(n - 1) /\ rx \in 0..(n - 1) /\ sx \in 0..(n - 1)
  BY <1>2, <1>4 DEF InRange, n
<1>6. tx \in 0..(n - 1) /\ tx \in Nat /\ Same(tx, rx + sx, n)
  BY <1>2, <1>5, SumReduced DEF tx
<1>7. w \in Nat /\ d * rx \in Nat
  BY <1>1, <1>6, SMT DEF w
<1>8. P = TimesBase(E, w)
  BY <1>1, <1>2, <1>6, BaseProduct DEF P, n, w
<1>9. kx \in 1..(n - 1) /\ TimesBase(E, kx) = P /\ Same(kx, w, n)
  BY <1>2, <1>4, <1>7, <1>8, EphemeralOf DEF kx, n
<1>10. kx \in 0..(n - 1) /\ kx \in Nat
  BY <1>2, <1>9
<1>11. a \in 0..(n - 1) /\ a \in Nat /\ a = Abscissa(E, TimesBase(E, w))
  BY <1>2, <1>7, <1>8, <1>9, <1>10, EphemeralOf DEF a, n
<1>12. tx < Cap(E.p)
  <2>1. Cap(E.p) \in Nat
    BY <1>2, CurveNumbers, ChunksHold
  <2> QED BY <1>4, <1>6, <2>1 DEF SM2ChunkKept
<1>13. SM2Abscissa(E, d, sx, tx) = a
  BY <1>1, <1>2, <1>4, <1>6, <1>7, <1>8, <1>11, <1>12, Sm2AbscissaIs DEF n, P
<1>14. cpModAdd_BNU(a, e, n) = rx
  BY <1>4, <1>13
<1>15. q \in 0..(n - 1) /\ q \in Nat
  BY <1>2, <1>7, RestOfRest DEF q
<1>16. z \in 0..(n - 1) /\ z \in Nat /\ Same(z + q, kx, n)
  <2>1. z \in 0..(n - 1) /\ Same(z + q, kx, n)
    BY <1>2, <1>10, <1>15, DifferenceReduced, Zenon DEF z
  <2> QED BY <1>2, <2>1
<1>17. Same(z + d * rx, kx, n)
  <2>1. Same(z + q, z + d * rx, n)
    BY <1>2, <1>7, <1>16, ProductAdded DEF q
  <2> QED BY <1>16, <2>1, SameAs, Zenon
<1>18. Same(i * z, sx, n) /\ (Same(kx + rx, 0, n) => Same(tx, 0, n))
  <2>1. Same(kx, sx + tx * d, n)
    BY <1>9 DEF w
  <2> QED BY <1>1, <1>2, <1>3, <1>6, <1>10, <1>16, <1>17, <2>1, Sm2Numbers
<1>19. (i * z) % n = sx
  <2> DEFINE vx == i * z
  <2>0. vx \in Nat
    BY <1>3, <1>16, SMT
  <2>1. Same(vx, sx, n)
    BY <1>18
  <2> HIDE DEF vx
  <2>2. vx % n \in 0..(n - 1) /\ Same(vx % n, sx, n)
    BY <1>2, <2>0, <2>1, SameAs
  <2>3. vx % n = sx
    BY <1>2, <1>5, <2>2, SmallSame
  <2> QED BY <2>3 DEF vx
<1>20. t1 # 0
  <2>1. SUFFICES ASSUME t1 = 0 PROVE FALSE
    OBVIOUS
  <2>2. Same(t1, kx + rx, n)
    BY <1>2, <1>5, <1>10, SumReduced DEF t1
  <2>3. Same(tx, 0, n)
    BY <1>18, <2>1, <2>2, SameAs
  <2> QED BY <1>2, <1>4, <1>6, <2>3, SmallSame
<1>21. ippsGFpECSignSM2(E, d, kx, msg) = <<rx, sx>>
  <2>1. ippsGFpECSignSM2(E, d, kx, msg) =
          IF rx = 0 \/ t1 = 0 \/ (i * z) % n = 0 THEN EphemeralKeyErr ELSE <<rx, (i * z) % n>>
    BY <1>14, Zenon DEF ippsGFpECSignSM2, z, q, t1, a, i, e, n
  <2> QED BY <1>2, <1>5, <1>19, <1>20, <2>1
<1> QED BY <1>9, <1>21 DEF n

-----------------------------------------------------------------------------
(* The schemes' inductive invariant.                                       *)

\* The key in use is one of its curve's, there is no call without a key, and both promises hold
\* of the last one.
EcInv ==
  /\ \/ ecKey = NoEcKey /\ ecOut = NoOut
     \/ ecKey # NoEcKey /\ ecKey.E \in KeyCurves \union SecretCurves /\ ecKey.d \in 1..(ecKey.E.n - 1)
  /\ SignaturesMatch
  /\ SecretsAgree

\* A call of neither kind leaves both promises as they are.
LEMMA OtherCall ==
  ASSUME ecOut.fn \notin {"Sign", "Verify"}
  PROVE  SignaturesMatch
BY DEF SignaturesMatch

\* The same of secrets.
LEMMA OtherShare ==
  ASSUME ecOut.fn \notin {"DH", "DHC"}
  PROVE  SecretsAgree
BY DEF SecretsAgree

\* Both hold of a signature made and of one verified.
LEMMA MadeMatches ==
  ASSUME NEW E \in KeyCurves, NEW d \in 1..(E.n - 1), NEW scheme \in {"DSA", "NR", "SM2"},
         NEW msg \in Nat, NEW kx \in 1..(E.n - 1), d \in SignKeys(scheme, E),
         msg < Power2[OrderBitSize(E)], Len(Sign(scheme, E, d, kx, msg)) = 2
  PROVE  LET sig == Sign(scheme, E, d, kx, msg)
         IN  \/ Verify(scheme, E, d, msg, sig)
             \/ scheme = "NR" /\ sig[2] = 0
             \/ SM2ChunkKept(E, scheme, sig)
<1>1. CASE scheme = "DSA"
  BY <1>1, DsaAccepted DEF Sign, Verify
<1>2. CASE scheme = "NR"
  BY <1>2, NrAccepted DEF Sign, Verify
<1>3. CASE scheme = "SM2"
  <2>1. d \in 1..(E.n - 2)
    BY <1>3 DEF SignKeys
  <2> QED BY <1>3, <2>1, Sm2Accepted DEF Sign, Verify
<1> QED BY <1>1, <1>2, <1>3

\* A signature that Verify accepts is one the owner of the key can make.
LEMMA VerifiedMatches ==
  ASSUME NEW E \in KeyCurves, NEW d \in 1..(E.n - 1), NEW scheme \in {"DSA", "NR", "SM2"},
         NEW msg \in Nat, NEW rx \in Nat, NEW sx \in Nat,
         msg < Power2[OrderBitSize(E)], Verify(scheme, E, d, msg, <<rx, sx>>)
  PROVE  \/ SM2Unchecked(E, d, scheme, <<rx, sx>>)
         \/ SM2ChunkKept(E, scheme, <<rx, sx>>)
         \/ Makable(E, d, scheme, msg, <<rx, sx>>)
<1>1. CASE scheme = "DSA"
  <2>1. \E kx \in 1..(E.n - 1) : ippsGFpECSignDSA(E, d, kx, msg) = <<rx, sx>>
    BY <1>1, DsaMakable DEF Verify
  <2> QED BY <1>1, <2>1 DEF Makable, Sign
<1>2. CASE scheme = "NR"
  <2>1. \E kx \in 1..(E.n - 1) : ippsGFpECSignNR(E, d, kx, msg) = <<rx, sx>>
    BY <1>2, NrMakable DEF Verify
  <2> QED BY <1>2, <2>1 DEF Makable, Sign
<1>3. CASE scheme = "SM2"
  <2>1. SUFFICES ASSUME d \in 1..(E.n - 2), ~SM2Unchecked(E, d, "SM2", <<rx, sx>>),
                        ~SM2ChunkKept(E, "SM2", <<rx, sx>>)
                 PROVE  \E kx \in 1..(E.n - 1) : ippsGFpECSignSM2(E, d, kx, msg) = <<rx, sx>>
    BY <1>3, Zenon DEF Makable, SignKeys, Sign
  <2>2. ippsGFpECVerifySM2(E, d, msg, <<rx, sx>>)
    BY <1>3 DEF Verify
  <2> QED BY <2>1, <2>2, Sm2Makable
<1> QED BY <1>1, <1>2, <1>3

\* Both parties get the same secret.
LEMMA SameSecret ==
  ASSUME NEW E \in SecretCurves, NEW d \in 1..(E.n - 1), NEW e \in 1..(E.n - 1)
  PROVE  ippsGFpECSharedSecretDH(E, d, TimesBase(E, e)) = ippsGFpECSharedSecretDH(E, e, TimesBase(E, d))
<1>1. Cyclic(E)
  BY SchemeAssumption DEF Cyclic
<1>2. \A kx \in 1..(E.n - 1) : kx \in Nat /\ TimesBase(E, kx) # AtInfinity /\ OnCurve(E, TimesBase(E, kx))
  <2> TAKE kx \in 1..(E.n - 1)
  <2>1. kx \in Nat /\ kx # 0
    BY <1>1, CurveNumbers
  <2>2. TimesBase(E, kx) # AtInfinity /\ kx % E.n = kx
    BY <1>1, KeyMultiple
  <2> QED BY <1>1, <2>1, <2>2, BasePoints
<1>3. Product(E, d, TimesBase(E, e)) = TimesBase(E, d * e) /\ Product(E, e, TimesBase(E, d)) = TimesBase(E, e * d)
  BY <1>1, <1>2, ProductMultiplies
<1>4. d * e = e * d
  BY <1>2, SMT
<1> QED BY <1>2, <1>3, <1>4 DEF ippsGFpECSharedSecretDH

\* With the cofactor it is the abscissa of h*d*Q for a multiple Q.
LEMMA CofactorSecret ==
  ASSUME NEW E \in SecretCurves, NEW d \in 1..(E.n - 1), NEW i \in 1..(E.n - 1)
  PROVE  ippsGFpECSharedSecretDHC(E, d, TimesBase(E, i)) = Share(Product(E, E.h * d, TimesBase(E, i)))
<1> DEFINE Q == TimesBase(E, i)
           c == E.h * d
           o == c % E.n
<1>1. Cyclic(E) /\ E.h \in Nat
  BY SchemeAssumption DEF Cyclic
<1>2. d \in Nat /\ i \in Nat /\ i # 0 /\ E.n \in Nat \ {0}
  BY <1>1, CurveNumbers
<1>3. Q # AtInfinity /\ OnCurve(E, Q)
  <2>1. Q # AtInfinity /\ i % E.n = i
    BY <1>1, KeyMultiple
  <2> QED BY <1>1, <1>2, <2>1, BasePoints
<1>4. CASE E.h = 1
  <2>1. E.h * d = d
    BY <1>2, <1>4
  <2> QED BY <1>3, <1>4, <2>1 DEF ippsGFpECSharedSecretDHC, ippsGFpECSharedSecretDH
<1>5. CASE E.h # 1
  <2>1. c \in Nat
    BY <1>1, <1>2, SMT
  <2> HIDE DEF c
  <2>2. o \in Nat /\ Same(o, c, E.n)
    BY <1>2, <2>1, RestOfRest
  <2> HIDE DEF o
  <2>3. Same(o * i, c * i, E.n) /\ o * i \in Nat /\ c * i \in Nat
    <3>1. o * i \in Nat /\ c * i \in Nat
      BY <1>2, <2>1, <2>2, SMT
    <3> QED BY <1>2, <2>1, <2>2, <3>1, SameProduct
  <2>4. TimesBase(E, o * i) = TimesBase(E, c * i)
    BY <1>1, <2>3, BaseSums
  <2>5. Product(E, o, Q) = TimesBase(E, o * i) /\ Product(E, c, Q) = TimesBase(E, c * i)
    BY <1>1, <1>2, <2>1, <2>2, ProductMultiplies
  <2> QED BY <1>3, <1>5, <2>4, <2>5 DEF ippsGFpECSharedSecretDHC, o, c
<1> QED BY <1>4, <1>5

\* Without a call both promises hold.
LEMMA NothingCalled ==
  ASSUME ecOut.fn \in {"none", "Test"}
  PROVE  SignaturesMatch /\ SecretsAgree
BY OtherCall, OtherShare

\* Before any key both promises hold.
LEMMA EcInitHolds == ASSUME EcInit PROVE EcInv
<1>1. ecOut.fn = "none"
  BY DEF EcInit, NoOut
<1> QED BY <1>1, NothingCalled DEF EcInit, EcInv

\* A ready context holds a key.
LEMMA KeyInUse ==
  ASSUME EcInv, Ready
  PROVE  ecKey.E \in KeyCurves \union SecretCurves /\ ecKey.d \in 1..(ecKey.E.n - 1)
BY DEF EcInv, Ready

\* A new key comes before any call with it.
LEMMA DrawKeepsEc == ASSUME EcInv, DrawPrivateKey PROVE EcInv'
<1>1. PICK E \in KeyCurves \union SecretCurves :
        \E x : ecKey' = IF x \in 1..(E.n - 1) THEN [E |-> E, d |-> x] ELSE ecKey
  BY DEF DrawPrivateKey
<1>2. ecKey = NoEcKey /\ ecOut = NoOut /\ ecOut' = ecOut
  BY DEF DrawPrivateKey, EcInv
<1>3. ecKey' = NoEcKey \/ (ecKey'.E \in KeyCurves \union SecretCurves /\ ecKey'.d \in 1..(ecKey'.E.n - 1))
  BY <1>1, <1>2
<1>4. ecOut'.fn = "none"
  BY <1>2 DEF NoOut
<1>5. SignaturesMatch' /\ SecretsAgree'
  BY <1>4 DEF SignaturesMatch, SecretsAgree
<1> QED BY <1>2, <1>3, <1>5 DEF EcInv

\* The last step's own form of the two promises.
LEMMA SignKeepsEc == ASSUME EcInv, CallSign PROVE EcInv'
<1> DEFINE E == ecKey.E
           d == ecKey.d
<1>1. E \in KeyCurves /\ d \in 1..(E.n - 1) /\ UNCHANGED ecKey /\ ecKey # NoEcKey
  BY KeyInUse DEF Ready, CallSign
<1>2. PICK scheme \in SignSchemes, msg \in SignMessages, kx \in 1..(E.n - 1) :
        /\ d \in SignKeys(scheme, E) /\ msg < Power2[OrderBitSize(E)]
        /\ ecOut' = [fn |-> "Sign", scheme |-> scheme, msg |-> msg, sig |-> Sign(scheme, E, d, kx, msg)]
  BY DEF CallSign
<1>3. msg \in Nat /\ scheme \in {"DSA", "NR", "SM2"}
  BY SchemeAssumption
<1> DEFINE sig == Sign(scheme, E, d, kx, msg)
<1>4. Len(sig) = 2 => \/ Verify(scheme, E, d, msg, sig)
                      \/ scheme = "NR" /\ sig[2] = 0
                      \/ SM2ChunkKept(E, scheme, sig)
  BY <1>1, <1>2, <1>3, MadeMatches
<1>5. ecOut'.fn = "Sign" /\ ecOut'.scheme = scheme /\ ecOut'.msg = msg /\ ecOut'.sig = sig
  BY <1>2
<1> HIDE DEF sig
<1>6. SignaturesMatch'
  BY <1>1, <1>4, <1>5 DEF SignaturesMatch
<1>7. SecretsAgree'
  BY <1>5 DEF SecretsAgree
<1> QED BY <1>1, <1>6, <1>7 DEF EcInv

\* A call of Verify keeps both promises.
LEMMA VerifyKeepsEc == ASSUME EcInv, CallVerify PROVE EcInv'
<1> DEFINE E == ecKey.E
           d == ecKey.d
<1>1. E \in KeyCurves /\ d \in 1..(E.n - 1) /\ UNCHANGED ecKey /\ ecKey # NoEcKey
  BY KeyInUse, SchemeAssumption DEF Ready, CallVerify
<1>2. PICK scheme \in SignSchemes, msg \in SignMessages, rx \in 0..E.n, sx \in 0..E.n :
        /\ msg < Power2[OrderBitSize(E)]
        /\ ecOut' = [fn |-> "Verify", scheme |-> scheme, msg |-> msg, sig |-> <<rx, sx>>,
                     valid |-> Verify(scheme, E, d, msg, <<rx, sx>>)]
  BY DEF CallVerify
<1>3. msg \in Nat /\ rx \in Nat /\ sx \in Nat /\ scheme \in {"DSA", "NR", "SM2"}
  <2>1. Cyclic(E)
    BY <1>1, SchemeAssumption DEF Cyclic
  <2> QED BY <2>1, SchemeAssumption, CurveNumbers
<1> DEFINE sig == <<rx, sx>>
<1>4. Verify(scheme, E, d, msg, sig) => \/ SM2Unchecked(E, d, scheme, sig)
                                        \/ SM2ChunkKept(E, scheme, sig)
                                        \/ Makable(E, d, scheme, msg, sig)
  BY <1>1, <1>2, <1>3, VerifiedMatches
<1>5. /\ ecOut'.fn = "Verify" /\ ecOut'.scheme = scheme /\ ecOut'.msg = msg /\ ecOut'.sig = sig
      /\ ecOut'.valid = Verify(scheme, E, d, msg, sig)
  BY <1>2
<1> HIDE DEF sig
<1>6. SignaturesMatch'
  BY <1>1, <1>4, <1>5 DEF SignaturesMatch
<1>7. SecretsAgree'
  BY <1>5 DEF SecretsAgree
<1> QED BY <1>1, <1>6, <1>7 DEF EcInv

\* A call of a shared secret keeps both promises.
LEMMA ShareKeepsEc == ASSUME EcInv, CallShare PROVE EcInv'
<1> DEFINE E == ecKey.E
           d == ecKey.d
<1>1. E \in SecretCurves /\ d \in 1..(E.n - 1) /\ UNCHANGED ecKey /\ ecKey # NoEcKey
  BY KeyInUse DEF Ready, CallShare
<1>2. PICK fn \in {"DH", "DHC"}, Q \in PointsOf(E) :
        ecOut' = [fn |-> fn, Q |-> Q, share |-> IF fn = "DH" THEN ippsGFpECSharedSecretDH(E, d, Q)
                                                ELSE ippsGFpECSharedSecretDHC(E, d, Q)]
  BY DEF CallShare
<1>3. /\ ecOut'.fn = fn /\ ecOut'.Q = Q
      /\ ecOut'.share = IF fn = "DH" THEN ippsGFpECSharedSecretDH(E, d, Q)
                        ELSE ippsGFpECSharedSecretDHC(E, d, Q)
  BY <1>2
<1>4. SignaturesMatch'
  BY <1>3 DEF SignaturesMatch
<1>5. ASSUME fn = "DH", NEW e \in 1..(E.n - 1), TimesBase(E, e) = Q
      PROVE  ecOut'.share = ippsGFpECSharedSecretDH(E, e, TimesBase(E, d))
  BY <1>1, <1>3, <1>5, SameSecret
<1>6. ASSUME fn = "DHC", Q \in SignedBy(E)
      PROVE  ecOut'.share = Share(Product(E, E.h * d, Q))
  <2>1. PICK i \in 1..(E.n - 1) : Q = BaseMultiples[E][i]
    BY <1>6 DEF SignedBy
  <2>2. Q = TimesBase(E, i)
    <3>1. Cyclic(E)
      BY <1>1, SchemeAssumption DEF Cyclic
    <3>2. i % E.n = i
      BY <3>1, KeyMultiple
    <3> QED BY <2>1, <3>2 DEF TimesBase
  <2> QED BY <1>1, <1>3, <1>6, <2>2, CofactorSecret
<1>7. SecretsAgree'
  BY <1>1, <1>3, <1>5, <1>6 DEF SecretsAgree
<1> QED BY <1>1, <1>4, <1>7 DEF EcInv

\* Every step keeps the invariant.
LEMMA EcStep == EcInv /\ [EcNext]_ecVars => EcInv'
<1> SUFFICES ASSUME EcInv, [EcNext]_ecVars PROVE EcInv'
  OBVIOUS
<1>1. CASE DrawPrivateKey
  BY <1>1, DrawKeepsEc
<1>2. CASE CallSign
  BY <1>2, SignKeepsEc
<1>3. CASE CallVerify
  BY <1>3, VerifyKeepsEc
<1>4. CASE CallShare
  BY <1>4, ShareKeepsEc
<1>5. CASE CallTest
  <2>1. ecOut'.fn = "Test" /\ UNCHANGED ecKey /\ ecKey # NoEcKey
    BY <1>5 DEF CallTest, Ready
  <2>2. SignaturesMatch' /\ SecretsAgree'
    BY <2>1 DEF SignaturesMatch, SecretsAgree
  <2> QED BY <2>1, <2>2 DEF EcInv
<1>6. CASE Forget
  <2>1. ecKey' = NoEcKey /\ ecOut' = NoOut /\ ecOut'.fn = "none"
    BY <1>6 DEF Forget, NoOut
  <2>2. SignaturesMatch' /\ SecretsAgree'
    BY <2>1 DEF SignaturesMatch, SecretsAgree
  <2> QED BY <2>1, <2>2 DEF EcInv
<1>7. CASE UNCHANGED ecVars
  BY <1>7 DEF ecVars, EcInv, SignaturesMatch, SecretsAgree
<1> QED BY <1>1, <1>2, <1>3, <1>4, <1>5, <1>6, <1>7 DEF EcNext

\* The key in use is always one of its curve's, and the promises below hold of every call:
\* the private key that is set is what Sign, Verify and the shared secrets compute with.
THEOREM SchemesInvariance == EcSpec => []EcInv
<1>1. EcInit => EcInv
  BY EcInitHolds
<1> QED BY <1>1, EcStep, PTL DEF EcSpec

\* On every curve with a base point of prime order, for every key and message, Verify
\* accepts what Sign makes, and Sign can make what Verify accepts: ECDSA, ECNR and SM2, but
\* for the chunk VerifySM2 keeps, the zero SignNR lets out and what VerifySM2 leaves unchecked.
THEOREM SignaturesAlwaysMatch == EcSpec => []SignaturesMatch
<1>1. EcInv => SignaturesMatch
  BY DEF EcInv
<1> QED BY <1>1, SchemesInvariance, PTL

\* On every such curve both parties of ippsGFpECSharedSecretDH get the same secret, and
\* ippsGFpECSharedSecretDHC's factor h*d may be reduced by the order before the product.
THEOREM SecretsAlwaysAgree == EcSpec => []SecretsAgree
<1>1. EcInv => SecretsAgree
  BY DEF EcInv
<1> QED BY <1>1, SchemesInvariance, PTL

-----------------------------------------------------------------------------
(* The SM2 key exchange: what a call of SharedKey computes.                *)

\* What a call of SharedKey by i with the ephemeral key eph computes.
Computed(i, eph, R) ==
  LET U == Product(keCurve, Cofactored(keCurve, KeT(keCurve, i, eph, R)), PeerPoint(keCurve, i, R))
  IN  [by |-> i, eph |-> eph, R |-> R, U |-> U, ok |-> U # AtInfinity, key |-> <<U, "ZA", "ZB">>,
       S |-> Confirmation(FirstNum(i), U, PrecHash(U, R))]

\* An entry of the log is what its call computed, with an ephemeral key whose public key was sent.
Logged(x) ==
  /\ x.by \in Parties /\ x.eph \in 1..(keCurve.n - 1) /\ x = Computed(x.by, x.eph, x.R)
  /\ x.R = [A |-> x.R["A"], B |-> x.R["B"]]
  /\ TimesBase(keCurve, x.eph) = x.R[x.by] /\ x.R[x.by] \in keSentR[x.by]

\* A curve of the exchange.
LEMMA ExchangeCurve ==
  ASSUME NEW E \in KECurves
  PROVE  /\ Cyclic(E) /\ E.n \in Nat /\ E.n > 1 /\ E.n \in Nat \ {0} /\ E.n % 2 = 1 /\ E.h \in Nat
         /\ \A i \in Parties : StaticKey[i] \in Nat
         /\ \A kx \in 1..(E.n - 1) : kx \in Nat
<1>1. Cyclic(E) /\ E.n % 2 = 1 /\ E.h \in Nat
  BY KeyExchangeAssumption DEF Cyclic
<1>2. E.n \in Nat /\ E.n > 1
  BY <1>1, CurveNumbers
<1>3. \A i \in Parties : StaticKey[i] \in 1..(E.n - 1)
  BY KeyExchangeAssumption
<1> QED BY <1>1, <1>2, <1>3

\* The power of two and the low half of the abscissa are a number.
LEMMA ReductionNumber ==
  ASSUME NEW E \in KECurves, NEW x \in Nat
  PROVE  reduction_x2w(E, x) \in Nat
<1> DEFINE b == MOD_BITSIZE(E.p)
           w == (b + 1) \div 2 - 1
           P == Power2[w]
<1>1. E.p \in Nat /\ E.p > 0
  BY ExchangeCurve, CurveNumbers
<1>2. b \in Nat \ {0}
  BY <1>1, BitSize
<1>3. w \in Nat
  <2> HIDE DEF b
  <2> QED BY <1>2, SMT
<1>4. P \in Nat \ {0}
  <2> HIDE DEF w
  <2> QED BY <1>3, PowerTyped
<1>5. reduction_x2w(E, x) = P + (x % P)
  BY DEF reduction_x2w, ReductionBits
<1> HIDE DEF P
<1>6. x % P \in Nat
  BY <1>4, RestOfRest
<1> QED BY <1>4, <1>5, <1>6

\* Cofactored multiplies by f.
MultipliesBy(E, f) ==
  \A x \in Nat : Cofactored(E, x) \in Nat /\ Same(Cofactored(E, x), f * x, E.n)

\* The cofactor and what its decoding divides by are a factor that is the same for both parties.
LEMMA CofactorFactor ==
  ASSUME NEW E \in KECurves
  PROVE  \E f \in Nat : MultipliesBy(E, f) /\ (E.h = 1 => f = 1)
<1> DEFINE n == E.n
           R == RadixInverse(n)
           f == IF E.h = 1 THEN 1 ELSE E.h * R
<1>1. n \in Nat /\ n > 1 /\ n % 2 = 1 /\ n \in Nat \ {0} /\ E.h \in Nat
  BY ExchangeCurve
<1>2. R \in Nat
  BY <1>1, RadixInverted
<1> HIDE DEF R
<1>3. f \in Nat
  BY <1>1, <1>2, SMT
<1>4. ASSUME NEW x \in Nat
      PROVE  Cofactored(E, x) \in Nat /\ Same(Cofactored(E, x), f * x, n)
  <2>1. CASE E.h = 1
    <3>1. f * x = x
      BY <2>1
    <3> QED BY <2>1, <3>1, SameAs DEF Cofactored
  <2>2. CASE E.h # 1
    <3> DEFINE y == x * E.h
               o == y % n
               ux == o * R
    <3>1. y \in Nat
      BY <1>1, SMT
    <3>2. y * R = f * x /\ y * R \in Nat
      BY <1>1, <1>2, <2>2, SMT
    <3> HIDE DEF y, f, n
    <3>3. o \in Nat /\ Same(o, y, n)
      BY <1>1, <3>1, RestOfRest
    <3>4. Cofactored(E, x) = ux % n
      BY <2>2 DEF Cofactored, y, R, n
    <3> HIDE DEF o
    <3>5. ux \in Nat /\ Same(ux, y * R, n)
      <4>1. ux \in Nat
        BY <1>2, <3>3, SMT
      <4> QED BY <1>1, <1>2, <3>1, <3>3, <4>1, SameProduct
    <3> HIDE DEF ux
    <3>6. ux % n \in Nat /\ Same(ux % n, ux, n)
      BY <1>1, <3>5, RestOfRest
    <3>7. Same(ux % n, f * x, n)
      BY <3>2, <3>5, <3>6, SameAs
    <3> QED BY <3>4, <3>6, <3>7
  <2> QED BY <2>1, <2>2
<1>5. E.h = 1 => f = 1
  OBVIOUS
<1> HIDE DEF f, n
<1>6. MultipliesBy(E, f)
  BY <1>4 DEF MultipliesBy, n
<1> QED BY <1>3, <1>5, <1>6

\* The point of the peer's keys is the multiple by the number the peer computes.
LEMMA PeerMultiple ==
  ASSUME NEW E \in KECurves, NEW i \in Parties, NEW R, NEW e \in Nat, R[Peer(i)] = TimesBase(E, e)
  PROVE  /\ KeT(E, Peer(i), e, R) \in Nat
         /\ PeerPoint(E, i, R) = TimesBase(E, KeT(E, Peer(i), e, R))
<1> DEFINE j == Peer(i)
           a == R[j][1]
           c == reduction_x2w(E, a)
           d == StaticKey[j]
           w == d + c * e
<1>1. Cyclic(E) /\ E.n \in Nat \ {0} /\ j \in Parties /\ d \in Nat
  BY ExchangeCurve DEF Peer, Parties
<1>2. a \in Nat
  BY <1>1, BasePoints, CurveNumbers
<1>3. c \in Nat
  <2> HIDE DEF a
  <2> QED BY <1>2, ReductionNumber
<1>4. KeT(E, j, e, R) = w % E.n /\ PeerPoint(E, i, R) = Plus(E, Product(E, c, TimesBase(E, e)), TimesBase(E, d))
  BY DEF KeT, PeerPoint
<1> HIDE DEF c, d, j
<1>5. c * e \in Nat /\ w \in Nat /\ c * e + d = w
  BY <1>1, <1>3, SMT
<1>6. Plus(E, TimesBase(E, c * e), TimesBase(E, d)) = TimesBase(E, c * e + d)
  BY <1>1, <1>5, BaseSums
<1>7. Product(E, c, TimesBase(E, e)) = TimesBase(E, c * e)
  BY <1>1, <1>3, ProductMultiplies
<1>8. PeerPoint(E, i, R) = TimesBase(E, w)
  BY <1>4, <1>5, <1>6, <1>7
<1> HIDE DEF w
<1>9. w % E.n \in Nat /\ TimesBase(E, w % E.n) = TimesBase(E, w)
  BY <1>1, <1>5, BaseSums, RestOfRest
<1> QED BY <1>4, <1>8, <1>9 DEF j

\* The point of a call is a multiple by a product in which the parties have the same part.
LEMMA SharedPoint ==
  ASSUME NEW E \in KECurves, NEW i \in Parties, NEW R, NEW e \in Nat, NEW kx \in Nat,
         R[i] = TimesBase(E, kx), R[Peer(i)] = TimesBase(E, e), NEW f \in Nat,
         MultipliesBy(E, f)
  PROVE  /\ KeT(E, i, kx, R) \in Nat /\ KeT(E, Peer(i), e, R) \in Nat
         /\ Product(E, Cofactored(E, KeT(E, i, kx, R)), PeerPoint(E, i, R))
              = TimesBase(E, f * (KeT(E, i, kx, R) * KeT(E, Peer(i), e, R)))
<1> DEFINE sx == KeT(E, i, kx, R)
           tx == KeT(E, Peer(i), e, R)
           c == Cofactored(E, sx)
<1>1. Cyclic(E) /\ E.n \in Nat \ {0}
  BY ExchangeCurve
<1>2. tx \in Nat /\ PeerPoint(E, i, R) = TimesBase(E, tx)
  BY PeerMultiple
<1>3. sx \in Nat
  <2>1. Peer(i) \in Parties /\ Peer(Peer(i)) = i
    BY DEF Peer, Parties
  <2> QED BY <2>1, PeerMultiple
<1> HIDE DEF sx, tx
<1>4. c \in Nat /\ Same(c, f * sx, E.n)
  BY <1>3 DEF MultipliesBy
<1> HIDE DEF c
<1>5. Product(E, c, TimesBase(E, tx)) = TimesBase(E, c * tx)
  BY <1>1, <1>2, <1>4, ProductMultiplies
<1>6. f * sx \in Nat /\ c * tx \in Nat /\ (f * sx) * tx \in Nat /\ (f * sx) * tx = f * (sx * tx)
  BY <1>2, <1>3, <1>4, SMT
<1>7. Same(c * tx, (f * sx) * tx, E.n)
  BY <1>1, <1>2, <1>4, <1>6, SameProduct
<1>8. TimesBase(E, c * tx) = TimesBase(E, (f * sx) * tx)
  BY <1>1, <1>6, <1>7, BaseSums
<1>9. TimesBase(E, c * tx) = TimesBase(E, f * (sx * tx))
  BY <1>6, <1>8
<1> QED BY <1>2, <1>3, <1>5, <1>9 DEF sx, tx, c

\* Two entries of one party are the same, or differ in the ephemeral keys.
LEMMA OwnEntries ==
  ASSUME keCurve \in KECurves, NEW x, NEW y, Logged(x), Logged(y), x.by = y.by, x.R = y.R
  PROVE  x = y
<1> DEFINE E == keCurve
<1>1. Cyclic(E) /\ E.n \in Nat \ {0} /\ x.eph \in 0..(E.n - 1) /\ y.eph \in 0..(E.n - 1)
      /\ x.eph \in Nat /\ y.eph \in Nat
  BY ExchangeCurve DEF Logged
<1>2. TimesBase(E, x.eph) = TimesBase(E, y.eph)
  BY DEF Logged
<1>3. Same(x.eph, y.eph, E.n)
  BY <1>1, <1>2, BaseTold
<1>4. x.eph = y.eph
  BY <1>1, <1>3, SmallSame
<1> QED BY <1>4, Zenon DEF Logged

\* Entries of both parties for the same ephemeral public keys have the same point.
LEMMA PeerEntries ==
  ASSUME keCurve \in KECurves, NEW x, NEW y, Logged(x), Logged(y), x.by # y.by, x.R = y.R
  PROVE  /\ x.U = y.U
         /\ keCurve.h = 1 =>
              x.U = TimesBase(keCurve, KeT(keCurve, x.by, x.eph, x.R) * KeT(keCurve, y.by, y.eph, y.R))
<1> DEFINE E == keCurve
           R == x.R
           i == x.by
           j == y.by
           sx == KeT(E, i, x.eph, R)
           tx == KeT(E, j, y.eph, R)
<1>1. /\ i \in Parties /\ j \in Parties /\ j = Peer(i) /\ i = Peer(j)
      /\ R[i] = TimesBase(E, x.eph) /\ R[j] = TimesBase(E, y.eph)
      /\ x.eph \in Nat /\ y.eph \in Nat
  BY ExchangeCurve DEF Logged, Peer, Parties
<1>2. PICK f \in Nat : MultipliesBy(E, f) /\ (E.h = 1 => f = 1)
  BY CofactorFactor
<1>3. /\ x.U = Product(E, Cofactored(E, sx), PeerPoint(E, i, R))
      /\ y.U = Product(E, Cofactored(E, tx), PeerPoint(E, j, R))
  <2>1. x = Computed(i, x.eph, R) /\ y = Computed(j, y.eph, R)
    BY DEF Logged
  <2>2. /\ Computed(i, x.eph, R).U = Product(E, Cofactored(E, sx), PeerPoint(E, i, R))
        /\ Computed(j, y.eph, R).U = Product(E, Cofactored(E, tx), PeerPoint(E, j, R))
    BY DEF Computed
  <2> QED BY <2>1, <2>2, Zenon
<1> HIDE DEF R, i, j
<1>4. sx \in Nat /\ tx \in Nat /\ x.U = TimesBase(E, f * (sx * tx))
  <2>1. R[Peer(i)] = TimesBase(E, y.eph)
    BY <1>1
  <2>2. /\ KeT(E, i, x.eph, R) \in Nat /\ KeT(E, Peer(i), y.eph, R) \in Nat
        /\ Product(E, Cofactored(E, KeT(E, i, x.eph, R)), PeerPoint(E, i, R))
             = TimesBase(E, f * (KeT(E, i, x.eph, R) * KeT(E, Peer(i), y.eph, R)))
    BY <1>1, <1>2, <2>1, SharedPoint
  <2> QED BY <1>1, <1>3, <2>2, Zenon
<1>5. y.U = TimesBase(E, f * (tx * sx))
  <2>1. R[Peer(j)] = TimesBase(E, x.eph)
    BY <1>1
  <2>2. Product(E, Cofactored(E, KeT(E, j, y.eph, R)), PeerPoint(E, j, R))
          = TimesBase(E, f * (KeT(E, j, y.eph, R) * KeT(E, Peer(j), x.eph, R)))
    BY <1>1, <1>2, <2>1, SharedPoint
  <2> QED BY <1>1, <1>3, <2>2, Zenon
<1> HIDE DEF sx, tx
<1>6. sx * tx = tx * sx
  BY <1>4, SMT
<1>7. f = 1 => f * (sx * tx) = sx * tx
  BY <1>4, SMT
<1>8. E.h = 1 => x.U = TimesBase(E, sx * tx)
  BY <1>2, <1>4, <1>7
<1> QED BY <1>4, <1>5, <1>6, <1>8 DEF sx, tx, R, i, j

-----------------------------------------------------------------------------
(* The key exchange's inductive invariant.                                 *)

\* Contexts have their fields.
IsContext(c) ==
  /\ c = [ready |-> c.ready, setup |-> c.setup, R |-> c.R, prec |-> c.prec, xy |-> c.xy, fresh |-> c.fresh]
  /\ c.R = [A |-> c.R["A"], B |-> c.R["B"]]

OfParties(f) == f = [i \in Parties |-> f[i]]

KeShape ==
  /\ OfParties(keCtx) /\ OfParties(keEph) /\ OfParties(keSentR) /\ OfParties(keStatus)
  /\ \A i \in Parties : IsContext(keCtx[i])

\* Nothing happens before a curve is chosen.
CurveFirst ==
  \/ keCurve \in KECurves /\ keCurve # NoCurve
  \/ keCurve = NoCurve /\ keLog = {} /\ \A i \in Parties : keEph[i] = 0 /\ keCtx[i] = NoContext /\ keStatus[i] = -1

\* An ephemeral key at hand is of a public key that was sent, and in no entry of the log.
KeyUnused(i) ==
  keEph[i] # 0 => /\ keEph[i] \in 1..(keCurve.n - 1)
                  /\ TimesBase(keCurve, keEph[i]) \in keSentR[i]
                  /\ \A x \in keLog : x.by = i => x.eph # keEph[i]

LogKept ==
  /\ \A x \in keLog : Logged(x)
  /\ \A x, y \in keLog : x.by = y.by /\ x.eph = y.eph => x = y

\* x is what party i has computed last.
LastOf(i, x) ==
  x.by = i /\ x.R = keCtx[i].R /\ x.U = keCtx[i].xy /\ keCtx[i].prec = PrecHash(x.U, x.R)

KeInv ==
  /\ KeShape /\ CurveFirst /\ LogKept /\ ConfirmedAgree
  /\ \A i \in Parties : KeyUnused(i) /\ (keCtx[i].fresh => \E x \in keLog : LastOf(i, x))

\* What the invariant says of the log is that the parties agree.
LEMMA KeAgreed == ASSUME KeInv PROVE KeysAgree
<1> SUFFICES ASSUME NEW x \in keLog, NEW y \in keLog
             PROVE  /\ x.by = y.by /\ x.eph = y.eph => x = y
                    /\ x.R = y.R => x.key = y.key
                    /\ x.R = y.R /\ x.by # y.by /\ keCurve.h = 1 =>
                         x.U = TimesBase(keCurve, KeT(keCurve, x.by, x.eph, x.R) * KeT(keCurve, y.by, y.eph, y.R))
  BY DEF KeysAgree
<1>1. keCurve \in KECurves /\ Logged(x) /\ Logged(y) /\ (x.by = y.by /\ x.eph = y.eph => x = y)
  BY DEF KeInv, CurveFirst, LogKept
<1>2. x.key = <<x.U, "ZA", "ZB">> /\ y.key = <<y.U, "ZA", "ZB">>
  <2>1. ASSUME NEW z, Logged(z) PROVE z.key = <<z.U, "ZA", "ZB">>
    <3>1. z = Computed(z.by, z.eph, z.R)
      BY <2>1 DEF Logged
    <3>2. Computed(z.by, z.eph, z.R).key = <<Computed(z.by, z.eph, z.R).U, "ZA", "ZB">>
      BY DEF Computed
    <3> QED BY <3>1, <3>2
  <2> QED BY <1>1, <2>1
<1>3. CASE x.R = y.R /\ x.by = y.by
  <2>1. x = y
    BY <1>1, <1>3, OwnEntries
  <2> QED BY <1>1, <1>3, <2>1
<1>4. CASE x.R = y.R /\ x.by # y.by
  BY <1>1, <1>2, <1>4, PeerEntries
<1> QED BY <1>1, <1>3, <1>4

\* A confirmation that fits is the peer's, of the same point and the same ephemeral public keys.
LEMMA ConfirmationFits ==
  ASSUME KeInv, NEW i \in Parties, NEW x \in keLog, LastOf(i, x), NEW y \in keLog,
         Confirmation(FirstNum(Peer(i)), keCtx[i].xy, keCtx[i].prec) = y.S
  PROVE  y.by = Peer(i) /\ y.R = x.R /\ y.key = x.key
<1>1. Logged(x) /\ Logged(y)
  BY DEF KeInv, LogKept
<1>2. y.S = Confirmation(FirstNum(y.by), y.U, PrecHash(y.U, y.R))
  <2>1. y = Computed(y.by, y.eph, y.R)
    BY <1>1 DEF Logged
  <2>2. Computed(y.by, y.eph, y.R).S
          = Confirmation(FirstNum(y.by), Computed(y.by, y.eph, y.R).U, PrecHash(Computed(y.by, y.eph, y.R).U, y.R))
    BY DEF Computed
  <2> QED BY <2>1, <2>2
<1>3. Confirmation(FirstNum(Peer(i)), x.U, PrecHash(x.U, x.R)) = Confirmation(FirstNum(y.by), y.U, PrecHash(y.U, y.R))
  BY <1>2 DEF LastOf
<1>4. FirstNum(Peer(i)) = FirstNum(y.by) /\ PrecHash(x.U, x.R) = PrecHash(y.U, y.R)
  BY <1>3 DEF Confirmation
<1>5. y.by = Peer(i)
  BY <1>1, <1>4 DEF Logged, FirstNum, Peer, Parties
<1>6. x.R["A"] = y.R["A"] /\ x.R["B"] = y.R["B"]
  BY <1>4 DEF PrecHash
<1>7. x.R = y.R
  BY <1>1, <1>6 DEF Logged
<1>8. x.key = y.key
  BY <1>7, KeAgreed DEF KeysAgree
<1> QED BY <1>5, <1>7, <1>8

\* An entry of the log stays one when more public keys are sent.
LEMMA LoggedStays ==
  ASSUME NEW x, Logged(x), keCurve' = keCurve, \A i \in Parties : keSentR[i] \subseteq keSentR'[i]
  PROVE  Logged(x)'
<1>1. Computed(x.by, x.eph, x.R)' = Computed(x.by, x.eph, x.R)
  BY DEF Computed, PeerPoint
<1> QED BY <1>1 DEF Logged

\* Before a curve is chosen nothing has happened.
LEMMA KeInitHolds == ASSUME KeInit PROVE KeInv
<1>1. KeShape
  <2>1. \A i \in Parties : keCtx[i] = NoContext
    BY DEF KeInit
  <2>2. IsContext(NoContext)
    BY DEF IsContext, NoContext, NoKeys
  <2>3. OfParties(keCtx) /\ OfParties(keEph) /\ OfParties(keSentR) /\ OfParties(keStatus)
    BY DEF KeInit, OfParties
  <2> QED BY <2>1, <2>2, <2>3 DEF KeShape
<1>2. CurveFirst
  BY DEF KeInit, CurveFirst
<1>3. LogKept
  BY DEF KeInit, LogKept
<1>4. ConfirmedAgree
  BY DEF KeInit, ConfirmedAgree
<1>5. \A i \in Parties : KeyUnused(i) /\ ~keCtx[i].fresh
  BY DEF KeInit, KeyUnused, NoContext
<1> QED BY <1>1, <1>2, <1>3, <1>4, <1>5 DEF KeInv

\* Choosing the curve is the first step.
LEMMA ChooseKeepsKe == ASSUME KeInv, KeChoose PROVE KeInv'
<1>1. /\ keCurve = NoCurve /\ keLog = {} /\ keLog' = keLog /\ keCurve' \in KECurves
      /\ \A i \in Parties : keEph[i] = 0 /\ keCtx[i] = NoContext /\ keStatus[i] = -1
      /\ keCtx' = keCtx /\ keEph' = keEph /\ keStatus' = keStatus /\ keSentR' = keSentR
  <2>1. NoCurve \notin KECurves
    <3>1. NoCurve.n = 0
      BY DEF NoCurve
    <3> QED BY <3>1, ExchangeCurve
  <2> QED BY <2>1 DEF KeInv, CurveFirst, KeChoose
<1>2. KeShape'
  BY <1>1 DEF KeInv, KeShape
<1>3. CurveFirst'
  <2>1. keCurve' # NoCurve
    <3>1. NoCurve.n = 0
      BY DEF NoCurve
    <3> QED BY <1>1, <3>1, ExchangeCurve
  <2> QED BY <1>1, <2>1 DEF CurveFirst
<1>4. LogKept'
  BY <1>1 DEF LogKept
<1>5. ConfirmedAgree'
  BY <1>1 DEF ConfirmedAgree
<1>6. \A i \in Parties : KeyUnused(i)' /\ ~keCtx'[i].fresh
  BY <1>1 DEF KeyUnused, NoContext
<1> QED BY <1>2, <1>3, <1>4, <1>5, <1>6 DEF KeInv

\* The log is kept while it and the curve stay.
LEMMA LogStays ==
  ASSUME KeInv, keLog' = keLog, keCurve' = keCurve, \A i \in Parties : keSentR[i] \subseteq keSentR'[i]
  PROVE  LogKept'
<1>1. \A x \in keLog : Logged(x)'
  BY LoggedStays DEF KeInv, LogKept
<1> QED BY <1>1 DEF KeInv, LogKept

\* The fields of a context, and one party's context replaced.
Fields(a, b, R, p, q, f) == [ready |-> a, setup |-> b, R |-> R, prec |-> p, xy |-> q, fresh |-> f]

With(g, i, c) == [j \in Parties |-> IF j = i THEN c ELSE g[j]]

\* The last replacement of a party's context is the one that counts.
LEMMA WithTwice ==
  ASSUME NEW g, OfParties(g), NEW i \in Parties, NEW c, NEW d
  PROVE  /\ OfParties(With(g, i, c)) /\ With(g, i, c)[i] = c /\ With(With(g, i, c), i, d) = With(g, i, d)
         /\ \A j \in Parties : j # i => With(g, i, c)[j] = g[j]
BY DEF With, OfParties

\* A party that starts over, or sets up, waits for a fresh key and a confirmation.
LEMMA ContextReset ==
  ASSUME KeInv, NEW i \in Parties, NEW c, IsContext(c), ~c.fresh, keCurve # NoCurve,
         keCtx' = With(keCtx, i, c), keStatus' = [keStatus EXCEPT ![i] = -1],
         UNCHANGED <<keCurve, keEph, keSentR, keLog>>
  PROVE  KeInv'
<1>0. OfParties(keCtx) /\ OfParties(keStatus)
  BY DEF KeInv, KeShape
<1>1. OfParties(keCtx') /\ keCtx'[i] = c /\ \A j \in Parties : j # i => keCtx'[j] = keCtx[j]
  BY <1>0, WithTwice
<1>2. OfParties(keStatus') /\ keStatus'[i] = -1 /\ \A j \in Parties : j # i => keStatus'[j] = keStatus[j]
  BY <1>0 DEF OfParties
<1>3. KeShape'
  BY <1>1, <1>2 DEF KeInv, KeShape
<1>4. CurveFirst'
  BY DEF KeInv, CurveFirst
<1>5. LogKept'
  BY LogStays
<1>6. ConfirmedAgree'
  BY <1>1, <1>2 DEF KeInv, ConfirmedAgree
<1>7. \A j \in Parties : KeyUnused(j)'
  BY DEF KeInv, KeyUnused
<1>8. \A j \in Parties : keCtx'[j].fresh => \E x \in keLog' : LastOf(j, x)'
  BY <1>1 DEF KeInv, LastOf
<1> QED BY <1>3, <1>4, <1>5, <1>6, <1>7, <1>8 DEF KeInv

\* Init starts the party's context over.
LEMMA StartKeepsKe == ASSUME KeInv, NEW i \in Parties, KeStart(i) PROVE KeInv'
<1> DEFINE no == FALSE
           yes == TRUE
           c == [NoContext EXCEPT !.ready = yes]
<1>1. NoContext = Fields(no, no, NoKeys, ZeroHash, NoPoint, no)
  BY Zenon DEF NoContext, Fields
<1>2. NoKeys = [A |-> NoKeys["A"], B |-> NoKeys["B"]]
  BY DEF NoKeys
<1>3. keCtx' = [keCtx EXCEPT ![i] = c]
  BY Zenon DEF KeStart
<1> HIDE DEF no, yes
<1>4. c = Fields(yes, no, NoKeys, ZeroHash, NoPoint, no)
  BY <1>1 DEF Fields
<1> HIDE DEF c
<1>5. IsContext(c) /\ c.fresh = no
  BY <1>2, <1>4 DEF IsContext, Fields
<1>6. keCtx' = With(keCtx, i, c)
  BY <1>3 DEF KeInv, KeShape, OfParties, With
<1> QED BY <1>5, <1>6, ContextReset DEF KeStart, no

\* Setup takes two ephemeral public keys and leaves no key confirmed.
LEMMA SetupKeepsKe == ASSUME KeInv, NEW i \in Parties, KeSetup(i) PROVE KeInv'
<1> DEFINE no == FALSE
           yes == TRUE
<1>1. PICK RA \in keSentR["A"], RB \in keSentR["B"] :
        keCtx' = [keCtx EXCEPT ![i].setup = yes, ![i].R = [A |-> RA, B |-> RB], ![i].fresh = no]
  BY Zenon DEF KeSetup
<1> HIDE DEF no, yes
<1> DEFINE f == keCtx
           d == f[i]
           rx == [A |-> RA, B |-> RB]
           c1 == Fields(d.ready, yes, d.R, d.prec, d.xy, d.fresh)
           c2 == Fields(d.ready, yes, rx, d.prec, d.xy, d.fresh)
           c == Fields(d.ready, yes, rx, d.prec, d.xy, no)
           g == [f EXCEPT ![i].setup = yes]
           h == [g EXCEPT ![i].R = rx]
<1>2. OfParties(f) /\ d = Fields(d.ready, d.setup, d.R, d.prec, d.xy, d.fresh)
  BY DEF KeInv, KeShape, IsContext, Fields
<1>3. keCtx' = [h EXCEPT ![i].fresh = no]
  BY <1>1, Zenon
<1>4. IsContext(c) /\ c.fresh = no
  BY DEF IsContext, Fields
<1> HIDE DEF f
<1>5. g = With(f, i, c1)
  BY <1>2 DEF OfParties, With, Fields
<1> HIDE DEF g
<1>6. h = With(f, i, c2)
  <2>1. OfParties(g) /\ g[i] = c1 /\ With(g, i, c2) = With(f, i, c2)
    BY <1>2, <1>5, WithTwice
  <2>2. h = With(g, i, c2)
    BY <2>1 DEF OfParties, With, Fields
  <2> QED BY <2>1, <2>2
<1> HIDE DEF h
<1>7. keCtx' = With(f, i, c)
  <2>1. OfParties(h) /\ h[i] = c2 /\ With(h, i, c) = With(f, i, c)
    BY <1>2, <1>6, WithTwice
  <2>2. keCtx' = With(h, i, c)
    BY <1>3, <2>1 DEF OfParties, With, Fields
  <2> QED BY <2>1, <2>2
<1>8. keCurve # NoCurve
  BY DEF KeInv, CurveFirst, KeSetup, NoContext
<1> HIDE DEF c
<1> QED BY <1>4, <1>7, <1>8, ContextReset DEF KeSetup, f, no

\* A new ephemeral key is in no entry of the log.
LEMMA DrawKeepsKe == ASSUME KeInv, NEW i \in Parties, DrawEphemeral(i) PROVE KeInv'
<1>1. PICK kx \in EphemeralKeys[keCurve][i] :
        /\ TimesBase(keCurve, kx) \notin keSentR[i]
        /\ keEph' = [keEph EXCEPT ![i] = kx]
        /\ keSentR' = [keSentR EXCEPT ![i] = @ \union {TimesBase(keCurve, kx)}]
  BY DEF DrawEphemeral
<1>2. keCurve \in KECurves /\ keCurve # NoCurve /\ UNCHANGED <<keCurve, keCtx, keLog, keStatus>>
  BY DEF DrawEphemeral, KeInv, CurveFirst
<1>3. kx \in 1..(keCurve.n - 1)
  BY <1>2, KeyExchangeAssumption
<1>4. OfParties(keEph) /\ OfParties(keSentR)
  BY DEF KeInv, KeShape
<1>5. OfParties(keEph') /\ keEph'[i] = kx /\ \A j \in Parties : j # i => keEph'[j] = keEph[j]
  BY <1>1, <1>4 DEF OfParties
<1>6. /\ OfParties(keSentR') /\ keSentR'[i] = keSentR[i] \union {TimesBase(keCurve, kx)}
      /\ \A j \in Parties : j # i => keSentR'[j] = keSentR[j]
  <2> DEFINE z == keSentR[i] \union {TimesBase(keCurve, kx)}
  <2>1. keSentR' = [keSentR EXCEPT ![i] = z]
    BY <1>1
  <2> HIDE DEF z
  <2>2. OfParties(keSentR') /\ keSentR'[i] = z /\ \A j \in Parties : j # i => keSentR'[j] = keSentR[j]
    BY <1>4, <2>1 DEF OfParties
  <2> QED BY <2>2 DEF z
<1>7. KeShape'
  BY <1>2, <1>5, <1>6 DEF KeInv, KeShape
<1>8. CurveFirst'
  BY <1>2 DEF CurveFirst
<1>9. LogKept'
  <2>1. \A j \in Parties : keSentR[j] \subseteq keSentR'[j]
    BY <1>6
  <2> QED BY <1>2, <2>1, LogStays
<1>10. ConfirmedAgree'
  BY <1>2 DEF KeInv, ConfirmedAgree
<1>11. ASSUME NEW j \in Parties PROVE KeyUnused(j)'
  <2>1. CASE j = i
    <3>1. ASSUME NEW x \in keLog, x.by = i, x.eph = kx PROVE FALSE
      <4>1. Logged(x)
        BY DEF KeInv, LogKept
      <4>2. TimesBase(keCurve, kx) \in keSentR[i]
        BY <3>1, <4>1 DEF Logged
      <4> QED BY <1>1, <4>2
    <3>2. TimesBase(keCurve, kx)' \in keSentR'[i]
      <4>1. TimesBase(keCurve, kx)' = TimesBase(keCurve, kx)
        BY <1>2 DEF TimesBase
      <4> QED BY <1>6, <4>1
    <3> QED BY <1>2, <1>3, <1>5, <2>1, <3>1, <3>2 DEF KeyUnused
  <2>2. CASE j # i
    BY <1>2, <1>5, <1>6, <2>2 DEF KeInv, KeyUnused
  <2> QED BY <2>1, <2>2
<1>12. \A j \in Parties : keCtx'[j].fresh => \E x \in keLog' : LastOf(j, x)'
  BY <1>2 DEF KeInv, LastOf
<1> QED BY <1>7, <1>8, <1>9, <1>10, <1>11, <1>12 DEF KeInv

\* A confirmation that fits is the peer's.
LEMMA ConfirmKeepsKe == ASSUME KeInv, NEW i \in Parties, KeConfirm(i) PROVE KeInv'
<1>1. PICK sent \in {x \in keLog : x.ok} :
        keStatus' = [keStatus EXCEPT ![i] =
          IF Confirmation(FirstNum(Peer(i)), keCtx[i].xy, keCtx[i].prec) = sent.S THEN 1 ELSE 0]
  BY DEF KeConfirm
<1> DEFINE fits == Confirmation(FirstNum(Peer(i)), keCtx[i].xy, keCtx[i].prec) = sent.S
           z == IF fits THEN 1 ELSE 0
<1>2. keStatus' = [keStatus EXCEPT ![i] = z] /\ UNCHANGED <<keCurve, keCtx, keEph, keSentR, keLog>>
  BY <1>1 DEF KeConfirm
<1>3. OfParties(keStatus)
  BY DEF KeInv, KeShape
<1>4. OfParties(keStatus') /\ keStatus'[i] = z /\ \A j \in Parties : j # i => keStatus'[j] = keStatus[j]
  <2> HIDE DEF z
  <2> QED BY <1>2, <1>3 DEF OfParties
<1>5. z = 1 => fits
  OBVIOUS
<1> HIDE DEF z, fits
<1>6. KeShape'
  BY <1>2, <1>4 DEF KeInv, KeShape
<1>7. CurveFirst'
  <2>1. keCurve \in KECurves /\ keCurve # NoCurve
    BY DEF KeInv, CurveFirst, KeConfirm, NoContext
  <2> QED BY <1>2, <2>1 DEF CurveFirst
<1>8. LogKept'
  BY <1>2, LogStays
<1>9. ConfirmedAgree'
  <2>1. SUFFICES ASSUME NEW j \in Parties, keStatus'[j] = 1, keCtx[j].fresh
                 PROVE  \E x, y \in keLog : /\ x.by = j /\ y.by = Peer(j) /\ x.R = keCtx[j].R
                                            /\ y.R = x.R /\ y.key = x.key
    BY <1>2 DEF ConfirmedAgree
  <2>2. CASE j = i
    <3>1. PICK x \in keLog : LastOf(i, x)
      BY <2>1, <2>2 DEF KeInv
    <3>2. fits
      BY <1>4, <1>5, <2>1, <2>2
    <3>3. sent.by = Peer(i) /\ sent.R = x.R /\ sent.key = x.key /\ sent \in keLog
      BY <3>1, <3>2, ConfirmationFits DEF fits
    <3>4. x.by = i /\ x.R = keCtx[i].R
      BY <3>1 DEF LastOf
    <3> QED BY <2>2, <3>3, <3>4
  <2>3. CASE j # i
    <3>1. keStatus[j] = 1
      BY <1>4, <2>1, <2>3
    <3> QED BY <2>1, <3>1 DEF KeInv, ConfirmedAgree
  <2> QED BY <2>2, <2>3
<1>10. \A j \in Parties : KeyUnused(j)'
  BY <1>2 DEF KeInv, KeyUnused
<1>11. \A j \in Parties : keCtx'[j].fresh => \E x \in keLog' : LastOf(j, x)'
  BY <1>2 DEF KeInv, LastOf
<1> QED BY <1>6, <1>7, <1>8, <1>9, <1>10, <1>11 DEF KeInv

\* SharedKey uses up the ephemeral key and logs what it computes.
LEMMA SharedKeyKeepsKe == ASSUME KeInv, NEW i \in Parties, KeSharedKey(i) PROVE KeInv'
<1> DEFINE yes == TRUE
           f == keCtx
           d == f[i]
           R == d.R
           kx == keEph[i]
           U == Product(keCurve, Cofactored(keCurve, KeT(keCurve, i, kx, R)), PeerPoint(keCurve, i, R))
           p == PrecHash(U, R)
           e == Computed(i, kx, R)
           c == Fields(d.ready, d.setup, R, p, U, yes)
<1>1. /\ kx # 0 /\ TimesBase(keCurve, kx) = R[i]
      /\ keCtx' = [f EXCEPT ![i].xy = U, ![i].prec = p, ![i].fresh = yes]
      /\ keEph' = [keEph EXCEPT ![i] = 0] /\ keStatus' = [keStatus EXCEPT ![i] = -1]
      /\ UNCHANGED <<keCurve, keSentR>>
  BY Zenon DEF KeSharedKey, EphemeralAfter
<1>2. keLog' = keLog \union {e}
  BY Zenon DEF KeSharedKey, Computed
<1>3. keCurve \in KECurves /\ keCurve # NoCurve
  BY DEF KeInv, CurveFirst, KeSharedKey, NoContext
<1>4. e.by = i /\ e.eph = kx /\ e.R = R /\ e.U = U
  BY DEF Computed
<1> HIDE DEF yes, U, p, e
<1>5. keCtx' = With(f, i, c) /\ OfParties(f) /\ IsContext(d)
  <2> DEFINE c1 == Fields(d.ready, d.setup, R, d.prec, U, d.fresh)
             c2 == Fields(d.ready, d.setup, R, p, U, d.fresh)
             g == [f EXCEPT ![i].xy = U]
             h == [g EXCEPT ![i].prec = p]
  <2>1. OfParties(f) /\ IsContext(d) /\ d = Fields(d.ready, d.setup, R, d.prec, d.xy, d.fresh)
    BY DEF KeInv, KeShape, IsContext, Fields
  <2>2. keCtx' = [h EXCEPT ![i].fresh = yes]
    BY <1>1, Zenon
  <2> HIDE DEF f
  <2>3. g = With(f, i, c1)
    BY <2>1 DEF OfParties, With, Fields
  <2> HIDE DEF g
  <2>4. h = With(f, i, c2)
    <3>1. OfParties(g) /\ g[i] = c1 /\ With(g, i, c2) = With(f, i, c2)
      BY <2>1, <2>3, WithTwice
    <3>2. h = With(g, i, c2)
      BY <3>1 DEF OfParties, With, Fields
    <3> QED BY <3>1, <3>2
  <2> HIDE DEF h
  <2>5. keCtx' = With(f, i, c)
    <3>1. OfParties(h) /\ h[i] = c2 /\ With(h, i, c) = With(f, i, c)
      BY <2>1, <2>4, WithTwice
    <3>2. keCtx' = With(h, i, c)
      BY <2>2, <3>1 DEF OfParties, With, Fields
    <3> QED BY <3>1, <3>2
  <2> QED BY <2>1, <2>5
<1>6. OfParties(keCtx') /\ keCtx'[i] = c /\ \A j \in Parties : j # i => keCtx'[j] = keCtx[j]
  BY <1>5, WithTwice
<1>7. c.R = R /\ c.xy = U /\ c.prec = p /\ IsContext(c) /\ R = [A |-> R["A"], B |-> R["B"]]
  BY <1>5 DEF IsContext, Fields
<1> HIDE DEF c
<1>8. OfParties(keEph) /\ OfParties(keStatus)
  BY DEF KeInv, KeShape
<1>9. OfParties(keEph') /\ keEph'[i] = 0 /\ \A j \in Parties : j # i => keEph'[j] = keEph[j]
  BY <1>1, <1>8 DEF OfParties
<1>10. OfParties(keStatus') /\ keStatus'[i] = -1 /\ \A j \in Parties : j # i => keStatus'[j] = keStatus[j]
  BY <1>1, <1>8 DEF OfParties
<1>11. KeShape'
  BY <1>1, <1>6, <1>7, <1>9, <1>10 DEF KeInv, KeShape
<1>12. CurveFirst'
  BY <1>1, <1>3 DEF CurveFirst
<1>13. kx \in 1..(keCurve.n - 1) /\ TimesBase(keCurve, kx) \in keSentR[i] /\ \A x \in keLog : x.by = i => x.eph # kx
  BY <1>1 DEF KeInv, KeyUnused
<1>14. Logged(e)
  BY <1>1, <1>4, <1>7, <1>13 DEF Logged, e
<1>15. LogKept'
  <2>1. \A x \in keLog \union {e} : Logged(x)'
    BY <1>1, <1>14, LoggedStays DEF KeInv, LogKept
  <2>2. \A x, y \in keLog \union {e} : x.by = y.by /\ x.eph = y.eph => x = y
    BY <1>4, <1>13 DEF KeInv, LogKept
  <2> QED BY <1>2, <2>1, <2>2 DEF LogKept
<1>16. ConfirmedAgree'
  <2>1. SUFFICES ASSUME NEW j \in Parties, keStatus'[j] = 1, keCtx'[j].fresh
                 PROVE  \E x, y \in keLog' : /\ x.by = j /\ y.by = Peer(j) /\ x.R = keCtx'[j].R
                                             /\ y.R = x.R /\ y.key = x.key
    BY DEF ConfirmedAgree
  <2>2. j # i
    BY <1>10, <2>1
  <2>3. keStatus[j] = 1 /\ keCtx'[j] = keCtx[j]
    BY <1>6, <1>10, <2>1, <2>2
  <2>4. \E x, y \in keLog : /\ x.by = j /\ y.by = Peer(j) /\ x.R = keCtx[j].R
                            /\ y.R = x.R /\ y.key = x.key
    BY <2>1, <2>3 DEF KeInv, ConfirmedAgree
  <2> QED BY <1>2, <2>3, <2>4
<1>17. ASSUME NEW j \in Parties PROVE KeyUnused(j)'
  <2>1. CASE j = i
    BY <1>9, <2>1 DEF KeyUnused
  <2>2. CASE j # i
    <3>1. KeyUnused(j) /\ keEph'[j] = keEph[j]
      BY <1>9, <2>2 DEF KeInv
    <3>2. TimesBase(keCurve, keEph[j])' = TimesBase(keCurve, keEph[j])
      BY <1>1, <3>1 DEF TimesBase
    <3> QED BY <1>1, <1>2, <1>4, <2>2, <3>1, <3>2 DEF KeyUnused
  <2> QED BY <2>1, <2>2
<1>18. ASSUME NEW j \in Parties, keCtx'[j].fresh PROVE \E x \in keLog' : LastOf(j, x)'
  <2>1. CASE j = i
    <3>1. keCtx'[i].R = R /\ keCtx'[i].xy = U /\ keCtx'[i].prec = PrecHash(U, R)
      BY <1>6, <1>7 DEF p
    <3>2. e.by = i /\ e.R = keCtx'[i].R /\ e.U = keCtx'[i].xy /\ keCtx'[i].prec = PrecHash(e.U, e.R)
      BY <1>4, <3>1
    <3>3. PICK x \in keLog' : x = e
      BY <1>2
    <3>4. LastOf(i, x)'
      BY <3>2, <3>3 DEF LastOf
    <3> QED BY <2>1, <3>4
  <2>2. CASE j # i
    <3>1. keCtx'[j] = keCtx[j]
      BY <1>6, <2>2
    <3>2. \E x \in keLog : LastOf(j, x)
      BY <1>18, <3>1 DEF KeInv
    <3> QED BY <1>2, <3>1, <3>2 DEF LastOf
  <2> QED BY <2>1, <2>2
<1> QED BY <1>11, <1>12, <1>15, <1>16, <1>17, <1>18 DEF KeInv

\* Every step keeps the invariant.
LEMMA KeStep == KeInv /\ [KeNext]_keVars => KeInv'
<1> SUFFICES ASSUME KeInv, [KeNext]_keVars PROVE KeInv'
  OBVIOUS
<1>1. CASE KeChoose
  BY <1>1, ChooseKeepsKe
<1>2. ASSUME NEW i \in Parties, KeStart(i) PROVE KeInv'
  BY <1>2, StartKeepsKe
<1>3. ASSUME NEW i \in Parties, DrawEphemeral(i) PROVE KeInv'
  BY <1>3, DrawKeepsKe
<1>4. ASSUME NEW i \in Parties, KeSetup(i) PROVE KeInv'
  BY <1>4, SetupKeepsKe
<1>5. ASSUME NEW i \in Parties, KeSharedKey(i) PROVE KeInv'
  BY <1>5, SharedKeyKeepsKe
<1>6. ASSUME NEW i \in Parties, KeConfirm(i) PROVE KeInv'
  BY <1>6, ConfirmKeepsKe
<1>7. CASE UNCHANGED keVars
  <2>1. UNCHANGED <<keCurve, keCtx, keEph, keSentR, keLog, keStatus>>
    BY <1>7 DEF keVars
  <2>2. KeShape' /\ CurveFirst' /\ ConfirmedAgree'
    BY <2>1 DEF KeInv, KeShape, CurveFirst, ConfirmedAgree
  <2>3. LogKept'
    BY <2>1, LogStays
  <2>4. \A i \in Parties : KeyUnused(i)' /\ (keCtx'[i].fresh => \E x \in keLog' : LastOf(i, x)')
    BY <2>1 DEF KeInv, KeyUnused, LastOf
  <2> QED BY <2>2, <2>3, <2>4 DEF KeInv
<1> QED BY <1>1, <1>2, <1>3, <1>4, <1>5, <1>6, <1>7 DEF KeNext

\* An ephemeral private key is in no shared key until SharedKey uses it up, and what a
\* context holds after SharedKey is what it logged last.
THEOREM ExchangeInvariance == KeSpec => []KeInv
<1> QED BY KeInitHolds, KeStep, PTL DEF KeSpec

\* In ippsGFpECKeyExchangeSM2 two parties with the same ephemeral public keys derive the
\* same shared key, on every curve, for every key and order of the calls, and no ephemeral
\* key goes into two shared keys.
THEOREM KeysAlwaysAgree == KeSpec => []KeysAgree
<1>1. KeInv => KeysAgree
  BY KeAgreed
<1> QED BY <1>1, ExchangeInvariance, PTL

\* ippsGFpECKeyExchangeSM2_Confirm succeeds after SharedKey only if the peer has derived
\* the same key from the same ephemeral public keys, whatever was sent in other exchanges.
THEOREM ConfirmedAlwaysAgree == KeSpec => []ConfirmedAgree
<1>1. KeInv => ConfirmedAgree
  BY DEF KeInv
<1> QED BY <1>1, ExchangeInvariance, PTL

-----------------------------------------------------------------------------
(* Integers that differ by a multiple of m.                                *)

Alike(x, y, m) == \E q \in Int : x = y + q * m

\* A relation that sums, differences and products respect.
LEMMA AlikeItself ==
  ASSUME NEW m \in Nat \ {0}, NEW x \in Int
  PROVE  Alike(x, x, m)
<1>1. 0 \in Int /\ x = x + 0 * m
  OBVIOUS
<1> QED BY <1>1 DEF Alike

\* It goes both ways,
LEMMA AlikeBack ==
  ASSUME NEW m \in Nat \ {0}, NEW x \in Int, NEW y \in Int, Alike(x, y, m)
  PROVE  Alike(y, x, m)
<1>1. PICK q \in Int : x = y + q * m
  BY DEF Alike
<1> DEFINE p == -q
<1>2. p \in Int /\ y = x + p * m
  BY <1>1, SMT
<1> QED BY <1>2 DEF Alike

\* and from one number on to the next.
LEMMA AlikeOn ==
  ASSUME NEW m \in Nat \ {0}, NEW x \in Int, NEW y \in Int, NEW z \in Int, Alike(x, y, m), Alike(y, z, m)
  PROVE  Alike(x, z, m)
<1>1. PICK q \in Int : x = y + q * m
  BY DEF Alike
<1>2. PICK p \in Int : y = z + p * m
  BY DEF Alike
<1> DEFINE o == q + p
<1>3. o \in Int /\ x = z + o * m
  BY <1>1, <1>2, SMT
<1> QED BY <1>3 DEF Alike

\* Sums and differences of such numbers are such numbers,
LEMMA AlikeSum ==
  ASSUME NEW m \in Nat \ {0}, NEW x \in Int, NEW y \in Int, NEW a \in Int, NEW b \in Int,
         Alike(x, y, m), Alike(a, b, m)
  PROVE  Alike(x + a, y + b, m) /\ Alike(x - a, y - b, m)
<1>1. PICK q \in Int : x = y + q * m
  BY DEF Alike
<1>2. PICK p \in Int : a = b + p * m
  BY DEF Alike
<1> DEFINE o == q + p
           d == q - p
<1>3. o \in Int /\ x + a = (y + b) + o * m
  BY <1>1, <1>2, SMT
<1>4. d \in Int /\ x - a = (y - b) + d * m
  BY <1>1, <1>2, SMT
<1> QED BY <1>3, <1>4 DEF Alike

\* and so are products.
LEMMA AlikeProduct ==
  ASSUME NEW m \in Nat \ {0}, NEW x \in Int, NEW y \in Int, NEW a \in Int, NEW b \in Int,
         Alike(x, y, m), Alike(a, b, m)
  PROVE  Alike(x * a, y * b, m)
<1>1. PICK q \in Int : x = y + q * m
  BY DEF Alike
<1>2. PICK p \in Int : a = b + p * m
  BY DEF Alike
<1> DEFINE o == q * a + y * p
<1>3. o \in Int
  BY SMT
<1>4. x * a = y * b + o * m
  <2>1. x * a = (y + q * m) * a /\ (y + q * m) * a = y * a + (q * m) * a
    BY <1>1, SMT
  <2>2. y * a = y * (b + p * m) /\ y * (b + p * m) = y * b + y * (p * m)
    BY <1>2, SMT
  <2>3. (q * m) * a + y * (p * m) = o * m
    BY SMT
  <2>4. /\ x * a \in Int /\ y * a \in Int /\ (q * m) * a \in Int /\ y * b \in Int /\ y * (p * m) \in Int
        /\ o * m \in Int
    BY <1>3, SMT
  <2> HIDE DEF o
  <2> QED BY <2>1, <2>2, <2>3, <2>4
<1> QED BY <1>3, <1>4 DEF Alike

\* The rest is a number below m like the number.
LEMMA RestAlike ==
  ASSUME NEW m \in Nat \ {0}, NEW x \in Int
  PROVE  x % m \in 0..(m - 1) /\ Alike(x % m, x, m) /\ Alike(x, x % m, m)
<1>1. x % m \in 0..(m - 1) /\ x \div m \in Int /\ x = m * (x \div m) + (x % m)
  BY SMT
<1> DEFINE q == x \div m
           o == x % m
<1>2. q \in Int /\ o \in Int /\ x = o + q * m
  BY <1>1
<1> HIDE DEF q, o
<1>3. Alike(x, o, m)
  BY <1>2 DEF Alike
<1> QED BY <1>1, <1>2, <1>3, AlikeBack DEF o

\* Below m there is only one.
LEMMA AlikeBelow ==
  ASSUME NEW m \in Nat \ {0}, NEW x \in 0..(m - 1), NEW y \in 0..(m - 1), Alike(x, y, m)
  PROVE  x = y
<1>1. PICK q \in Int : x = y + q * m
  BY DEF Alike
<1>2. CASE q = 0
  BY <1>1, <1>2
<1>3. CASE q > 0
  <2>1. q * m >= m
    BY <1>3, SMT
  <2> QED BY <1>1, <2>1
<1>4. CASE q < 0
  <2> DEFINE p == -q
  <2>1. p \in Nat /\ p > 0 /\ q * m = -(p * m) /\ p * m \in Nat
    BY <1>4, SMT
  <2> HIDE DEF p
  <2>2. p * m >= m
    BY <2>1, SMT
  <2> QED BY <1>1, <2>1, <2>2
<1> QED BY <1>2, <1>3, <1>4

\* They are the numbers of the same rest.
LEMMA AlikeRests ==
  ASSUME NEW m \in Nat \ {0}, NEW x \in Int, NEW y \in Int
  PROVE  Alike(x, y, m) <=> x % m = y % m
<1>1. ASSUME Alike(x, y, m) PROVE x % m = y % m
  <2>1. x % m \in 0..(m - 1) /\ y % m \in 0..(m - 1) /\ Alike(x % m, x, m) /\ Alike(y, y % m, m)
    BY RestAlike
  <2>2. x % m \in Int /\ y % m \in Int
    BY <2>1
  <2>3. Alike(x % m, y % m, m)
    BY <1>1, <2>1, <2>2, AlikeOn
  <2> QED BY <2>1, <2>3, AlikeBelow
<1>2. ASSUME x % m = y % m PROVE Alike(x, y, m)
  <2>1. x % m \in 0..(m - 1) /\ Alike(x, x % m, m) /\ Alike(y % m, y, m)
    BY RestAlike
  <2>2. x % m \in Int
    BY <2>1
  <2> QED BY <1>2, <2>1, <2>2, AlikeOn
<1> QED BY <1>1, <1>2

\* What prime moduli are known for: every number below has an inverse.
PrimeField(p) == p \in Nat /\ p > 3 /\ \A x \in 1..(p - 1) : \E y \in 1..(p - 1) : (x * y) % p = 1

\* Inv is the inverse.
LEMMA InverseIs ==
  ASSUME NEW E \in Curves, PrimeField(E.p), NEW x \in 1..(E.p - 1)
  PROVE  Inv(x, E.p) \in 1..(E.p - 1) /\ Alike(x * Inv(x, E.p), 1, E.p)
<1> DEFINE p == E.p
           y == Inv(x, p)
<1>1. \E z \in 1..(p - 1) : (x * z) % p = 1
  BY DEF PrimeField
<1>2. y = CHOOSE z \in 1..(p - 1) : (x * z) % p = 1
  BY DEF Inv, Inverses
<1>3. y \in 1..(p - 1) /\ (x * y) % p = 1
  BY <1>1, <1>2
<1> HIDE DEF y
<1>4. p \in Nat \ {0} /\ x * y \in Int
  BY <1>3, SMT DEF PrimeField
<1>5. Alike(x * y, (x * y) % p, p)
  BY <1>4, RestAlike
<1> QED BY <1>3, <1>5 DEF y

\* A factor that is not zero cancels out.
LEMMA CancelFactor ==
  ASSUME NEW p, PrimeField(p), NEW a \in Int, ~Alike(a, 0, p), NEW x \in Int, NEW y \in Int,
         Alike(a * x, a * y, p)
  PROVE  Alike(x, y, p)
<1>0. p \in Nat \ {0} /\ p \in Int
  BY DEF PrimeField
<1> DEFINE b == a % p
<1>1. b \in 0..(p - 1) /\ Alike(a, b, p)
  BY <1>0, RestAlike
<1>2. b \in 1..(p - 1)
  BY <1>1
<1>3. PICK c \in 1..(p - 1) : (b * c) % p = 1
  BY <1>2 DEF PrimeField
<1> HIDE DEF b
<1>4. b \in Int /\ c \in Int /\ b * c \in Int /\ a * c \in Int /\ 1 \in Int
  BY <1>2, <1>3, SMT
<1>5. Alike(b * c, 1, p)
  BY <1>0, <1>3, <1>4, RestAlike
<1>6. Alike(a * c, b * c, p)
  BY <1>0, <1>1, <1>4, AlikeProduct, AlikeItself
<1>7. Alike(a * c, 1, p)
  BY <1>0, <1>4, <1>5, <1>6, AlikeOn
<1>8. ASSUME NEW z \in Int PROVE Alike((a * z) * c, z, p) /\ Alike(z, (a * z) * c, p)
  <2>1. Alike((a * c) * z, 1 * z, p)
    BY <1>0, <1>4, <1>7, AlikeProduct, AlikeItself
  <2>2. (a * c) * z = (a * z) * c /\ 1 * z = z /\ (a * z) * c \in Int
    BY <1>4, SMT
  <2> QED BY <1>0, <2>1, <2>2, AlikeBack
<1>9. a * x \in Int /\ a * y \in Int /\ (a * x) * c \in Int /\ (a * y) * c \in Int
  BY <1>4, SMT
<1>10. Alike((a * x) * c, (a * y) * c, p)
  BY <1>0, <1>4, <1>9, AlikeProduct, AlikeItself
<1>11. Alike(x, (a * x) * c, p) /\ Alike((a * y) * c, y, p)
  BY <1>8
<1>12. Alike(x, (a * y) * c, p)
  BY <1>0, <1>9, <1>10, <1>11, AlikeOn
<1> QED BY <1>0, <1>9, <1>11, <1>12, AlikeOn

\* A product is zero only if a factor is.
LEMMA NoZeroProduct ==
  ASSUME NEW p, PrimeField(p), NEW a \in Int, NEW b \in Int, Alike(a * b, 0, p)
  PROVE  Alike(a, 0, p) \/ Alike(b, 0, p)
<1>1. a * 0 = 0 /\ 0 \in Int
  BY SMT
<1> QED BY <1>1, CancelFactor

\* Below the modulus nothing but zero is like zero.
LEMMA SmallNotZero ==
  ASSUME NEW p, PrimeField(p), NEW a \in 0..(p - 1)
  PROVE  Alike(a, 0, p) <=> a = 0
<1>1. p \in Nat \ {0} /\ 0 \in 0..(p - 1)
  BY DEF PrimeField
<1> QED BY <1>1, AlikeBelow, AlikeItself

-----------------------------------------------------------------------------
(* Jacobian coordinates.                                                   *)

\* P has three coordinates in the field.
Coordinates(p, P) ==
  P = <<P[1], P[2], P[3]>> /\ P[1] \in 0..(p - 1) /\ P[2] \in 0..(p - 1) /\ P[3] \in 0..(p - 1)

\* P stands for the affine point (x, y).
Stands(p, P, x, y) ==
  /\ Coordinates(p, P) /\ P[3] # 0 /\ x \in 0..(p - 1) /\ y \in 0..(p - 1)
  /\ Alike(P[1], x * P[3] * P[3], p) /\ Alike(P[2], y * P[3] * P[3] * P[3], p)

\* Three factors and three more.
LEMMA CubesMeet ==
  ASSUME NEW y \in Int, NEW a \in Int, NEW b \in Int
  PROVE  (y * a * a * a) * (b * (b * b)) = y * (((a * b) * (a * b)) * (a * b))
BY SMT

\* gfec_GetPoint gives the affine point.
LEMMA AffineIs ==
  ASSUME NEW E \in Curves, PrimeField(E.p), NEW P, NEW x, NEW y, Stands(E.p, P, x, y)
  PROVE  Affine(E, P) = <<x, y>>
<1> DEFINE p == E.p
           X == P[1]
           Y == P[2]
           Z == P[3]
           zi == Inv(Z, p)
           ti == (zi * zi) % p
           xi == (X * ti) % p
           yi == (Y * ((zi * ti) % p)) % p
<1>1. /\ p \in Nat \ {0} /\ X \in 0..(p - 1) /\ Y \in 0..(p - 1) /\ Z \in 1..(p - 1)
      /\ x \in 0..(p - 1) /\ y \in 0..(p - 1)
      /\ Alike(X, x * Z * Z, p) /\ Alike(Y, y * Z * Z * Z, p)
  BY DEF Stands, Coordinates, PrimeField
<1>2. zi \in 1..(p - 1) /\ Alike(Z * zi, 1, p)
  BY <1>1, InverseIs
<1>3. Affine(E, P) = <<xi, yi>>
  BY <1>1 DEF Affine
<1> HIDE DEF X, Y, Z, zi, p
<1>4. /\ X \in Int /\ Y \in Int /\ Z \in Int /\ x \in Int /\ y \in Int /\ zi \in Int /\ 1 \in Int
      /\ zi * zi \in Int /\ Z * zi \in Int
  BY <1>1, <1>2, SMT
<1>5. ti \in Int /\ Alike(ti, zi * zi, p)
  BY <1>1, <1>4, RestAlike
<1> HIDE DEF ti
<1>6. zi * ti \in Int /\ (zi * ti) % p \in Int /\ Alike((zi * ti) % p, zi * ti, p)
  <2>1. zi * ti \in Int
    BY <1>4, <1>5, SMT
  <2>2. (zi * ti) % p \in 0..(p - 1) /\ Alike((zi * ti) % p, zi * ti, p)
    BY <1>1, <2>1, RestAlike
  <2> QED BY <2>1, <2>2
<1>7. Alike(zi * ti, zi * (zi * zi), p) /\ zi * (zi * zi) \in Int
  <2>1. zi * (zi * zi) \in Int
    BY <1>4, SMT
  <2> QED BY <1>1, <1>4, <1>5, <2>1, AlikeProduct, AlikeItself
<1> DEFINE wi == (zi * ti) % p
<1>8. wi \in Int /\ Alike(wi, zi * (zi * zi), p)
  BY <1>1, <1>6, <1>7, AlikeOn
<1> HIDE DEF wi
<1>9. Alike((Z * zi) * (Z * zi), 1, p) /\ (Z * zi) * (Z * zi) \in Int
  <2>1. (Z * zi) * (Z * zi) \in Int /\ 1 * 1 = 1
    BY <1>4, SMT
  <2> QED BY <1>1, <1>2, <1>4, <2>1, AlikeProduct
<1>10. Alike(X * ti, x, p)
  <2>1. x * Z * Z \in Int /\ X * ti \in Int
    BY <1>4, <1>5, SMT
  <2>2. Alike(X * ti, (x * Z * Z) * (zi * zi), p) /\ (x * Z * Z) * (zi * zi) \in Int
    <3>1. (x * Z * Z) * (zi * zi) \in Int
      BY <1>4, <2>1, SMT
    <3> QED BY <1>1, <1>4, <1>5, <2>1, <3>1, AlikeProduct
  <2>3. (x * Z * Z) * (zi * zi) = x * ((Z * zi) * (Z * zi)) /\ x * 1 = x
    BY <1>4, SMT
  <2>4. Alike(x * ((Z * zi) * (Z * zi)), x * 1, p)
    BY <1>1, <1>4, <1>9, AlikeProduct, AlikeItself
  <2> QED BY <1>1, <1>4, <2>1, <2>2, <2>3, <2>4, AlikeOn
<1>11. Alike(Y * wi, y, p)
  <2>1. y * Z * Z * Z \in Int /\ Y * wi \in Int /\ zi * (zi * zi) \in Int
    BY <1>4, <1>8, SMT
  <2>2. Alike(Y * wi, (y * Z * Z * Z) * (zi * (zi * zi)), p) /\ (y * Z * Z * Z) * (zi * (zi * zi)) \in Int
    <3>1. (y * Z * Z * Z) * (zi * (zi * zi)) \in Int
      BY <2>1, SMT
    <3> QED BY <1>1, <1>4, <1>8, <2>1, <3>1, AlikeProduct
  <2>3. Alike(((Z * zi) * (Z * zi)) * (Z * zi), 1, p) /\ ((Z * zi) * (Z * zi)) * (Z * zi) \in Int
    <3>1. ((Z * zi) * (Z * zi)) * (Z * zi) \in Int /\ 1 * 1 = 1
      BY <1>4, SMT
    <3> QED BY <1>1, <1>2, <1>4, <1>9, <3>1, AlikeProduct
  <2>4. (y * Z * Z * Z) * (zi * (zi * zi)) = y * (((Z * zi) * (Z * zi)) * (Z * zi)) /\ y * 1 = y
    <3>1. (y * Z * Z * Z) * (zi * (zi * zi)) = y * (((Z * zi) * (Z * zi)) * (Z * zi))
      BY <1>4, CubesMeet
    <3> QED BY <1>4, <3>1
  <2>5. Alike(y * (((Z * zi) * (Z * zi)) * (Z * zi)), y * 1, p)
    BY <1>1, <1>4, <2>3, AlikeProduct, AlikeItself
  <2> QED BY <1>1, <1>4, <2>1, <2>2, <2>4, <2>5, AlikeOn
<1>12. xi = x /\ yi = y
  <2>1. X * ti \in Int /\ Y * wi \in Int
    BY <1>4, <1>5, <1>8, SMT
  <2>2. xi \in 0..(p - 1) /\ Alike(xi, X * ti, p)
    BY <1>1, <2>1, RestAlike
  <2>3. yi \in 0..(p - 1) /\ Alike(yi, Y * wi, p)
    BY <1>1, <2>1, RestAlike DEF wi
  <2>4. xi \in Int /\ yi \in Int
    BY <2>2, <2>3
  <2> HIDE DEF xi, yi
  <2>5. Alike(xi, x, p) /\ Alike(yi, y, p)
    BY <1>1, <1>4, <1>10, <1>11, <2>1, <2>2, <2>3, <2>4, AlikeOn
  <2> QED BY <1>1, <2>2, <2>3, <2>5, AlikeBelow
<1> QED BY <1>3, <1>12

\* Two and three factors may be exchanged for ones like them.
LEMMA AlikeSquare ==
  ASSUME NEW m \in Nat \ {0}, NEW f \in Int, NEW x \in Int, NEW y \in Int, Alike(x, y, m)
  PROVE  /\ Alike(f * x * x, f * y * y, m) /\ Alike(f * x * x * x, f * y * y * y, m)
         /\ f * x * x \in Int /\ f * y * y \in Int /\ f * x * x * x \in Int /\ f * y * y * y \in Int
<1>1. /\ f * x \in Int /\ f * y \in Int /\ f * x * x \in Int /\ f * y * y \in Int
      /\ f * x * x * x \in Int /\ f * y * y * y \in Int
  BY SMT
<1>2. Alike(f * x, f * y, m)
  BY AlikeProduct, AlikeItself
<1>3. Alike(f * x * x, f * y * y, m)
  BY <1>1, <1>2, AlikeProduct
<1>4. Alike(f * x * x * x, f * y * y * y, m)
  BY <1>1, <1>3, AlikeProduct
<1> QED BY <1>1, <1>3, <1>4

\* The two identities behind every sum: x3 = l^2 - x - d and y3 = l(x - x3) - y over W.
LEMMA SumOverW ==
  ASSUME NEW l \in Int, NEW x \in Int, NEW d \in Int, NEW y \in Int, NEW z \in Int, NEW W \in Int
  PROVE  /\ (l * l - x - d) * W * W = (l * W) * (l * W) - x * W * W - d * W * W
         /\ (l * (x - z) - y) * W * W * W = (x * W * W - z * W * W) * (l * W) - y * W * W * W
<1>1. (l * l - x - d) * W * W = (l * W) * (l * W) - x * W * W - d * W * W
  BY SMT
<1>2. (l * (x - z) - y) * W * W * W = (x * W * W - z * W * W) * (l * W) - y * W * W * W
  BY SMT
<1> QED BY <1>1, <1>2

\* Coordinates over any W like the third stand for the sum of two points.
LEMMA SumStands ==
  ASSUME NEW p, PrimeField(p), NEW l \in Int, NEW x \in Int, NEW d \in Int, NEW y \in Int, NEW W \in Int,
         NEW x3 \in 0..(p - 1), NEW y3 \in 0..(p - 1),
         Alike(x3, l * l - x - d, p), Alike(y3, l * (x - x3) - y, p),
         NEW X \in 0..(p - 1), NEW Y \in 0..(p - 1), NEW Z \in 0..(p - 1), Z # 0,
         Alike(X, (l * W) * (l * W) - x * W * W - d * W * W, p),
         Alike(Y, (x * W * W - x3 * W * W) * (l * W) - y * W * W * W, p),
         Alike(Z, W, p)
  PROVE  Stands(p, <<X, Y, Z>>, x3, y3)
<1> DEFINE e == l * l - x - d
           f == l * (x - x3) - y
<1>0. /\ p \in Nat \ {0} /\ x3 \in Int /\ y3 \in Int /\ X \in Int /\ Y \in Int /\ Z \in Int
      /\ e \in Int /\ f \in Int
  <2>1. p \in Nat \ {0} /\ x3 \in Int /\ y3 \in Int /\ X \in Int /\ Y \in Int /\ Z \in Int
    BY DEF PrimeField
  <2>2. l * l \in Int /\ l * (x - x3) \in Int
    BY <2>1, SMT
  <2> QED BY <2>1, <2>2
<1>1. Alike(X, e * W * W, p) /\ Alike(Y, f * W * W * W, p)
  BY <1>0, SumOverW
<1> HIDE DEF e, f
<1>2. /\ Alike(e * W * W, e * Z * Z, p) /\ Alike(f * W * W * W, f * Z * Z * Z, p)
      /\ e * W * W \in Int /\ e * Z * Z \in Int /\ f * W * W * W \in Int /\ f * Z * Z * Z \in Int
  <2>1. Alike(W, Z, p)
    BY <1>0, AlikeBack
  <2> QED BY <1>0, <2>1, AlikeSquare
<1>3. /\ Alike(e * Z * Z, x3 * Z * Z, p) /\ Alike(f * Z * Z * Z, y3 * Z * Z * Z, p)
      /\ x3 * Z * Z \in Int /\ y3 * Z * Z * Z \in Int
  <2>1. Alike(e, x3, p) /\ Alike(f, y3, p)
    BY <1>0, AlikeBack DEF e, f
  <2>2. /\ e * Z \in Int /\ x3 * Z \in Int /\ f * Z \in Int /\ y3 * Z \in Int
        /\ e * Z * Z \in Int /\ x3 * Z * Z \in Int /\ f * Z * Z \in Int /\ y3 * Z * Z \in Int
        /\ f * Z * Z * Z \in Int /\ y3 * Z * Z * Z \in Int
    BY <1>0, SMT
  <2>3. Alike(e * Z, x3 * Z, p) /\ Alike(f * Z, y3 * Z, p)
    BY <1>0, <2>1, AlikeProduct, AlikeItself
  <2>4. Alike(e * Z * Z, x3 * Z * Z, p) /\ Alike(f * Z * Z, y3 * Z * Z, p)
    BY <1>0, <2>2, <2>3, AlikeProduct, AlikeItself
  <2>5. Alike(f * Z * Z * Z, y3 * Z * Z * Z, p)
    BY <1>0, <2>2, <2>4, AlikeProduct, AlikeItself
  <2> QED BY <2>2, <2>4, <2>5
<1>4. Alike(X, x3 * Z * Z, p) /\ Alike(Y, y3 * Z * Z * Z, p)
  <2>1. Alike(X, e * Z * Z, p) /\ Alike(Y, f * Z * Z * Z, p)
    BY <1>0, <1>1, <1>2, AlikeOn
  <2> QED BY <1>0, <1>2, <1>3, <2>1, AlikeOn
<1> DEFINE P == <<X, Y, Z>>
<1>5. P[1] = X /\ P[2] = Y /\ P[3] = Z
  OBVIOUS
<1> HIDE DEF P
<1>6. P = <<P[1], P[2], P[3]>>
  BY <1>5 DEF P
<1>7. Stands(p, P, x3, y3)
  BY <1>4, <1>5, <1>6 DEF Stands, Coordinates
<1> QED BY <1>7 DEF P

-----------------------------------------------------------------------------
(* gfec_point_double.                                                      *)

\* A prime above three is odd.
LEMMA OddField ==
  ASSUME NEW p, PrimeField(p)
  PROVE  p \in Nat \ {0} /\ p % 2 = 1 /\ ~Alike(2, 0, p)
<1>1. p \in Nat \ {0} /\ 2 \in 1..(p - 1)
  BY DEF PrimeField
<1>2. PICK y \in 1..(p - 1) : (2 * y) % p = 1
  BY <1>1 DEF PrimeField
<1>3. ASSUME p % 2 # 1 PROVE FALSE
  <2> DEFINE q == (2 * y) \div p
             h == p \div 2
  <2>1. q \in Int /\ 2 * y = p * q + 1
    BY <1>1, <1>2, SMT
  <2>2. h \in Nat /\ p = 2 * h
    BY <1>1, <1>3, SMT
  <2> HIDE DEF q, h
  <2>3. p * q = 2 * (h * q) /\ h * q \in Int
    BY <2>1, <2>2, SMT
  <2> DEFINE g == h * q
  <2> HIDE DEF g
  <2>4. 2 * y = 2 * g + 1 /\ g \in Int
    BY <2>1, <2>3 DEF g
  <2> QED BY <1>1, <2>4
<1>4. ~Alike(2, 0, p)
  <2>1. 2 \in 0..(p - 1)
    BY <1>1
  <2> QED BY <2>1, SmallNotZero
<1> QED BY <1>1, <1>3, <1>4, SMT

\* Halving a number that may be odd.
LEMMA HalvedIs ==
  ASSUME NEW p, PrimeField(p), NEW x \in 0..(p - 1)
  PROVE  div2(x, p) \in 0..(p - 1) /\ Alike(2 * div2(x, p), x, p)
<1>1. p \in Nat \ {0} /\ p % 2 = 1
  BY OddField
<1>2. CASE x % 2 = 0
  <2>1. x \div 2 \in 0..(p - 1) /\ 2 * (x \div 2) = x
    BY <1>1, <1>2, SMT
  <2> QED BY <1>1, <1>2, <2>1, AlikeItself DEF div2
<1>3. CASE x % 2 # 0
  <2>1. (x + p) \div 2 \in 0..(p - 1) /\ 2 * ((x + p) \div 2) = x + 1 * p
    BY <1>1, <1>3, SMT
  <2>2. Alike(2 * ((x + p) \div 2), x, p)
    BY <2>1, 1 \in Int DEF Alike
  <2> QED BY <1>3, <2>1, <2>2 DEF div2
<1> QED BY <1>2, <1>3

\* M in its three forms.
LEMMA DoubleMIs ==
  ASSUME NEW E \in Curves, PrimeField(E.p), NEW x \in 0..(E.p - 1), NEW w \in 0..(E.p - 1)
  PROVE  DoubleM(E, x, w) \in 0..(E.p - 1) /\ Alike(DoubleM(E, x, w), 3 * x * x + E.a * w * w, E.p)
<1> DEFINE p == E.p
           a == E.a
           g == 3 * x * x + a * w * w
<1>1. p \in Nat \ {0} /\ a \in 0..(p - 1)
  BY CurveAssumption DEF PrimeField, IsCurve
<1>2. /\ x \in Int /\ w \in Int /\ a \in Int /\ x * x \in Int /\ w * w \in Int /\ 3 * x * x \in Int
      /\ a * w * w \in Int /\ g \in Int /\ x + w \in Int /\ x - w \in Int
  BY <1>1, SMT
<1> HIDE DEF p
<1>3. CASE IsStd(E)
  <2> DEFINE b == (x + w) % p
             c == (x - w) % p
             e == (x + w) * (x - w) * 3
  <2>1. b \in 0..(p - 1) /\ Alike(b, x + w, p) /\ c \in 0..(p - 1) /\ Alike(c, x - w, p)
    BY <1>1, <1>2, RestAlike
  <2> HIDE DEF b, c
  <2>2. b \in Int /\ c \in Int /\ b * c \in Int /\ b * c * 3 \in Int /\ (x + w) * (x - w) \in Int /\ e \in Int
    <3>1. b \in Int /\ c \in Int
      BY <2>1
    <3> QED BY <1>2, <3>1, SMT
  <2>3. Alike(b * c, (x + w) * (x - w), p)
    BY <1>1, <1>2, <2>1, <2>2, AlikeProduct
  <2>4. Alike(b * c * 3, e, p)
    <3>1. Alike(3, 3, p)
      BY <1>1, AlikeItself, 3 \in Int
    <3> QED BY <1>1, <2>2, <2>3, <3>1, AlikeProduct, 3 \in Int
  <2>5. a = p - 3
    BY <1>3 DEF IsStd, p
  <2>6. e = g + (-(w * w)) * p /\ -(w * w) \in Int
    <3>1. e = 3 * x * x - 3 * w * w
      BY <1>2, SMT
    <3>2. a * w * w = p * (w * w) - 3 * w * w
      BY <1>1, <1>2, <2>5, SMT
    <3>3. (-(w * w)) * p = -(p * (w * w)) /\ p * (w * w) \in Int /\ 3 * w * w \in Int
      BY <1>1, <1>2, SMT
    <3> QED BY <1>2, <3>1, <3>2, <3>3
  <2>7. Alike(e, g, p)
    BY <2>6 DEF Alike
  <2> HIDE DEF e, g
  <2>8. Alike(b * c * 3, g, p)
    BY <1>1, <1>2, <2>2, <2>4, <2>7, AlikeOn
  <2>9. (b * c * 3) % p \in 0..(p - 1) /\ Alike((b * c * 3) % p, b * c * 3, p)
    BY <1>1, <2>2, RestAlike
  <2>10. DoubleM(E, x, w) = (b * c * 3) % p
    BY <1>3 DEF DoubleM, b, c, p
  <2>11. (b * c * 3) % p \in Int
    BY <2>9
  <2>12. Alike((b * c * 3) % p, g, p)
    BY <1>1, <1>2, <2>2, <2>8, <2>9, <2>11, AlikeOn
  <2> QED BY <2>9, <2>10, <2>12 DEF g, p
<1>4. CASE ~IsStd(E) /\ IsEpid2(E)
  <2>1. g = 3 * x * x
    BY <1>2, <1>4, SMT DEF IsEpid2
  <2>2. DoubleM(E, x, w) = (3 * x * x) % p
    BY <1>4 DEF DoubleM, p
  <2> HIDE DEF g
  <2>3. (3 * x * x) % p \in 0..(p - 1) /\ Alike((3 * x * x) % p, 3 * x * x, p)
    BY <1>1, <1>2, RestAlike
  <2> QED BY <2>1, <2>2, <2>3 DEF g, p
<1>5. CASE ~IsStd(E) /\ ~IsEpid2(E)
  <2> DEFINE b == (w * w) % p
             e == 3 * x * x + a * b
  <2>1. b \in 0..(p - 1) /\ Alike(b, w * w, p)
    BY <1>1, <1>2, RestAlike
  <2>2. DoubleM(E, x, w) = e % p
    BY <1>5 DEF DoubleM, p
  <2> HIDE DEF b
  <2>3. b \in Int /\ a * b \in Int /\ a * (w * w) \in Int /\ a * (w * w) = a * w * w
    BY <1>1, <1>2, <2>1, SMT
  <2>4. Alike(a * b, a * w * w, p)
    BY <1>1, <1>2, <2>1, <2>3, AlikeProduct, AlikeItself
  <2>5. Alike(e, g, p) /\ e \in Int
    <3> DEFINE f == 3 * x * x
               c == a * b
               d == a * w * w
    <3>1. f \in Int /\ c \in Int /\ d \in Int /\ Alike(c, d, p) /\ e = f + c /\ g = f + d
      BY <1>2, <2>3, <2>4
    <3> HIDE DEF f, c, d, e, g
    <3> QED BY <1>1, <3>1, AlikeSum, AlikeItself
  <2> HIDE DEF e, g
  <2>6. e % p \in 0..(p - 1) /\ Alike(e % p, e, p)
    BY <1>1, <2>5, RestAlike
  <2>7. e % p \in Int
    BY <2>6
  <2>8. Alike(e % p, g, p)
    BY <1>1, <1>2, <2>5, <2>6, <2>7, AlikeOn
  <2> QED BY <2>2, <2>6, <2>8 DEF g, p
<1> QED BY <1>3, <1>4, <1>5

\* Doubling a point over Z is the tangent over W = 2*y*Z^4.
LEMMA TangentOverW ==
  ASSUME NEW x \in Int, NEW y \in Int, NEW a \in Int, NEW Z \in Int, NEW l \in Int, NEW W \in Int,
         W = 2 * y * Z * Z * Z * Z
  PROVE  /\ 2 * (y * Z * Z * Z) * Z = W
         /\ 3 * (x * Z * Z) * (x * Z * Z) + a * (Z * Z) * (Z * Z) = (3 * x * x + a) * (Z * Z * Z * Z)
         /\ (l * (2 * y)) * (Z * Z * Z * Z) = l * W
         /\ (2 * (y * Z * Z * Z)) * (2 * (y * Z * Z * Z)) * (x * Z * Z) = x * W * W
         /\ (2 * (y * Z * Z * Z)) * (2 * (y * Z * Z * Z)) * (2 * (y * Z * Z * Z)) * (2 * (y * Z * Z * Z))
              = 2 * (y * W * W * W)
<1> DEFINE z4 == Z * Z * Z * Z
           sx == 2 * (y * Z * Z * Z)
<1>1. z4 \in Int /\ W = 2 * y * z4 /\ sx \in Int /\ sx * Z = W
  BY SMT
<1>2. 3 * (x * Z * Z) * (x * Z * Z) + a * (Z * Z) * (Z * Z) = (3 * x * x + a) * z4
  BY SMT
<1>3. sx * sx * (x * Z * Z) = x * (sx * Z) * (sx * Z)
  <2> HIDE DEF sx
  <2> QED BY <1>1, SMT
<1>4. sx * sx * sx * sx = 2 * (y * (sx * Z) * (sx * Z) * (sx * Z))
  <2>1. sx * (sx * sx * sx) = 2 * (y * Z * Z * Z) * (sx * sx * sx)
    OBVIOUS
  <2> HIDE DEF sx
  <2>2. sx * sx * sx * sx = sx * (sx * sx * sx) /\ 2 * (y * Z * Z * Z) * (sx * sx * sx) = 2 * (y * (sx * Z) * (sx * Z) * (sx * Z))
    BY <1>1, SMT
  <2> QED BY <2>1, <2>2
<1>5. (l * (2 * y)) * z4 = l * W
  <2> HIDE DEF z4
  <2> QED BY <1>1, SMT
<1> QED BY <1>1, <1>2, <1>3, <1>4, <1>5

\* Two integers that differ by a multiple of m.
Like(x, y, m) == x \in Int /\ y \in Int /\ Alike(x, y, m)

\* The rules in one place.
LEMMA LikeRules ==
  ASSUME NEW m \in Nat \ {0}
  PROVE  /\ \A x \in Int : Like(x, x, m)
         /\ \A x, y : Like(x, y, m) => Like(y, x, m) /\ Like(x % m, y, m) /\ x % m \in 0..(m - 1)
         /\ \A x, y, z : Like(x, y, m) /\ Like(y, z, m) => Like(x, z, m)
         /\ \A x, y, a, b : Like(x, y, m) /\ Like(a, b, m) =>
              Like(x + a, y + b, m) /\ Like(x - a, y - b, m) /\ Like(x * a, y * b, m)
<1>1. \A x \in Int : Like(x, x, m)
  BY AlikeItself DEF Like
<1>2. ASSUME NEW x, NEW y, Like(x, y, m)
      PROVE  Like(y, x, m) /\ Like(x % m, y, m) /\ x % m \in 0..(m - 1)
  <2>1. x \in Int /\ y \in Int /\ Alike(x, y, m)
    BY <1>2 DEF Like
  <2>2. x % m \in 0..(m - 1) /\ Alike(x % m, x, m)
    BY <2>1, RestAlike
  <2>3. x % m \in Int
    BY <2>2
  <2> QED BY <2>1, <2>2, <2>3, AlikeBack, AlikeOn DEF Like
<1>3. ASSUME NEW x, NEW y, NEW z, Like(x, y, m), Like(y, z, m)
      PROVE  Like(x, z, m)
  BY <1>3, AlikeOn DEF Like
<1>4. ASSUME NEW x, NEW y, NEW a, NEW b, Like(x, y, m), Like(a, b, m)
      PROVE  Like(x + a, y + b, m) /\ Like(x - a, y - b, m) /\ Like(x * a, y * b, m)
  <2>1. x \in Int /\ y \in Int /\ a \in Int /\ b \in Int /\ Alike(x, y, m) /\ Alike(a, b, m)
    BY <1>4 DEF Like
  <2>2. /\ x + a \in Int /\ y + b \in Int /\ x - a \in Int /\ y - b \in Int
        /\ x * a \in Int /\ y * b \in Int
    BY <2>1, SMT
  <2> QED BY <2>1, <2>2, AlikeSum, AlikeProduct DEF Like
<1> QED BY <1>1, <1>2, <1>3, <1>4

\* The new abscissa is that of the sum over W.
LEMMA AbscissaOverW ==
  ASSUME NEW m \in Nat \ {0}, NEW l \in Int, NEW x \in Int, NEW d \in Int, NEW W \in Int, NEW z, NEW X,
         Like(z, l * l - x - d, m), Like(X, (l * W) * (l * W) - x * W * W - d * W * W, m)
  PROVE  Like(X, z * W * W, m)
<1> DEFINE e == l * l - x - d
           f == (l * W) * (l * W) - x * W * W - d * W * W
<1>1. e * W * W = f
  BY SumOverW, 0 \in Int
<1> HIDE DEF e, f
<1>2. Like(W, W, m)
  BY LikeRules
<1>3. Like(e, z, m)
  BY LikeRules DEF e
<1>4. Like(e * W, z * W, m)
  BY <1>2, <1>3, LikeRules, Zenon
<1>5. Like(e * W * W, z * W * W, m)
  BY <1>2, <1>4, LikeRules, Zenon
<1>6. Like(X, f, m)
  BY DEF f
<1> QED BY <1>1, <1>5, <1>6, LikeRules, Zenon

\* A sum over W in the library's terms.
LEMMA SumIs ==
  ASSUME NEW p, PrimeField(p), NEW l \in Int, NEW x \in Int, NEW d \in Int, NEW y \in Int, NEW W \in Int,
         NEW x3 \in 0..(p - 1), NEW y3 \in 0..(p - 1),
         Like(x3, l * l - x - d, p), Like(y3, l * (x - x3) - y, p),
         NEW X \in 0..(p - 1), NEW Y \in 0..(p - 1), NEW Z \in 0..(p - 1), ~Like(W, 0, p),
         Like(X, (l * W) * (l * W) - x * W * W - d * W * W, p),
         Like(Y, (x * W * W - X) * (l * W) - y * W * W * W, p),
         Like(Z, W, p)
  PROVE  Stands(p, <<X, Y, Z>>, x3, y3)
<1>0. p \in Nat \ {0} /\ 0 \in Int
  BY DEF PrimeField
<1>1. Z # 0
  <2>1. SUFFICES ASSUME Z = 0 PROVE Like(W, 0, p)
    OBVIOUS
  <2> QED BY <1>0, <2>1, LikeRules
<1> DEFINE a == x * W * W
           b == x3 * W * W
           c == l * W
           e == y * W * W * W
<1>2. Like(X, b, p)
  BY <1>0, AbscissaOverW
<1>3. Like(a, a, p) /\ Like(c, c, p) /\ Like(e, e, p)
  <2>1. a \in Int /\ c \in Int /\ e \in Int
    BY SMT
  <2> HIDE DEF a, c, e
  <2> QED BY <1>0, <2>1, LikeRules
<1> HIDE DEF a, b, c, e
<1>4. Like(Y, (a - X) * c - e, p)
  BY DEF a, c, e
<1>5. Like(a - X, a - b, p)
  BY <1>0, <1>2, <1>3, LikeRules, Zenon
<1>6. Like((a - X) * c, (a - b) * c, p)
  BY <1>0, <1>3, <1>5, LikeRules, Zenon
<1> DEFINE f == (a - X) * c
           g == (a - b) * c
<1>7. Like(f, g, p) /\ Like(Y, f - e, p)
  BY <1>4, <1>6
<1> HIDE DEF f, g
<1>8. Like(Y, g - e, p)
  <2>1. Like(f - e, g - e, p)
    BY <1>0, <1>3, <1>7, LikeRules, Zenon
  <2> QED BY <1>0, <1>7, <2>1, LikeRules, Zenon
<1>9. Alike(Y, (x * W * W - x3 * W * W) * (l * W) - y * W * W * W, p)
  BY <1>8, Zenon DEF a, b, c, e, g, Like
<1>10. /\ Alike(x3, l * l - x - d, p) /\ Alike(y3, l * (x - x3) - y, p)
       /\ Alike(X, (l * W) * (l * W) - x * W * W - d * W * W, p) /\ Alike(Z, W, p)
  BY DEF Like
<1> QED BY <1>1, <1>9, <1>10, SumStands

\* The double of a point of an ordinate other than zero, by the tangent of slope l.
LEMMA DoubleStands ==
  ASSUME NEW E \in Curves, PrimeField(E.p), NEW P, NEW x, NEW y, Stands(E.p, P, x, y), y # 0,
         NEW l \in Int, Like(l * (2 * y), 3 * x * x + E.a, E.p),
         NEW x3 \in 0..(E.p - 1), NEW y3 \in 0..(E.p - 1),
         Like(x3, l * l - x - x, E.p), Like(y3, l * (x - x3) - y, E.p)
  PROVE  Stands(E.p, gfec_point_double(E, P), x3, y3)
<1> DEFINE p  == E.p
           aa == E.a
           X  == P[1]
           Y  == P[2]
           Z  == P[3]
           s2 == (2 * Y) % p
           m4 == (s2 * s2) % p
           mm == (m4 * m4) % p
           y8 == div2(mm, p)
           sx == (m4 * X) % p
           zz == (Z * Z) % p
           m  == DoubleM(E, X, zz)
           xn == (m * m - 2 * sx) % p
           yn == (m * ((sx - xn) % p) - y8) % p
           zn == (s2 * Z) % p
           xz == x * Z * Z
           yz == y * Z * Z * Z
           S  == 2 * yz
           z4 == Z * Z * Z * Z
           W  == 2 * y * Z * Z * Z * Z
<1>1. gfec_point_double(E, P) = <<xn, yn, zn>>
  BY DEF gfec_point_double
<1>2. /\ p \in Nat \ {0} /\ X \in 0..(p - 1) /\ Y \in 0..(p - 1) /\ Z \in 0..(p - 1) /\ Z # 0
      /\ x \in 0..(p - 1) /\ y \in 0..(p - 1) /\ Alike(X, xz, p) /\ Alike(Y, yz, p) /\ aa \in 0..(p - 1)
  BY CurveAssumption DEF Stands, Coordinates, PrimeField, IsCurve
<1>3. /\ X \in Int /\ Y \in Int /\ Z \in Int /\ x \in Int /\ y \in Int /\ aa \in Int
      /\ xz \in Int /\ yz \in Int /\ Z * Z \in Int /\ z4 \in Int /\ W \in Int
  <2>1. X \in Int /\ Y \in Int /\ Z \in Int /\ x \in Int /\ y \in Int /\ aa \in Int
    BY <1>2
  <2> HIDE DEF X, Y, Z, aa
  <2> QED BY <2>1, SMT
<1>4. Like(X, xz, p) /\ Like(Y, yz, p) /\ Like(Z, Z, p) /\ Like(2, 2, p) /\ Like(Z * Z, Z * Z, p) /\ Like(z4, z4, p)
  BY <1>2, <1>3, LikeRules DEF Like
<1>5. /\ S * Z = W
      /\ 3 * xz * xz + aa * (Z * Z) * (Z * Z) = (3 * x * x + aa) * z4
      /\ (l * (2 * y)) * z4 = l * W
      /\ S * S * xz = x * W * W
      /\ S * S * S * S = 2 * (y * W * W * W)
  <2> HIDE DEF X, Y, Z, aa
  <2> QED BY <1>3, TangentOverW
<1> HIDE DEF p, aa, X, Y, Z, xz, yz, W, z4
<1>6. Like(s2, S, p)
  BY <1>2, <1>4, LikeRules
<1> HIDE DEF s2, S
<1>7. Like(m4, S * S, p)
  BY <1>2, <1>6, LikeRules, Zenon
<1> HIDE DEF m4
<1>8. Like(mm, (S * S) * (S * S), p) /\ mm \in 0..(p - 1)
  BY <1>2, <1>7, LikeRules, Zenon
<1> DEFINE yw == y * W * W * W
<1>9. (S * S) * (S * S) = 2 * yw /\ yw \in Int
  <2>1. S \in Int
    BY <1>6 DEF Like
  <2>2. (S * S) * (S * S) = S * S * S * S
    BY <2>1, SMT
  <2> QED BY <1>3, <1>5, <2>2, SMT
<1> HIDE DEF mm, yw
<1>10. Like(y8, yw, p)
  <2>1. y8 \in 0..(p - 1) /\ Alike(2 * y8, mm, p)
    BY <1>8, HalvedIs DEF p
  <2> HIDE DEF y8
  <2>2. y8 \in Int /\ 2 * y8 \in Int /\ 2 * yw \in Int
    BY <1>9, <2>1
  <2>3. mm \in Int
    BY <1>8
  <2>4. Like(2 * y8, mm, p)
    BY <2>1, <2>2, <2>3 DEF Like
  <2>5. Like(2 * y8, 2 * yw, p)
    BY <1>2, <1>8, <1>9, <2>4, LikeRules
  <2>6. Alike(y8, yw, p)
    <3>1. ~Alike(2, 0, p)
      BY OddField DEF p
    <3>2. Alike(2 * y8, 2 * yw, p)
      BY <2>5 DEF Like
    <3> QED BY <1>9, <2>2, <3>1, <3>2, CancelFactor DEF p
  <2> QED BY <1>9, <2>2, <2>6 DEF Like
<1> HIDE DEF y8
<1> DEFINE xw == x * W * W
<1>11. Like(sx, xw, p)
  <2>1. Like(sx, S * S * xz, p)
    BY <1>2, <1>4, <1>7, LikeRules, Zenon
  <2> QED BY <1>5, <2>1
<1> HIDE DEF sx
<1>12. Like(m, l * W, p)
  <2>1. zz \in 0..(p - 1) /\ Like(zz, Z * Z, p)
    BY <1>2, <1>4, LikeRules, Zenon
  <2> HIDE DEF zz
  <2>2. m \in 0..(p - 1) /\ Alike(m, 3 * X * X + aa * zz * zz, p)
    BY <1>2, <2>1, DoubleMIs DEF p, aa
  <2> HIDE DEF m
  <2> DEFINE t3 == 3 * X
             u3 == 3 * xz
  <2>3. Like(3, 3, p) /\ Like(aa, aa, p)
    BY <1>2, <1>3, LikeRules, 3 \in Int
  <2>4. Like(3 * X, 3 * xz, p) /\ Like(aa * zz, aa * (Z * Z), p)
    BY <1>2, <1>4, <2>1, <2>3, LikeRules, Zenon
  <2>5. Like(3 * X * X, 3 * xz * xz, p) /\ Like(aa * zz * zz, aa * (Z * Z) * (Z * Z), p)
    BY <1>2, <1>4, <2>1, <2>4, LikeRules, Zenon
  <2>6. Like(3 * X * X + aa * zz * zz, 3 * xz * xz + aa * (Z * Z) * (Z * Z), p)
    BY <1>2, <2>5, LikeRules, Zenon
  <2>7. Like(m, 3 * X * X + aa * zz * zz, p)
    <3>1. 3 * X * X + aa * zz * zz \in Int
      BY <2>6 DEF Like
    <3> QED BY <2>2, <3>1 DEF Like
  <2>8. Like(m, (3 * x * x + aa) * z4, p)
    <3> DEFINE g == 3 * X * X + aa * zz * zz
               h == 3 * xz * xz + aa * (Z * Z) * (Z * Z)
    <3>1. Like(m, g, p) /\ Like(g, h, p)
      BY <2>6, <2>7, Zenon
    <3>2. h = (3 * x * x + aa) * z4
      BY <1>5, Zenon
    <3> HIDE DEF g, h
    <3>3. Like(m, h, p)
      BY <1>2, <3>1, LikeRules, Zenon
    <3> QED BY <3>2, <3>3, Zenon
  <2>9. Like((3 * x * x + aa) * z4, (l * (2 * y)) * z4, p)
    <3>1. Like(3 * x * x + aa, l * (2 * y), p)
      BY <1>2, LikeRules DEF p, aa
    <3> QED BY <1>2, <1>4, <3>1, LikeRules, Zenon
  <2> QED BY <1>2, <1>5, <2>8, <2>9, LikeRules, Zenon
<1> HIDE DEF m
<1>13. xn \in 0..(p - 1) /\ Like(xn, (l * W) * (l * W) - x * W * W - x * W * W, p)
  <2> DEFINE c == l * W
  <2> HIDE DEF c, xw
  <2>1. Like(2 * sx, 2 * xw, p)
    BY <1>2, <1>4, <1>11, LikeRules, Zenon
  <2>2. Like(m * m, c * c, p)
    BY <1>2, <1>12, LikeRules, Zenon DEF c
  <2>3. Like(m * m - 2 * sx, c * c - 2 * xw, p)
    BY <1>2, <2>1, <2>2, LikeRules, Zenon
  <2>4. xn \in 0..(p - 1) /\ Like(xn, c * c - 2 * xw, p)
    BY <1>2, <2>3, LikeRules, Zenon
  <2>5. c * c - 2 * xw = c * c - xw - xw
    <3>1. c * c \in Int /\ xw \in Int
      BY <1>11, <2>2 DEF Like
    <3> QED BY <3>1
  <2> HIDE DEF xn
  <2>6. Like(xn, c * c - xw - xw, p)
    BY <2>4, <2>5
  <2> QED BY <2>4, <2>6 DEF c, xw
<1> HIDE DEF xn
<1>14. yn \in 0..(p - 1) /\ Like(yn, (x * W * W - xn) * (l * W) - y * W * W * W, p)
  <2> HIDE DEF xw
  <2>1. Like(xn, xn, p)
    BY <1>2, <1>13, LikeRules DEF Like
  <2>2. Like((sx - xn) % p, xw - xn, p)
    BY <1>2, <1>11, <2>1, LikeRules, Zenon
  <2>3. Like(m * ((sx - xn) % p), (l * W) * (xw - xn), p)
    BY <1>2, <1>12, <2>2, LikeRules, Zenon
  <2>4. Like(m * ((sx - xn) % p) - y8, (l * W) * (xw - xn) - yw, p)
    BY <1>2, <1>10, <2>3, LikeRules, Zenon
  <2>5. yn \in 0..(p - 1) /\ Like(yn, (l * W) * (xw - xn) - yw, p)
    BY <1>2, <2>4, LikeRules, Zenon
  <2>6. (l * W) * (xw - xn) = (xw - xn) * (l * W)
    <3> DEFINE c == l * W
               e == xw - xn
    <3>1. c \in Int /\ e \in Int
      BY <1>12, <2>2 DEF Like
    <3> HIDE DEF c, e
    <3>2. c * e = e * c
      BY <3>1, SMT
    <3> QED BY <3>2 DEF c, e
  <2> HIDE DEF yn
  <2> QED BY <2>5, <2>6, Zenon DEF xw, yw
<1>15. zn \in 0..(p - 1) /\ Like(zn, W, p)
  <2>1. Like(s2 * Z, S * Z, p)
    BY <1>2, <1>4, <1>6, LikeRules, Zenon
  <2> QED BY <1>2, <1>5, <2>1, LikeRules, Zenon
<1> HIDE DEF yn, zn
<1>16. ~Like(W, 0, p)
  <2>1. ~Alike(2, 0, p) /\ ~Alike(y, 0, p) /\ ~Alike(Z, 0, p)
    BY <1>2, OddField, SmallNotZero DEF p
  <2>2. 2 * y \in Int /\ 2 * y * Z \in Int /\ 2 * y * Z * Z \in Int /\ 2 * y * Z * Z * Z \in Int
    BY <1>3, SMT
  <2>3. ~Alike(2 * y, 0, p)
    BY <1>3, <2>1, NoZeroProduct DEF p
  <2>4. ~Alike(2 * y * Z, 0, p)
    BY <1>3, <2>1, <2>2, <2>3, NoZeroProduct DEF p
  <2>5. ~Alike(2 * y * Z * Z, 0, p)
    BY <1>3, <2>1, <2>2, <2>4, NoZeroProduct DEF p
  <2>6. ~Alike(2 * y * Z * Z * Z, 0, p)
    BY <1>3, <2>1, <2>2, <2>5, NoZeroProduct DEF p
  <2>7. ~Alike(W, 0, p)
    BY <1>3, <2>1, <2>2, <2>6, NoZeroProduct DEF p, W
  <2> QED BY <2>7 DEF Like
<1>17. /\ PrimeField(p) /\ x3 \in 0..(p - 1) /\ y3 \in 0..(p - 1)
       /\ Like(x3, l * l - x - x, p) /\ Like(y3, l * (x - x3) - y, p)
  BY DEF p
<1>18. Stands(p, <<xn, yn, zn>>, x3, y3)
  BY <1>3, <1>13, <1>14, <1>15, <1>16, <1>17, SumIs
<1> QED BY <1>1, <1>18 DEF p

-----------------------------------------------------------------------------
(* The chord.                                                              *)

\* Two points over the product D of their Z.
LEMMA OverD ==
  ASSUME NEW x \in Int, NEW y \in Int, NEW a \in Int, NEW b \in Int
  PROVE  /\ (x * a * a) * b * b = x * (a * b) * (a * b)
         /\ (x * b * b) * a * a = x * (a * b) * (a * b)
         /\ ((y * a * a * a) * b) * b * b = y * (a * b) * (a * b) * (a * b)
         /\ ((y * b * b * b) * a) * a * a = y * (a * b) * (a * b) * (a * b)
<1>1. (x * a * a) * b * b = x * (a * b) * (a * b)
  BY SMT
<1>2. (x * b * b) * a * a = x * (a * b) * (a * b)
  BY SMT
<1>3. ((y * a * a * a) * b) * b * b = y * (a * b) * (a * b) * (a * b)
  BY SMT
<1>4. ((y * b * b * b) * a) * a * a = y * (a * b) * (a * b) * (a * b)
  BY SMT
<1> QED BY <1>1, <1>2, <1>3, <1>4

\* What u1, s1, h and r are over D.
Apart(p, d, D, x, y, a, b) ==
  /\ Like(d.u1, x * D * D, p) /\ Like(d.s1, y * D * D * D, p)
  /\ Like(d.h, (a - x) * D * D, p) /\ Like(d.r, (b - y) * D * D * D, p)
  /\ d.h \in 0..(p - 1) /\ d.r \in 0..(p - 1)

\* Differences are those of the affine coordinates, over D.
LEMMA DifferencesAre ==
  ASSUME NEW E \in Curves, PrimeField(E.p), NEW P, NEW x, NEW y, Stands(E.p, P, x, y),
         NEW Q, NEW a, NEW b, Stands(E.p, Q, a, b)
  PROVE  Apart(E.p, Differences(E, P, Q), P[3] * Q[3], x, y, a, b)
<1> DEFINE p  == E.p
           X1 == P[1]
           Y1 == P[2]
           Z1 == P[3]
           X2 == Q[1]
           Y2 == Q[2]
           Z2 == Q[3]
           u1 == (X1 * Z2 * Z2) % p
           s1 == (((Y1 * Z2) % p) * Z2 * Z2) % p
           u2 == X2 * Z1 * Z1
           s2 == ((Y2 * Z1) % p) * Z1 * Z1
           dh == (u2 - u1) % p
           dr == (s2 - s1) % p
           D  == Z1 * Z2
           dd == Differences(E, P, Q)
<1>1. dd.u1 = u1 /\ dd.s1 = s1 /\ dd.h = dh /\ dd.r = dr
  BY DEF Differences
<1>2. /\ p \in Nat \ {0} /\ X1 \in Int /\ Y1 \in Int /\ Z1 \in Int /\ X2 \in Int /\ Y2 \in Int /\ Z2 \in Int
      /\ x \in Int /\ y \in Int /\ a \in Int /\ b \in Int
      /\ Alike(X1, x * Z1 * Z1, p) /\ Alike(Y1, y * Z1 * Z1 * Z1, p)
      /\ Alike(X2, a * Z2 * Z2, p) /\ Alike(Y2, b * Z2 * Z2 * Z2, p)
  BY DEF Stands, Coordinates, PrimeField
<1> HIDE DEF p, X1, Y1, Z1, X2, Y2, Z2, dd
<1>3. /\ x * Z1 * Z1 \in Int /\ y * Z1 * Z1 * Z1 \in Int /\ a * Z2 * Z2 \in Int /\ b * Z2 * Z2 * Z2 \in Int
  BY <1>2, SMT
<1>4. /\ Like(X1, x * Z1 * Z1, p) /\ Like(Y1, y * Z1 * Z1 * Z1, p)
      /\ Like(X2, a * Z2 * Z2, p) /\ Like(Y2, b * Z2 * Z2 * Z2, p)
      /\ Like(Z1, Z1, p) /\ Like(Z2, Z2, p)
  BY <1>2, <1>3, LikeRules, Zenon DEF Like
<1>5. Like(X1 * Z2 * Z2, x * Z1 * Z1 * Z2 * Z2, p) /\ Like(X2 * Z1 * Z1, a * Z2 * Z2 * Z1 * Z1, p)
  <2>1. Like(X1 * Z2, x * Z1 * Z1 * Z2, p) /\ Like(X2 * Z1, a * Z2 * Z2 * Z1, p)
    BY <1>2, <1>4, LikeRules, Zenon
  <2> QED BY <1>2, <1>4, <2>1, LikeRules, Zenon
<1>6. /\ Like(((Y1 * Z2) % p) * Z2 * Z2, (y * Z1 * Z1 * Z1) * Z2 * Z2 * Z2, p)
      /\ Like(((Y2 * Z1) % p) * Z1 * Z1, (b * Z2 * Z2 * Z2) * Z1 * Z1 * Z1, p)
  <2>1. Like(Y1 * Z2, (y * Z1 * Z1 * Z1) * Z2, p) /\ Like(Y2 * Z1, (b * Z2 * Z2 * Z2) * Z1, p)
    BY <1>2, <1>4, LikeRules, Zenon
  <2>2. /\ Like((Y1 * Z2) % p, (y * Z1 * Z1 * Z1) * Z2, p)
        /\ Like((Y2 * Z1) % p, (b * Z2 * Z2 * Z2) * Z1, p)
    BY <1>2, <2>1, LikeRules, Zenon
  <2>3. /\ Like(((Y1 * Z2) % p) * Z2, (y * Z1 * Z1 * Z1) * Z2 * Z2, p)
        /\ Like(((Y2 * Z1) % p) * Z1, (b * Z2 * Z2 * Z2) * Z1 * Z1, p)
    BY <1>2, <1>4, <2>2, LikeRules, Zenon
  <2> QED BY <1>2, <1>4, <2>3, LikeRules, Zenon
<1>7. /\ x * Z1 * Z1 * Z2 * Z2 = x * D * D /\ a * Z2 * Z2 * Z1 * Z1 = a * D * D
      /\ (y * Z1 * Z1 * Z1) * Z2 * Z2 * Z2 = y * D * D * D
      /\ (b * Z2 * Z2 * Z2) * Z1 * Z1 * Z1 = b * D * D * D
  BY <1>2, OverD
<1>8. D \in Int
  BY <1>2, SMT
<1> HIDE DEF D
<1>9. Like(u1, x * D * D, p) /\ Like(s1, y * D * D * D, p)
  <2>1. Like(X1 * Z2 * Z2, x * D * D, p) /\ Like(((Y1 * Z2) % p) * Z2 * Z2, y * D * D * D, p)
    BY <1>5, <1>6, <1>7, Zenon
  <2> QED BY <1>2, <2>1, LikeRules, Zenon
<1>10. Like(u2, a * D * D, p) /\ Like(s2, b * D * D * D, p)
  BY <1>5, <1>6, <1>7, Zenon
<1> HIDE DEF u1, s1, u2, s2
<1>11. /\ Like(dh, a * D * D - x * D * D, p) /\ dh \in 0..(p - 1)
       /\ Like(dr, b * D * D * D - y * D * D * D, p) /\ dr \in 0..(p - 1)
  <2>1. Like(u2 - u1, a * D * D - x * D * D, p) /\ Like(s2 - s1, b * D * D * D - y * D * D * D, p)
    BY <1>2, <1>9, <1>10, LikeRules, Zenon
  <2> QED BY <1>2, <2>1, LikeRules, Zenon
<1>12. a * D * D - x * D * D = (a - x) * D * D /\ b * D * D * D - y * D * D * D = (b - y) * D * D * D
  BY <1>2, <1>8, SMT
<1> HIDE DEF dh, dr
<1>13. Like(dh, (a - x) * D * D, p) /\ Like(dr, (b - y) * D * D * D, p)
  BY <1>11, <1>12, Zenon
<1>14. Apart(p, dd, D, x, y, a, b)
  BY <1>1, <1>9, <1>11, <1>13, Zenon DEF Apart
<1> QED BY <1>14 DEF p, dd, D, Z1, Z2

\* The identities behind a chord, W the third coordinate of the sum.
LEMMA ChordOverW ==
  ASSUME NEW x \in Int, NEW y \in Int, NEW c \in Int, NEW D \in Int, NEW W \in Int, W = c * D * D * D
  PROVE  /\ D * (c * D * D) = W
         /\ (c * D * D) * ((c * D * D) * (c * D * D)) = c * W * W
         /\ (x * D * D) * ((c * D * D) * (c * D * D)) = x * W * W
         /\ (y * D * D * D) * (c * W * W) = y * W * W * W
<1> DEFINE h == c * D * D
<1>1. h \in Int /\ D * h = W /\ c * D * D * D = W
  BY SMT
<1>2. h * (h * h) = c * (D * h) * (D * h)
  <2>1. h * (h * h) = (c * D * D) * (h * h)
    OBVIOUS
  <2> HIDE DEF h
  <2>2. (c * D * D) * (h * h) = c * (D * h) * (D * h)
    BY <1>1, SMT
  <2> QED BY <2>1, <2>2
<1>3. (x * D * D) * (h * h) = x * (D * h) * (D * h)
  <2> HIDE DEF h
  <2> QED BY <1>1, SMT
<1>4. (y * D * D * D) * (c * W * W) = y * W * W * W
  <2>1. (y * D * D * D) * (c * W * W) = y * (c * D * D * D) * W * W
    BY SMT
  <2> QED BY <1>1, <2>1
<1> QED BY <1>1, <1>2, <1>3, <1>4

\* The chord through two points of different abscissas, of slope l.
LEMMA ChordStands ==
  ASSUME NEW E \in Curves, PrimeField(E.p), NEW d, NEW D \in Int, NEW z, Like(z, D, E.p), ~Alike(D, 0, E.p),
         NEW x \in Int, NEW y \in Int, NEW a \in Int, NEW b \in Int, Apart(E.p, d, D, x, y, a, b),
         ~Alike(a - x, 0, E.p),
         NEW l \in Int, Like(l * (a - x), b - y, E.p),
         NEW x3 \in 0..(E.p - 1), NEW y3 \in 0..(E.p - 1),
         Like(x3, l * l - x - a, E.p), Like(y3, l * (x - x3) - y, E.p)
  PROVE  Stands(E.p, Chord(E, d, z), x3, y3)
<1> DEFINE p   == E.p
           c   == a - x
           e   == b - y
           W   == c * D * D * D
           xd  == x * D * D
           yd  == y * D * D * D
           cd  == c * D * D
           xw  == x * W * W
           cw  == c * W * W
           aw  == a * W * W
           yw  == y * W * W * W
           lw  == l * W
           hh  == (d.h * d.h) % p
           hhh == (d.h * hh) % p
           uhh == (d.u1 * hh) % p
           xn  == (d.r * d.r - hhh - 2 * uhh) % p
           yn  == (((uhh - xn) % p) * d.r - d.s1 * hhh) % p
           zn  == (z * d.h) % p
<1>1. Chord(E, d, z) = <<xn, yn, zn>>
  BY DEF Chord
<1>2. p \in Nat \ {0} /\ c \in Int /\ e \in Int
  BY DEF PrimeField
<1>3. /\ W \in Int /\ xd \in Int /\ yd \in Int /\ cd \in Int
      /\ xw \in Int /\ cw \in Int /\ aw \in Int /\ yw \in Int /\ lw \in Int
  <2> HIDE DEF c
  <2>1. W \in Int
    BY <1>2, SMT
  <2> HIDE DEF W
  <2> QED BY <1>2, <2>1, SMT
<1>4. cw = aw - xw
  <2> HIDE DEF W
  <2>1. (a - x) * W * W = a * W * W - x * W * W
    BY <1>3, SMT
  <2> QED BY <2>1
<1>5. Like(d.u1, xd, p) /\ Like(d.s1, yd, p) /\ Like(d.h, cd, p) /\ Like(d.r, e * D * D * D, p)
  BY DEF Apart
<1>6. Like(l * c, e, p)
  OBVIOUS
<1> HIDE DEF p, e
<1>7. /\ D * cd = W /\ cd * (cd * cd) = cw /\ xd * (cd * cd) = xw /\ yd * cw = yw
  <2> HIDE DEF c
  <2> QED BY <1>2, ChordOverW
<1>8. Like(d.r, lw, p)
  <2> HIDE DEF c
  <2>1. Like(D, D, p) /\ Like(e, l * c, p)
    BY <1>2, <1>6, LikeRules, Zenon
  <2>2. Like(e * D, (l * c) * D, p)
    BY <1>2, <2>1, LikeRules, Zenon
  <2>3. Like(e * D * D, (l * c) * D * D, p)
    BY <1>2, <2>1, <2>2, LikeRules, Zenon
  <2>4. Like(e * D * D * D, (l * c) * D * D * D, p)
    BY <1>2, <2>1, <2>3, LikeRules, Zenon
  <2>5. (l * c) * D * D * D = lw
    BY <1>2, SMT
  <2>6. Like(e * D * D * D, lw, p)
    BY <2>4, <2>5
  <2>7. Like(d.r, e * D * D * D, p)
    BY <1>5
  <2> DEFINE f == e * D * D * D
  <2> HIDE DEF f, lw
  <2>8. Like(d.r, f, p) /\ Like(f, lw, p)
    BY <2>6, <2>7 DEF f
  <2> QED BY <1>2, <2>8, LikeRules, Zenon
<1>9. ~Like(W, 0, p)
  <2> HIDE DEF c
  <2>1. ~Alike(c, 0, p) /\ ~Alike(D, 0, p)
    BY DEF c, p
  <2>2. c * D \in Int /\ c * D * D \in Int
    BY <1>2, SMT
  <2>3. ~Alike(c * D, 0, p)
    BY <1>2, <2>1, NoZeroProduct DEF p
  <2>4. ~Alike(c * D * D, 0, p)
    BY <1>2, <2>1, <2>2, <2>3, NoZeroProduct DEF p
  <2>5. ~Alike(c * D * D * D, 0, p)
    BY <1>2, <2>1, <2>2, <2>4, NoZeroProduct DEF p
  <2> QED BY <2>5 DEF Like
<1> DEFINE ww == W * W
<1> HIDE DEF c, W, xd, yd, cd, xw, cw, aw, yw, lw
<1>10. Like(hh, cd * cd, p)
  BY <1>2, <1>5, LikeRules, Zenon
<1> HIDE DEF hh
<1>11. Like(hhh, cw, p) /\ Like(uhh, xw, p)
  <2>1. Like(hhh, cd * (cd * cd), p) /\ Like(uhh, xd * (cd * cd), p)
    BY <1>2, <1>5, <1>10, LikeRules, Zenon
  <2> QED BY <1>7, <2>1, Zenon
<1> HIDE DEF hhh, uhh
<1>12. xn \in 0..(p - 1) /\ Like(xn, lw * lw - xw - aw, p)
  <2>1. Like(2 * uhh, 2 * xw, p)
    <3>1. Like(2, 2, p)
      BY <1>2, LikeRules, 2 \in Int
    <3> QED BY <1>2, <1>11, <3>1, LikeRules, Zenon
  <2>2. Like(d.r * d.r, lw * lw, p)
    BY <1>2, <1>8, LikeRules, Zenon
  <2>3. Like(d.r * d.r - hhh, lw * lw - cw, p)
    BY <1>2, <1>11, <2>2, LikeRules, Zenon
  <2>4. Like(d.r * d.r - hhh - 2 * uhh, lw * lw - cw - 2 * xw, p)
    BY <1>2, <2>1, <2>3, LikeRules, Zenon
  <2>5. xn \in 0..(p - 1) /\ Like(xn, lw * lw - cw - 2 * xw, p)
    BY <1>2, <2>4, LikeRules, Zenon
  <2> HIDE DEF xn
  <2>6. lw * lw - cw - 2 * xw = lw * lw - xw - aw
    <3>1. lw * lw \in Int
      BY <2>2 DEF Like
    <3> QED BY <1>3, <1>4, <3>1
  <2> QED BY <2>5, <2>6, Zenon
<1> HIDE DEF xn
<1>13. yn \in 0..(p - 1) /\ Like(yn, (xw - xn) * lw - yw, p)
  <2>0. xn \in Int
    BY <1>2, <1>12
  <2>1. Like(xn, xn, p)
    BY <1>2, <2>0, LikeRules, Zenon
  <2>2. Like((uhh - xn) % p, xw - xn, p)
    BY <1>2, <1>11, <2>1, LikeRules, Zenon
  <2>3. Like(((uhh - xn) % p) * d.r, (xw - xn) * lw, p)
    BY <1>2, <1>8, <2>2, LikeRules, Zenon
  <2>4. Like(d.s1 * hhh, yd * cw, p)
    BY <1>2, <1>5, <1>11, LikeRules, Zenon
  <2>5. Like(d.s1 * hhh, yw, p)
    BY <1>7, <2>4, Zenon
  <2>6. Like(((uhh - xn) % p) * d.r - d.s1 * hhh, (xw - xn) * lw - yw, p)
    BY <1>2, <2>3, <2>5, LikeRules, Zenon
  <2> QED BY <1>2, <2>6, LikeRules, Zenon
<1>14. zn \in 0..(p - 1) /\ Like(zn, W, p)
  <2>1. Like(z, D, p)
    BY DEF p
  <2>2. Like(z * d.h, D * cd, p)
    BY <1>2, <1>5, <2>1, LikeRules, Zenon
  <2>3. Like(z * d.h, W, p)
    BY <1>7, <2>2, Zenon
  <2> QED BY <1>2, <2>3, LikeRules, Zenon
<1> HIDE DEF yn, zn
<1>15. /\ PrimeField(p) /\ x3 \in 0..(p - 1) /\ y3 \in 0..(p - 1)
       /\ Like(x3, l * l - x - a, p) /\ Like(y3, l * (x - x3) - y, p)
  BY DEF p
<1>16. Like(xn, (l * W) * (l * W) - x * W * W - a * W * W, p)
  BY <1>12, Zenon DEF lw, xw, aw
<1>17. Like(yn, (x * W * W - xn) * (l * W) - y * W * W * W, p)
  BY <1>13, Zenon DEF lw, xw, yw
<1>18. Stands(p, <<xn, yn, zn>>, x3, y3)
  BY <1>3, <1>9, <1>12, <1>13, <1>14, <1>15, <1>16, <1>17, SumIs
<1> QED BY <1>1, <1>18 DEF p

-----------------------------------------------------------------------------
(* Points and multiples of the base point.                                 *)

\* The group law for integers.
LEMMA BaseRests ==
  ASSUME NEW E, Cyclic(E), NEW x \in Int
  PROVE  x % E.n \in Nat /\ x % E.n \in 0..(E.n - 1) /\ TimesBase(E, x) = TimesBase(E, x % E.n)
<1>1. E.n \in Nat \ {0}
  BY CurveNumbers
<1>2. x % E.n \in 0..(E.n - 1)
  BY <1>1, RestAlike
<1>3. (x % E.n) % E.n = x % E.n
  BY <1>1, <1>2, ModOfSmall
<1> QED BY <1>1, <1>2, <1>3 DEF TimesBase

\* Numbers like each other have the same multiple.
LEMMA BaseAlike ==
  ASSUME NEW E, Cyclic(E), NEW x \in Int, NEW y \in Int, Alike(x, y, E.n)
  PROVE  TimesBase(E, x) = TimesBase(E, y)
BY CurveNumbers, AlikeRests DEF TimesBase

\* The group law adds the numbers.
LEMMA BasePlus ==
  ASSUME NEW E, Cyclic(E), NEW x \in Int, NEW y \in Int
  PROVE  Plus(E, TimesBase(E, x), TimesBase(E, y)) = TimesBase(E, x + y)
<1> DEFINE n == E.n
           a == x % n
           b == y % n
<1>1. n \in Nat \ {0}
  BY CurveNumbers
<1>2. a \in Nat /\ b \in Nat /\ TimesBase(E, x) = TimesBase(E, a) /\ TimesBase(E, y) = TimesBase(E, b)
  BY BaseRests
<1>3. Alike(a, x, n) /\ Alike(b, y, n)
  BY <1>1, RestAlike
<1> HIDE DEF n, a, b
<1>4. a \in Int /\ b \in Int /\ a + b \in Int /\ x + y \in Int
  BY <1>2
<1>5. Alike(a + b, x + y, n)
  BY <1>1, <1>3, <1>4, AlikeSum
<1>6. TimesBase(E, a + b) = TimesBase(E, x + y)
  BY <1>4, <1>5, BaseAlike DEF n
<1>7. Plus(E, TimesBase(E, a), TimesBase(E, b)) = TimesBase(E, a + b)
  BY <1>2, BaseSums
<1> QED BY <1>2, <1>6, <1>7

\* A multiple is a point of the curve but for the multiples of the order.
LEMMA BaseFinite ==
  ASSUME NEW E, Cyclic(E), NEW x \in Int
  PROVE  /\ TimesBase(E, x) \in (0..(E.p - 1)) \X (0..(E.p - 1))
         /\ TimesBase(E, x) = AtInfinity <=> Alike(x, 0, E.n)
         /\ TimesBase(E, x) # AtInfinity => OnCurve(E, TimesBase(E, x))
         /\ TimesBase(E, 1) = E.g
<1> DEFINE n == E.n
           a == x % n
<1>1. n \in Nat \ {0} /\ n > 1
  BY CurveNumbers
<1>2. a \in Nat /\ a \in 0..(n - 1) /\ TimesBase(E, x) = TimesBase(E, a)
  BY BaseRests
<1>3. a % n = a /\ 0 % n = 0
  BY <1>1, <1>2, ModOfSmall, 0 \in 0..(n - 1)
<1>4. Alike(x, 0, n) <=> a = 0
  BY <1>1, <1>3, AlikeRests, 0 \in Int
<1> HIDE DEF a, n
<1>5. /\ TimesBase(E, a) \in (0..(E.p - 1)) \X (0..(E.p - 1))
      /\ TimesBase(E, a) = AtInfinity <=> a = 0
      /\ a # 0 => OnCurve(E, TimesBase(E, a))
  BY <1>2, <1>3, BasePoints, BaseInfinity DEF n
<1>6. TimesBase(E, 1) = E.g
  <2>1. BaseMultiples[E][1] = Plus(E, Plus(E, BaseMultiples[E][0], BaseMultiples[E][0]), E.g) /\ BaseMultiples[E][0] = AtInfinity
    <3>1. Members(BaseMultiples[E], E, E.g, n - 1)
      BY <1>1, BaseHalving, HalvingMembers, CurveNumbers DEF n
    <3>2. 0 \in 0..(n - 1) /\ 1 \in 0..(n - 1) /\ 1 % 2 = 1 /\ 1 \div 2 = 0
      BY <1>1, SMT
    <3>3. OfItsHalf(BaseMultiples[E], E, E.g, 0) /\ OfItsHalf(BaseMultiples[E], E, E.g, 1)
      BY <3>1, <3>2, Zenon DEF Members
    <3>4. BaseMultiples[E][0] = AtInfinity
      BY <3>3, Zenon DEF OfItsHalf
    <3> QED BY <3>2, <3>3, <3>4 DEF OfItsHalf
  <2>2. 1 % n = 1
    BY <1>1, ModOfSmall, 1 \in 0..(n - 1)
  <2>3. Plus(E, Plus(E, AtInfinity, AtInfinity), E.g) = E.g
    BY DEF Plus
  <2> QED BY <2>1, <2>2, <2>3 DEF TimesBase, n
<1> QED BY <1>2, <1>4, <1>5, <1>6 DEF n

\* The opposite number has the opposite point.
LEMMA BaseNegative ==
  ASSUME NEW E, Cyclic(E), NEW x \in Int, TimesBase(E, x) # AtInfinity
  PROVE  TimesBase(E, -x) = Negative(E, TimesBase(E, x))
<1> DEFINE n == E.n
           a == x % n
<1>1. n \in Nat \ {0} /\ n > 1
  BY CurveNumbers
<1>2. a \in 0..(n - 1) /\ TimesBase(E, x) = TimesBase(E, a) /\ Alike(a, x, n)
  BY <1>1, BaseRests, RestAlike
<1>3. a # 0
  <2>1. ~Alike(x, 0, n)
    BY BaseFinite
  <2> HIDE DEF a
  <2> QED BY <1>1, <1>2, <2>1, AlikeBack, a \in Int
<1> HIDE DEF a
<1>4. a \in 1..(n - 1) /\ n - a \in 1..(n - 1) /\ a % n = a /\ (n - a) % n = n - a
  BY <1>1, <1>2, <1>3, ModOfSmall
<1>5. Negative(E, BaseMultiples[E][a]) = BaseMultiples[E][n - a]
  BY <1>4 DEF Cyclic, IsGroup, n
<1>6. Negative(E, TimesBase(E, a)) = TimesBase(E, n - a)
  BY <1>4, <1>5 DEF TimesBase, n
<1>7. Alike(n - a, -x, n)
  <2>1. PICK q \in Int : a = x + q * n
    BY <1>2 DEF Alike
  <2>2. n - a = -x + (1 - q) * n
    BY <1>1, <2>1, SMT
  <2> QED BY <2>1, <2>2, 1 - q \in Int DEF Alike
<1>8. TimesBase(E, n - a) = TimesBase(E, -x)
  BY <1>1, <1>4, <1>7, BaseAlike, n - a \in Int, -x \in Int DEF n
<1> QED BY <1>2, <1>6, <1>8

\* A quotient in the field.
LEMMA QuotientIs ==
  ASSUME NEW E \in Curves, PrimeField(E.p), NEW f \in Int, NEW c \in Int, ~Alike(c, 0, E.p)
  PROVE  /\ (f * Inv(c % E.p, E.p)) % E.p \in 0..(E.p - 1)
         /\ Like(((f * Inv(c % E.p, E.p)) % E.p) * c, f, E.p)
<1> DEFINE p == E.p
           d == c % p
           i == Inv(d, p)
           l == (f * i) % p
<1>1. p \in Nat \ {0} /\ 0 \in Int
  BY DEF PrimeField
<1>2. d \in 0..(p - 1) /\ Alike(d, c, p)
  BY <1>1, RestAlike
<1>3. d # 0
  <2> HIDE DEF d
  <2>1. d \in Int /\ ~Alike(c, 0, p)
    BY <1>2 DEF p
  <2> QED BY <1>1, <1>2, <2>1, AlikeBack
<1> HIDE DEF d
<1>4. i \in 1..(p - 1) /\ Alike(d * i, 1, p)
  BY <1>2, <1>3, InverseIs
<1> HIDE DEF i, p
<1>5. Like(d, c, p) /\ Like(d * i, 1, p) /\ Like(i, i, p) /\ Like(f, f, p) /\ Like(c, c, p)
  <2>1. d \in Int /\ i \in Int /\ d * i \in Int /\ 1 \in Int
    BY <1>2, <1>4, SMT
  <2> QED BY <1>1, <1>2, <1>4, <2>1, LikeRules DEF Like
<1>6. Like(l, f * i, p) /\ l \in 0..(p - 1)
  <2>1. Like(f * i, f * i, p)
    BY <1>1, <1>5, LikeRules, Zenon
  <2> QED BY <1>1, <2>1, LikeRules, Zenon
<1> HIDE DEF l
<1>7. Like(l * c, (f * i) * c, p)
  BY <1>1, <1>5, <1>6, LikeRules, Zenon
<1>8. Like(c * i, 1, p)
  <2>1. Like(c * i, d * i, p)
    BY <1>1, <1>5, LikeRules, Zenon
  <2> QED BY <1>1, <1>5, <2>1, LikeRules, Zenon
<1>9. Like(f * (c * i), f * 1, p)
  BY <1>1, <1>5, <1>8, LikeRules, Zenon
<1>10. (f * i) * c = f * (c * i) /\ f * 1 = f
  <2>1. i \in Int
    BY <1>5 DEF Like
  <2> QED BY <2>1, SMT
<1>11. Like(l * c, f * (c * i), p) /\ Like(f * (c * i), f, p)
  BY <1>7, <1>9, <1>10, Zenon
<1>12. Like(l * c, f, p)
  <2> DEFINE g == l * c
             h == f * (c * i)
  <2> HIDE DEF g, h
  <2>1. Like(g, h, p) /\ Like(h, f, p)
    BY <1>11 DEF g, h
  <2>2. Like(g, f, p)
    BY <1>1, <2>1, LikeRules, Zenon
  <2> QED BY <2>2 DEF g
<1> QED BY <1>6, <1>12 DEF l, i, d, p

\* The coordinates the formulas compute are in the field.
LEMMA RestIn ==
  ASSUME NEW p \in Nat \ {0}
  PROVE  \A x, y \in Int : /\ x * y \in Int /\ x - y \in Int /\ 2 * x \in Int
                          /\ x % p \in 0..(p - 1) /\ x % p \in Int
BY SMT

\* A double's coordinates are field elements, Z is zero where it has to be.
LEMMA DoubleCoordinates ==
  ASSUME NEW E \in Curves, PrimeField(E.p), NEW P, Coordinates(E.p, P)
  PROVE  /\ Coordinates(E.p, gfec_point_double(E, P))
         /\ P[2] = 0 \/ P[3] = 0 => gfec_point_double(E, P)[3] = 0
<1> DEFINE p  == E.p
           y2 == (2 * P[2]) % p
           m4 == (y2 * y2) % p
           y8 == div2((m4 * m4) % p, p)
           sx == (m4 * P[1]) % p
           zz == (P[3] * P[3]) % p
           m  == DoubleM(E, P[1], zz)
           xn == (m * m - 2 * sx) % p
           yn == (m * ((sx - xn) % p) - y8) % p
           zn == (y2 * P[3]) % p
<1>1. gfec_point_double(E, P) = <<xn, yn, zn>>
  BY DEF gfec_point_double
<1>2. /\ p \in Nat \ {0} /\ P[1] \in 0..(p - 1) /\ P[2] \in 0..(p - 1) /\ P[3] \in 0..(p - 1)
      /\ P[1] \in Int /\ P[2] \in Int /\ P[3] \in Int /\ 0 % p = 0
  <2>1. /\ p \in Nat \ {0} /\ P[1] \in 0..(p - 1) /\ P[2] \in 0..(p - 1) /\ P[3] \in 0..(p - 1)
    BY DEF Coordinates, PrimeField
  <2> QED BY <2>1
<1>3. y2 \in 0..(p - 1) /\ zz \in 0..(p - 1) /\ y2 \in Int
  BY <1>2, RestIn, Zenon
<1>4. (P[2] = 0 \/ P[3] = 0) => zn = 0
  <2>1. ASSUME P[3] = 0 PROVE zn = 0
    <3> HIDE DEF y2
    <3>1. y2 * P[3] = 0
      BY <1>3, <2>1
    <3> QED BY <1>2, <3>1, Zenon
  <2>2. ASSUME P[2] = 0 PROVE zn = 0
    <3>1. 2 * P[2] = 0
      BY <2>2
    <3>2. y2 = 0
      BY <1>2, <3>1, Zenon
    <3> HIDE DEF y2
    <3>3. y2 * P[3] = 0
      BY <1>2, <3>2
    <3> QED BY <1>2, <3>3, Zenon
  <2> QED BY <2>1, <2>2
<1>5. m \in 0..(p - 1)
  BY <1>2, <1>3, DoubleMIs
<1>6. m4 \in Int /\ zn \in 0..(p - 1)
  BY <1>2, <1>3, RestIn, Zenon
<1> HIDE DEF zz, m, zn, m4
<1>7. sx \in Int /\ (m4 * m4) % p \in 0..(p - 1)
  BY <1>2, <1>6, RestIn, Zenon
<1>8. y8 \in 0..(p - 1)
  BY <1>7, HalvedIs
<1> HIDE DEF sx, y8
<1>9. m \in Int /\ y8 \in Int
  BY <1>5, <1>8
<1>10. xn \in 0..(p - 1) /\ xn \in Int
  BY <1>2, <1>7, <1>9, RestIn, Zenon
<1> HIDE DEF xn
<1>11. yn \in 0..(p - 1)
  BY <1>2, <1>7, <1>9, <1>10, RestIn, Zenon
<1> HIDE DEF yn
<1> QED BY <1>1, <1>4, <1>6, <1>10, <1>11 DEF Coordinates

\* P stands for the i-th multiple of the base point.
Represents(E, P, i) ==
  /\ Coordinates(E.p, P)
  /\ TimesBase(E, i) = AtInfinity => P[3] = 0
  /\ TimesBase(E, i) # AtInfinity => Stands(E.p, P, TimesBase(E, i)[1], TimesBase(E, i)[2])

\* Then the affine point is that multiple.
LEMMA AffineMultiple ==
  ASSUME NEW E, Cyclic(E), PrimeField(E.p), NEW P, NEW i \in Int, Represents(E, P, i)
  PROVE  Affine(E, P) = TimesBase(E, i)
<1>1. E \in Curves
  BY DEF Cyclic
<1>2. CASE TimesBase(E, i) = AtInfinity
  BY <1>2 DEF Represents, Affine
<1>3. CASE TimesBase(E, i) # AtInfinity
  <2>1. TimesBase(E, i) = <<TimesBase(E, i)[1], TimesBase(E, i)[2]>>
    BY BaseFinite
  <2> QED BY <1>1, <1>3, <2>1, AffineIs DEF Represents
<1> QED BY <1>2, <1>3

\* The chord of the group law, its slope as the formulas take it.
LEMMA ChordSum ==
  ASSUME NEW E \in Curves, PrimeField(E.p),
         NEW A \in (0..(E.p - 1)) \X (0..(E.p - 1)), NEW B \in (0..(E.p - 1)) \X (0..(E.p - 1)),
         A # AtInfinity, B # AtInfinity, A[1] # B[1]
  PROVE  LET C == Plus(E, A, B)
         IN  /\ C[1] \in 0..(E.p - 1) /\ C[2] \in 0..(E.p - 1) /\ ~Alike(B[1] - A[1], 0, E.p)
             /\ \E l \in Int : /\ Like(l * (B[1] - A[1]), B[2] - A[2], E.p)
                               /\ Like(C[1], l * l - A[1] - B[1], E.p)
                               /\ Like(C[2], l * (A[1] - C[1]) - A[2], E.p)
<1> DEFINE p == E.p
           x == A[1]
           y == A[2]
           a == B[1]
           b == B[2]
           l == ((y - b) * Inv((x - a) % p, p)) % p
           c == (l * l - x - a) % p
           d == (l * (x - c) - y) % p
<1>1. Plus(E, A, B) = <<c, d>>
  <2>1. A # B
    OBVIOUS
  <2>2. Slope(E, A, B) = l
    BY <2>1, Zenon DEF Slope
  <2>3. Plus(E, A, B) = << (Slope(E, A, B) * Slope(E, A, B) - x - a) % p,
                           (Slope(E, A, B) * (x - ((Slope(E, A, B) * Slope(E, A, B) - x - a) % p)) - y) % p >>
    BY Zenon DEF Plus
  <2> QED BY <2>2, <2>3, Zenon
<1>2. /\ p \in Nat \ {0} /\ x \in 0..(p - 1) /\ a \in 0..(p - 1) /\ x # a
      /\ x \in Int /\ y \in Int /\ a \in Int /\ b \in Int /\ 0 \in Int /\ PrimeField(p)
  BY DEF PrimeField
<1>3. ~Alike(x - a, 0, p) /\ ~Alike(a - x, 0, p)
  <2> HIDE DEF x, a, p
  <2>1. ASSUME Alike(x - a, 0, p) PROVE FALSE
    <3>1. Alike((x - a) + a, 0 + a, p) /\ (x - a) + a = x /\ 0 + a = a
      BY <1>2, <2>1, AlikeItself, AlikeSum, x - a \in Int
    <3>2. Alike(x, a, p)
      BY <3>1
    <3> QED BY <1>2, <3>2, AlikeBelow
  <2>2. ASSUME Alike(a - x, 0, p) PROVE FALSE
    <3>1. Alike((a - x) + x, 0 + x, p) /\ (a - x) + x = a /\ 0 + x = x
      BY <1>2, <2>2, AlikeItself, AlikeSum, a - x \in Int
    <3>2. Alike(a, x, p)
      BY <3>1
    <3> QED BY <1>2, <3>2, AlikeBelow
  <2> QED BY <2>1, <2>2
<1>4. l \in 0..(p - 1) /\ Like(l * (x - a), y - b, p)
  <2> HIDE DEF x, y, a, b
  <2>1. x - a \in Int /\ y - b \in Int
    BY <1>2
  <2> QED BY <1>2, <1>3, <2>1, QuotientIs
<1> HIDE DEF l, x, y, a, b, p
<1>5. l \in Int /\ x - a \in Int /\ l * l - x - a \in Int
  BY <1>2, <1>4
<1>6. Like(l * (a - x), b - y, p)
  <2>1. Like(0, 0, p)
    BY <1>2, LikeRules
  <2>2. Like(0 - l * (x - a), 0 - (y - b), p)
    BY <1>2, <1>4, <2>1, LikeRules, Zenon
  <2>3. 0 - l * (x - a) = l * (a - x) /\ 0 - (y - b) = b - y
    BY <1>2, <1>5, SMT
  <2> QED BY <2>2, <2>3, Zenon
<1>7. Like(c, l * l - x - a, p) /\ c \in 0..(p - 1)
  <2>1. Like(l * l - x - a, l * l - x - a, p)
    BY <1>2, <1>5, LikeRules, Zenon
  <2> QED BY <1>2, <2>1, LikeRules, Zenon
<1> HIDE DEF c
<1>8. l * (x - c) - y \in Int
  BY <1>2, <1>5, <1>7, SMT
<1>9. Like(d, l * (x - c) - y, p) /\ d \in 0..(p - 1)
  <2>1. Like(l * (x - c) - y, l * (x - c) - y, p)
    BY <1>2, <1>8, LikeRules, Zenon
  <2> QED BY <1>2, <2>1, LikeRules, Zenon
<1> HIDE DEF d
<1>10. Plus(E, A, B)[1] = c /\ Plus(E, A, B)[2] = d
  BY <1>1
<1> QED BY <1>3, <1>5, <1>6, <1>7, <1>9, <1>10, Zenon DEF p, x, y, a, b

\* The tangent.
LEMMA TangentSum ==
  ASSUME NEW E \in Curves, PrimeField(E.p),
         NEW A \in (0..(E.p - 1)) \X (0..(E.p - 1)), A[2] # 0
  PROVE  LET C == Plus(E, A, A)
         IN  /\ C[1] \in 0..(E.p - 1) /\ C[2] \in 0..(E.p - 1)
             /\ \E l \in Int : /\ Like(l * (2 * A[2]), 3 * A[1] * A[1] + E.a, E.p)
                               /\ Like(C[1], l * l - A[1] - A[1], E.p)
                               /\ Like(C[2], l * (A[1] - C[1]) - A[2], E.p)
<1> DEFINE p == E.p
           x == A[1]
           y == A[2]
           g == 3 * x * x + E.a
           f == g % p
           l == (f * Inv((2 * y) % p, p)) % p
           c == (l * l - x - x) % p
           d == (l * (x - c) - y) % p
<1>2. /\ p \in Nat \ {0} /\ x \in Int /\ y \in 0..(p - 1) /\ y \in Int /\ 0 \in Int /\ PrimeField(p)
      /\ y # 0 /\ E.a \in Int
  BY CurveAssumption DEF PrimeField, IsCurve
<1>3. ~Alike(2 * y, 0, p)
  <2> HIDE DEF y, p
  <2>1. ~Alike(2, 0, p) /\ ~Alike(y, 0, p)
    BY <1>2, OddField, SmallNotZero
  <2> QED BY <1>2, <2>1, NoZeroProduct, 2 \in Int
<1>1. Plus(E, A, A) = <<c, d>>
  <2>1. (y + y) % p # 0
    <3> HIDE DEF y, p
    <3>1. y + y = 2 * y /\ 2 * y \in Int /\ 0 % p = 0
      BY <1>2
    <3>2. (2 * y) % p # 0 % p
      BY <1>2, <1>3, <3>1, AlikeRests
    <3> QED BY <3>1, <3>2
  <2>2. A # AtInfinity
    BY DEF AtInfinity
  <2>3. Slope(E, A, A) = l
    BY Zenon DEF Slope
  <2>4. Plus(E, A, A) = << (Slope(E, A, A) * Slope(E, A, A) - x - x) % p,
                           (Slope(E, A, A) * (x - ((Slope(E, A, A) * Slope(E, A, A) - x - x) % p)) - y) % p >>
    BY <2>1, <2>2, Zenon DEF Plus
  <2> QED BY <2>3, <2>4, Zenon
<1> HIDE DEF x, y, p
<1>4. g \in Int
  BY <1>2, SMT
<1> HIDE DEF g
<1>5. f \in Int /\ Like(f, g, p) /\ 2 * y \in Int
  <2>1. Like(g, g, p)
    BY <1>2, <1>4, LikeRules, Zenon
  <2>2. Like(f, g, p)
    BY <1>2, <2>1, LikeRules, Zenon
  <2> QED BY <1>2, <2>2 DEF Like
<1> HIDE DEF f
<1>6. l \in 0..(p - 1) /\ Like(l * (2 * y), f, p)
  BY <1>2, <1>3, <1>5, QuotientIs DEF p
<1> HIDE DEF l
<1>7. l \in Int /\ l * l - x - x \in Int /\ Like(l * (2 * y), g, p)
  <2>1. l \in Int /\ l * l - x - x \in Int
    BY <1>2, <1>6
  <2> DEFINE h == l * (2 * y)
  <2> HIDE DEF h
  <2>2. Like(h, f, p)
    BY <1>6 DEF h
  <2>3. Like(h, g, p)
    BY <1>2, <1>5, <2>2, LikeRules, Zenon
  <2> QED BY <2>1, <2>3 DEF h
<1>8. Like(c, l * l - x - x, p) /\ c \in 0..(p - 1)
  <2>1. Like(l * l - x - x, l * l - x - x, p)
    BY <1>2, <1>7, LikeRules, Zenon
  <2> QED BY <1>2, <2>1, LikeRules, Zenon
<1> HIDE DEF c
<1>9. l * (x - c) - y \in Int
  BY <1>2, <1>7, <1>8, SMT
<1>10. Like(d, l * (x - c) - y, p) /\ d \in 0..(p - 1)
  <2>1. Like(l * (x - c) - y, l * (x - c) - y, p)
    BY <1>2, <1>9, LikeRules, Zenon
  <2> QED BY <1>2, <2>1, LikeRules, Zenon
<1> HIDE DEF d
<1>11. Plus(E, A, A)[1] = c /\ Plus(E, A, A)[2] = d
  BY <1>1
<1> QED BY <1>7, <1>8, <1>10, <1>11, Zenon DEF g, p, x, y

\* What stands for a multiple stands for every number of the same rest.
LEMMA RepresentsToo ==
  ASSUME NEW E, NEW P, NEW i, NEW j, Represents(E, P, i), TimesBase(E, i) = TimesBase(E, j)
  PROVE  Represents(E, P, j)
BY Zenon DEF Represents

\* A factor that is no multiple of the modulus does not make or unmake zero.
LEMMA ZeroTold ==
  ASSUME NEW p, PrimeField(p), NEW c \in Int, NEW D \in Int, ~Alike(D, 0, p), NEW h \in 0..(p - 1)
  PROVE  /\ Like(h, c * D * D, p) => (h = 0 <=> Alike(c, 0, p))
         /\ Like(h, c * D * D * D, p) => (h = 0 <=> Alike(c, 0, p))
<1>1. p \in Nat \ {0} /\ 0 \in Int /\ h \in Int
  BY DEF PrimeField
<1>2. Alike(h, 0, p) <=> h = 0
  BY SmallNotZero
<1>3. c * D \in Int /\ c * D * D \in Int /\ c * D * D * D \in Int /\ 0 * D = 0
  BY SMT
<1>4. /\ Alike(c, 0, p) => Alike(c * D, 0, p) /\ Alike(c * D * D, 0, p) /\ Alike(c * D * D * D, 0, p)
  <2> SUFFICES ASSUME Alike(c, 0, p)
               PROVE  Alike(c * D, 0, p) /\ Alike(c * D * D, 0, p) /\ Alike(c * D * D * D, 0, p)
    OBVIOUS
  <2>1. Like(c, 0, p) /\ Like(D, D, p)
    BY <1>1, AlikeItself DEF Like
  <2>2. Like(c * D, 0 * D, p)
    BY <1>1, <2>1, LikeRules, Zenon
  <2>3. Like(c * D * D, 0 * D, p)
    BY <1>1, <1>3, <2>1, <2>2, LikeRules, Zenon
  <2>4. Like(c * D * D * D, 0 * D, p)
    BY <1>1, <1>3, <2>1, <2>3, LikeRules, Zenon
  <2> QED BY <1>3, <2>2, <2>3, <2>4 DEF Like
<1>5. /\ Alike(c * D * D, 0, p) => Alike(c, 0, p)
      /\ Alike(c * D * D * D, 0, p) => Alike(c, 0, p)
  BY <1>3, NoZeroProduct
<1>6. ASSUME NEW e \in Int, Like(h, e, p) PROVE h = 0 <=> Alike(e, 0, p)
  BY <1>1, <1>2, <1>6, AlikeOn, AlikeBack DEF Like
<1> QED BY <1>3, <1>4, <1>5, <1>6

\* Field elements that are alike are equal.
LEMMA SameAbscissa ==
  ASSUME NEW p, PrimeField(p), NEW a \in 0..(p - 1), NEW b \in 0..(p - 1)
  PROVE  Alike(a - b, 0, p) <=> a = b
<1>1. p \in Nat \ {0} /\ a \in Int /\ b \in Int /\ a - b \in Int /\ 0 \in Int
  BY DEF PrimeField
<1>2. ASSUME Alike(a - b, 0, p) PROVE a = b
  <2>1. Alike((a - b) + b, 0 + b, p)
    BY <1>1, <1>2, AlikeItself, AlikeSum
  <2>2. (a - b) + b = a /\ 0 + b = b
    BY <1>1
  <2> QED BY <1>1, <2>1, <2>2, AlikeBelow
<1>3. ASSUME a = b PROVE Alike(a - b, 0, p)
  <2>1. a - b = 0
    BY <1>1, <1>3
  <2> QED BY <1>1, <2>1, AlikeItself
<1> QED BY <1>2, <1>3

\* Two points of the curve with the same abscissa are equal or opposite.
LEMMA EqualOrOpposite ==
  ASSUME NEW E \in Curves, PrimeField(E.p),
         NEW A \in (0..(E.p - 1)) \X (0..(E.p - 1)), NEW B \in (0..(E.p - 1)) \X (0..(E.p - 1)),
         OnCurve(E, A), OnCurve(E, B), A[1] = B[1]
  PROVE  A[2] = B[2] \/ (A[2] + B[2]) % E.p = 0
<1> DEFINE p == E.p
           y == A[2]
           b == B[2]
<1>1. p \in Nat \ {0} /\ y \in 0..(p - 1) /\ b \in 0..(p - 1) /\ y \in Int /\ b \in Int /\ PrimeField(p)
  BY DEF PrimeField
<1>2. (y * y) % p = (b * b) % p
  BY DEF OnCurve
<1> HIDE DEF y, b, p
<1>3. y * y \in Int /\ b * b \in Int /\ y - b \in Int /\ y + b \in Int /\ 0 % p = 0
  BY <1>1
<1>4. Alike(y * y, b * b, p)
  BY <1>1, <1>2, <1>3, AlikeRests
<1>5. Alike(y * y - b * b, b * b - b * b, p)
  BY <1>1, <1>3, <1>4, AlikeItself, AlikeSum
<1>6. y * y - b * b = (y - b) * (y + b) /\ b * b - b * b = 0
  BY <1>1, SMT
<1>7. Alike((y - b) * (y + b), 0, p)
  BY <1>5, <1>6, Zenon
<1>8. Alike(y - b, 0, p) \/ Alike(y + b, 0, p)
  BY <1>1, <1>3, <1>7, NoZeroProduct
<1>9. Alike(y + b, 0, p) => (y + b) % p = 0
  BY <1>1, <1>3, AlikeRests, 0 \in Int
<1> QED BY <1>1, <1>8, <1>9, SameAbscissa DEF p, y, b

\* A sum at infinity is that of opposite points.
LEMMA OppositeTold ==
  ASSUME NEW E, Cyclic(E), NEW i \in Int, NEW j \in Int, TimesBase(E, i) # AtInfinity,
         TimesBase(E, i + j) = AtInfinity
  PROVE  TimesBase(E, j) = Negative(E, TimesBase(E, i))
<1> DEFINE n == E.n
<1>1. n \in Nat \ {0} /\ i + j \in Int /\ -i \in Int /\ 0 \in Int
  BY CurveNumbers
<1>2. Alike(i + j, 0, n)
  BY <1>1, BaseFinite
<1> HIDE DEF n
<1>3. PICK q \in Int : i + j = 0 + q * n
  BY <1>2 DEF Alike
<1>4. j = -i + q * n
  BY <1>1, <1>3, SMT
<1>5. Alike(j, -i, n)
  BY <1>4 DEF Alike
<1> QED BY <1>1, <1>5, BaseAlike, BaseNegative DEF n

\* gfec_point_double doubles the number, whichever form of the parameter a.
LEMMA DoubleMultiple ==
  ASSUME NEW E, Cyclic(E), PrimeField(E.p), NEW P, NEW i \in Int, Represents(E, P, i)
  PROVE  Represents(E, gfec_point_double(E, P), 2 * i)
<1> DEFINE p == E.p
           A == TimesBase(E, i)
           D == TimesBase(E, 2 * i)
           R == gfec_point_double(E, P)
<1>1. E \in Curves /\ 2 * i \in Int /\ p \in Nat \ {0} /\ 0 % p = 0
  BY DEF Cyclic, PrimeField
<1>2. D = Plus(E, A, A)
  <2>1. i + i = 2 * i
    OBVIOUS
  <2> QED BY <2>1, BasePlus
<1>3. A \in (0..(p - 1)) \X (0..(p - 1)) /\ D \in (0..(p - 1)) \X (0..(p - 1))
  BY <1>1, BaseFinite
<1>4. Coordinates(p, R) /\ (P[2] = 0 \/ P[3] = 0 => R[3] = 0)
  BY <1>1, DoubleCoordinates DEF Represents
<1>5. CASE A = AtInfinity
  <2>1. P[3] = 0
    BY <1>5 DEF Represents
  <2>2. D = AtInfinity
    BY <1>2, <1>5 DEF Plus
  <2> HIDE DEF R, D
  <2> QED BY <1>4, <2>1, <2>2, Zenon DEF Represents, R, D, p
<1>6. CASE A # AtInfinity /\ A[2] = 0
  <2>1. D = AtInfinity
    <3>1. (A[2] + A[2]) % p = 0
      BY <1>1, <1>6
    <3> QED BY <1>2, <1>6, <3>1, Zenon DEF Plus
  <2>2. P[2] = 0
    <3>1. Stands(p, P, A[1], A[2])
      BY <1>6 DEF Represents
    <3>2. P[2] \in 0..(p - 1) /\ P[3] \in Int /\ Alike(P[2], 0 * P[3] * P[3] * P[3], p)
      BY <1>6, <3>1 DEF Stands, Coordinates
    <3>3. 0 * P[3] * P[3] * P[3] = 0
      BY <3>2, SMT
    <3> QED BY <3>2, <3>3, SmallNotZero
  <2> HIDE DEF R, D
  <2> QED BY <1>4, <2>1, <2>2, Zenon DEF Represents, R, D, p
<1>7. CASE A # AtInfinity /\ A[2] # 0
  <2>1. D # AtInfinity
    <3> SUFFICES ASSUME D = AtInfinity PROVE FALSE
      OBVIOUS
    <3>1. i + i = 2 * i
      OBVIOUS
    <3>2. A = Negative(E, A)
      BY <1>7, <3>1, OppositeTold
    <3> DEFINE y == A[2]
    <3>3. y = (-y) % p /\ y \in 0..(p - 1) /\ y \in Int /\ -y \in Int /\ y # 0
      BY <1>3, <1>7, <3>2 DEF Negative
    <3> HIDE DEF y, p
    <3>4. Alike(y, -y, p)
      BY <1>1, <3>3, RestAlike
    <3>5. Alike(y + y, -y + y, p)
      BY <1>1, <3>3, <3>4, AlikeItself, AlikeSum
    <3>6. y + y = 2 * y /\ -y + y = 0 /\ 2 \in Int
      BY <3>3
    <3>7. Alike(2 * y, 0, p)
      BY <3>5, <3>6
    <3> QED BY <3>3, <3>6, <3>7, OddField, SmallNotZero, NoZeroProduct DEF p
  <2>2. /\ D[1] \in 0..(p - 1) /\ D[2] \in 0..(p - 1)
        /\ \E l \in Int : /\ Like(l * (2 * A[2]), 3 * A[1] * A[1] + E.a, p)
                          /\ Like(D[1], l * l - A[1] - A[1], p)
                          /\ Like(D[2], l * (A[1] - D[1]) - A[2], p)
    BY <1>1, <1>2, <1>3, <1>7, TangentSum
  <2>3. Stands(p, P, A[1], A[2])
    BY <1>7 DEF Represents
  <2> DEFINE x == A[1]
             y == A[2]
             a == D[1]
             b == D[2]
  <2>4. PICK l \in Int : /\ Like(l * (2 * y), 3 * x * x + E.a, p)
                         /\ Like(a, l * l - x - x, p)
                         /\ Like(b, l * (x - a) - y, p)
    BY <2>2
  <2>5. a \in 0..(p - 1) /\ b \in 0..(p - 1) /\ y # 0 /\ Stands(p, P, x, y)
    BY <1>7, <2>2, <2>3
  <2> HIDE DEF x, y, a, b
  <2>6. Stands(p, R, a, b)
    BY <1>1, <2>4, <2>5, DoubleStands
  <2> HIDE DEF R, D
  <2> QED BY <1>4, <2>1, <2>6, Zenon DEF Represents, R, D, p, a, b
<1> QED BY <1>5, <1>6, <1>7

\* A chord's coordinates are field elements, Z is zero where H is.
LEMMA ChordCoordinates ==
  ASSUME NEW E \in Curves, PrimeField(E.p), NEW d, NEW z \in Int,
         d.u1 \in Int, d.s1 \in Int, d.h \in Int, d.r \in Int
  PROVE  /\ Coordinates(E.p, Chord(E, d, z))
         /\ d.h = 0 => Chord(E, d, z)[3] = 0
<1> DEFINE p   == E.p
           hh  == (d.h * d.h) % p
           hhh == (d.h * hh) % p
           uhh == (d.u1 * hh) % p
           xn  == (d.r * d.r - hhh - 2 * uhh) % p
           yn  == (((uhh - xn) % p) * d.r - d.s1 * hhh) % p
           zn  == (z * d.h) % p
<1>1. Chord(E, d, z) = <<xn, yn, zn>>
  BY DEF Chord
<1>2. p \in Nat \ {0}
  BY DEF PrimeField
<1>3. 0 % p = 0
  BY <1>2
<1> HIDE DEF p
<1>4. hh \in Int
  BY <1>2, RestIn, Zenon
<1> HIDE DEF hh
<1>5. hhh \in Int /\ uhh \in Int
  BY <1>2, <1>4, RestIn, Zenon
<1> HIDE DEF hhh, uhh
<1>6. xn \in 0..(p - 1) /\ xn \in Int
  BY <1>2, <1>5, RestIn, Zenon
<1> HIDE DEF xn
<1>7. yn \in 0..(p - 1)
  BY <1>2, <1>5, <1>6, RestIn, Zenon
<1>8. zn \in 0..(p - 1)
  BY <1>2, RestIn, Zenon
<1>9. d.h = 0 => zn = 0
  <2> SUFFICES ASSUME d.h = 0 PROVE zn = 0
    OBVIOUS
  <2>1. z * d.h = 0
    OBVIOUS
  <2> QED BY <1>3, <2>1, Zenon
<1> HIDE DEF yn, zn
<1> QED BY <1>1, <1>6, <1>7, <1>8, <1>9 DEF Coordinates, p

\* The coordinates of a finite point are not both zero: zeros stand for infinity.
LEMMA FiniteTold ==
  ASSUME NEW p, PrimeField(p), NEW P, NEW x, NEW y, Stands(p, P, x, y), P[1] = 0, P[2] = 0
  PROVE  x = 0 /\ y = 0
<1> DEFINE z == P[3]
<1>1. /\ p \in Nat \ {0} /\ z \in 0..(p - 1) /\ z \in Int /\ z # 0 /\ x \in 0..(p - 1) /\ y \in 0..(p - 1)
      /\ x \in Int /\ y \in Int /\ 0 \in Int
      /\ Alike(0, x * z * z, p) /\ Alike(0, y * z * z * z, p)
  BY DEF Stands, Coordinates, PrimeField
<1> HIDE DEF z
<1>2. /\ x * z \in Int /\ x * z * z \in Int /\ y * z \in Int /\ y * z * z \in Int /\ y * z * z * z \in Int
  BY <1>1, SMT
<1>3. Alike(x * z * z, 0, p) /\ Alike(y * z * z * z, 0, p) /\ ~Alike(z, 0, p)
  BY <1>1, <1>2, AlikeBack, SmallNotZero
<1>4. Alike(x * z, 0, p) /\ Alike(y * z * z, 0, p)
  BY <1>1, <1>2, <1>3, NoZeroProduct
<1>5. Alike(x, 0, p) /\ Alike(y * z, 0, p)
  BY <1>1, <1>2, <1>3, <1>4, NoZeroProduct
<1>6. Alike(y, 0, p)
  BY <1>1, <1>3, <1>5, NoZeroProduct
<1> QED BY <1>1, <1>5, <1>6, SmallNotZero

\* What two finite points' differences tell, and the chord where the abscissas differ.
LEMMA TwoPoints ==
  ASSUME NEW E, Cyclic(E), PrimeField(E.p), NEW P, NEW Q, NEW i \in Int, NEW j \in Int,
         Represents(E, P, i), Represents(E, Q, j),
         TimesBase(E, i) # AtInfinity, TimesBase(E, j) # AtInfinity
  PROVE  LET A == TimesBase(E, i)
             B == TimesBase(E, j)
             d == Differences(E, P, Q)
             z == P[3] * Q[3]
         IN  /\ P[3] # 0 /\ Q[3] # 0
             /\ d.u1 \in Int /\ d.s1 \in Int /\ d.h \in Int /\ d.r \in Int
             /\ d.h = 0 <=> A[1] = B[1]
             /\ d.r = 0 <=> A[2] = B[2]
             /\ \A w : A[1] # B[1] /\ Like(w, z, E.p) => Represents(E, Chord(E, d, w), i + j)
<1> DEFINE p == E.p
           A == TimesBase(E, i)
           B == TimesBase(E, j)
           C == TimesBase(E, i + j)
           d == Differences(E, P, Q)
           D == P[3] * Q[3]
           x == A[1]
           y == A[2]
           a == B[1]
           b == B[2]
<1>1. E \in Curves /\ i + j \in Int /\ p \in Nat \ {0} /\ PrimeField(p)
  BY DEF Cyclic, PrimeField
<1>2. /\ A \in (0..(p - 1)) \X (0..(p - 1)) /\ B \in (0..(p - 1)) \X (0..(p - 1))
      /\ C \in (0..(p - 1)) \X (0..(p - 1)) /\ C = Plus(E, A, B)
  BY <1>1, BaseFinite, BasePlus
<1>3. Stands(p, P, x, y) /\ Stands(p, Q, a, b)
  BY DEF Represents
<1>4. Apart(p, d, D, x, y, a, b)
  BY <1>1, <1>3, DifferencesAre
<1>5. /\ P[3] # 0 /\ Q[3] # 0 /\ P[3] \in 0..(p - 1) /\ Q[3] \in 0..(p - 1) /\ P[3] \in Int /\ Q[3] \in Int
      /\ x \in 0..(p - 1) /\ y \in 0..(p - 1) /\ a \in 0..(p - 1) /\ b \in 0..(p - 1)
      /\ x \in Int /\ y \in Int /\ a \in Int /\ b \in Int /\ a - x \in Int /\ b - y \in Int
  BY <1>1, <1>3 DEF Stands, Coordinates
<1>6. ~Alike(D, 0, p) /\ D \in Int
  <2> DEFINE e == P[3]
             f == Q[3]
  <2>1. /\ e \in 0..(p - 1) /\ f \in 0..(p - 1) /\ e \in Int /\ f \in Int /\ e # 0 /\ f # 0
        /\ PrimeField(p)
    BY <1>1, <1>5
  <2> HIDE DEF e, f, p
  <2>2. ~Alike(e, 0, p) /\ ~Alike(f, 0, p)
    BY <2>1, SmallNotZero
  <2>3. ~Alike(e * f, 0, p) /\ e * f \in Int
    BY <2>1, <2>2, NoZeroProduct
  <2> QED BY <2>3 DEF e, f
<1>7. A = <<x, y>> /\ B = <<a, b>> /\ A # AtInfinity /\ B # AtInfinity
  BY <1>2
<1> HIDE DEF D, d, x, y, a, b, p
<1>8. /\ d.u1 \in Int /\ d.s1 \in Int /\ d.h \in Int /\ d.r \in Int
      /\ d.h \in 0..(p - 1) /\ d.r \in 0..(p - 1)
      /\ Like(d.h, (a - x) * D * D, p) /\ Like(d.r, (b - y) * D * D * D, p)
  BY <1>4, Zenon DEF Apart, Like
<1>9. d.h = 0 <=> x = a
  <2>1. d.h = 0 <=> Alike(a - x, 0, p)
    BY <1>1, <1>5, <1>6, <1>8, ZeroTold, Zenon
  <2> QED BY <1>1, <1>5, <2>1, SameAbscissa, Zenon
<1>10. d.r = 0 <=> y = b
  <2>1. d.r = 0 <=> Alike(b - y, 0, p)
    BY <1>1, <1>5, <1>6, <1>8, ZeroTold, Zenon
  <2> QED BY <1>1, <1>5, <2>1, SameAbscissa, Zenon
<1>11. ASSUME NEW w, x # a, Like(w, D, p) PROVE Represents(E, Chord(E, d, w), i + j)
  <2>1. /\ C[1] \in 0..(p - 1) /\ C[2] \in 0..(p - 1) /\ ~Alike(a - x, 0, p)
        /\ \E l \in Int : /\ Like(l * (a - x), b - y, p)
                          /\ Like(C[1], l * l - x - a, p)
                          /\ Like(C[2], l * (x - C[1]) - y, p)
    BY <1>1, <1>2, <1>7, <1>11, ChordSum DEF x, y, a, b, p
  <2> DEFINE e == C[1]
             f == C[2]
  <2>2. PICK l \in Int : /\ Like(l * (a - x), b - y, p)
                         /\ Like(e, l * l - x - a, p)
                         /\ Like(f, l * (x - e) - y, p)
    BY <2>1
  <2>3. e \in 0..(p - 1) /\ f \in 0..(p - 1) /\ ~Alike(a - x, 0, p)
    BY <2>1
  <2> HIDE DEF e, f
  <2>4. Stands(p, Chord(E, d, w), e, f)
    BY <1>1, <1>4, <1>5, <1>6, <1>11, <2>2, <2>3, ChordStands DEF p
  <2>5. C # AtInfinity
    <3> SUFFICES ASSUME C = AtInfinity PROVE FALSE
      OBVIOUS
    <3>1. B = Negative(E, A)
      BY OppositeTold
    <3> QED BY <1>11, <3>1 DEF Negative, x, a
  <2>6. Coordinates(p, Chord(E, d, w))
    BY <2>4 DEF Stands
  <2> QED BY <2>4, <2>5, <2>6 DEF Represents, p, e, f
<1> QED BY <1>5, <1>8, <1>9, <1>10, <1>11 DEF D, d, x, y, a, b, p

\* gfec_point_add adds the numbers, whatever the points: infinity, equal and opposite.
LEMMA AddMultiples ==
  ASSUME NEW E, Cyclic(E), PrimeField(E.p), NEW P, NEW Q, NEW i \in Int, NEW j \in Int,
         Represents(E, P, i), Represents(E, Q, j)
  PROVE  Represents(E, gfec_point_add(E, P, Q), i + j)
<1> DEFINE A == TimesBase(E, i)
           B == TimesBase(E, j)
           C == TimesBase(E, i + j)
           d == Differences(E, P, Q)
           R == gfec_point_add(E, P, Q)
<1>1. C = Plus(E, A, B) /\ i + j \in Int /\ 2 * i \in Int /\ i + i = 2 * i
  BY BasePlus
<1>2. (P[3] = 0 <=> A = AtInfinity) /\ (Q[3] = 0 <=> B = AtInfinity)
  BY DEF Represents, Stands
<1>3. CASE B = AtInfinity
  <2>1. R = P
    BY <1>2, <1>3, Zenon DEF gfec_point_add
  <2>2. C = A
    BY <1>1, <1>3 DEF Plus
  <2> HIDE DEF R, C, A
  <2>3. Represents(E, R, i)
    BY <2>1
  <2> QED BY <2>2, <2>3, RepresentsToo, Zenon DEF R, C, A
<1>4. CASE B # AtInfinity /\ A = AtInfinity
  <2>1. R = Q
    BY <1>2, <1>4 DEF gfec_point_add
  <2>2. C = B
    BY <1>1, <1>4 DEF Plus
  <2> HIDE DEF R, C, B
  <2>3. Represents(E, R, j)
    BY <2>1
  <2> QED BY <2>2, <2>3, RepresentsToo, Zenon DEF R, C, B
<1>5. CASE A # AtInfinity /\ B # AtInfinity
  <2>1. /\ P[3] # 0 /\ Q[3] # 0
        /\ d.h = 0 <=> A[1] = B[1]
        /\ d.r = 0 <=> A[2] = B[2]
        /\ \A w : A[1] # B[1] /\ Like(w, P[3] * Q[3], E.p) => Represents(E, Chord(E, d, w), i + j)
    BY <1>5, TwoPoints
  <2>2. /\ A \in (0..(E.p - 1)) \X (0..(E.p - 1)) /\ B \in (0..(E.p - 1)) \X (0..(E.p - 1))
        /\ OnCurve(E, A) /\ OnCurve(E, B) /\ E \in Curves
    BY <1>5, BaseFinite DEF Cyclic
  <2>3. CASE A[1] = B[1] /\ A[2] = B[2]
    <3>1. R = gfec_point_double(E, P)
      BY <2>1, <2>3 DEF gfec_point_add
    <3>2. A = B
      BY <2>2, <2>3
    <3>3. C = TimesBase(E, 2 * i)
      BY <1>1, <3>2, BasePlus
    <3>4. Represents(E, R, 2 * i)
      BY <3>1, DoubleMultiple
    <3> HIDE DEF R, C
    <3> QED BY <3>3, <3>4, RepresentsToo, Zenon DEF R, C
  <2>4. CASE A[1] = B[1] /\ A[2] # B[2]
    <3>1. R = Zero
      BY <2>1, <2>4 DEF gfec_point_add
    <3>2. (A[2] + B[2]) % E.p = 0
      BY <2>2, <2>4, EqualOrOpposite
    <3>3. C = AtInfinity
      BY <1>1, <1>5, <2>4, <3>2, Zenon DEF Plus
    <3>4. Coordinates(E.p, Zero) /\ Zero[3] = 0
      BY DEF Zero, Coordinates, PrimeField
    <3> HIDE DEF R, C
    <3> QED BY <3>1, <3>3, <3>4, Zenon DEF Represents, R, C
  <2>5. CASE A[1] # B[1]
    <3>1. R = Chord(E, d, P[3] * Q[3])
      BY <2>1, <2>5, Zenon DEF gfec_point_add
    <3>2. Like(P[3] * Q[3], P[3] * Q[3], E.p)
      <4>1. P[3] \in Int /\ Q[3] \in Int /\ E.p \in Nat \ {0}
        BY DEF Represents, Coordinates, PrimeField
      <4>2. P[3] * Q[3] \in Int
        BY <4>1, SMT
      <4> QED BY <4>1, <4>2, LikeRules
    <3> HIDE DEF R, d
    <3> QED BY <2>1, <2>5, <3>1, <3>2, Zenon DEF R
  <2> QED BY <2>3, <2>4, <2>5
<1> QED BY <1>3, <1>4, <1>5

-----------------------------------------------------------------------------
(* Windows of a scalar.                                                    *)

\* Two divisions are one by the product.
LEMMA QuotientTwice ==
  ASSUME NEW kx \in Nat, NEW a \in Nat \ {0}, NEW b \in Nat \ {0}
  PROVE  (kx \div a) \div b = kx \div (a * b) /\ a * b \in Nat \ {0}
<1> DEFINE g == kx \div a
           o == kx % a
           h == g \div b
           f == g % b
<1>1. g \in Nat /\ o \in 0..(a - 1) /\ kx = a * g + o
  BY DivMod
<1> HIDE DEF g, o
<1>2. h \in Nat /\ f \in 0..(b - 1) /\ g = b * h + f
  BY <1>1, DivMod
<1> HIDE DEF h, f
<1>3. kx = (a * b) * h + (a * f + o)
  <2>1. kx = a * (b * h + f) + o
    BY <1>1, <1>2
  <2> QED BY <1>1, <1>2, <2>1, SMT
<1>4. a * b \in Nat \ {0}
  BY SMT
<1>5. a * f + o \in 0..(a * b - 1)
  <2>1. a * f \in Nat /\ a * f + a <= a * b
    <3>1. f + 1 <= b /\ a * (f + 1) = a * f + a
      BY <1>2, SMT
    <3>2. a * (f + 1) <= a * b
      BY <1>2, <3>1, SMT
    <3>3. a * f \in Nat
      BY <1>2, SMT
    <3> QED BY <3>1, <3>2, <3>3
  <2> QED BY <1>1, <1>4, <2>1
<1> DEFINE m == a * b
           c == a * f + o
<1> HIDE DEF m, c
<1>6. m \in Nat \ {0} /\ c \in 0..(m - 1) /\ kx = m * h + c
  BY <1>3, <1>4, <1>5 DEF m, c
<1>7. kx \div m = h
  BY <1>2, <1>6, DivModOfSplit
<1> QED BY <1>6, <1>7 DEF h, g, m

\* What is above a window does not show in it.
LEMMA WindowInside ==
  ASSUME NEW ux \in Nat, NEW a \in Nat \ {0}, NEW b \in Nat \ {0}, NEW c \in Nat \ {0}
  PROVE  ((ux % (a * (b * c))) \div a) % b = (ux \div a) % b
<1> DEFINE m == b * c
           M == a * m
           h == ux \div M
           o == ux % M
           e == o \div a
           f == o % a
<1>1. m \in Nat \ {0}
  BY SMT
<1> HIDE DEF m
<1>2. M \in Nat \ {0}
  BY <1>1, SMT
<1> HIDE DEF M
<1>3. h \in Nat /\ o \in 0..(M - 1) /\ o \in Nat /\ ux = M * h + o
  <2>1. h \in Nat /\ o \in 0..(M - 1) /\ ux = M * h + o
    BY <1>2, DivMod
  <2> HIDE DEF h, o
  <2> QED BY <1>2, <2>1
<1> HIDE DEF h, o
<1>4. e \in Nat /\ f \in 0..(a - 1) /\ o = a * e + f
  BY <1>3, DivMod
<1> HIDE DEF e, f
<1>5. ux = a * (m * h + e) + f /\ m * h + e \in Nat
  <2>1. ux = (a * m) * h + (a * e + f)
    BY <1>3, <1>4 DEF M
  <2> QED BY <1>1, <1>3, <1>4, <2>1, SMT
<1>6. ux \div a = m * h + e
  <2> DEFINE g == m * h + e
  <2> HIDE DEF g
  <2>1. g \in Nat /\ ux = a * g + f
    BY <1>5 DEF g
  <2>2. ux \div a = g
    BY <1>4, <2>1, DivModOfSplit
  <2> QED BY <2>2 DEF g
<1>7. Alike(m * h + e, e, b)
  <2>1. (b * c) * h = (c * h) * b /\ c * h \in Int /\ (c * h) * b \in Int
    BY <1>3, SMT
  <2> DEFINE f1 == (c * h) * b
  <2>2. m * h = f1 /\ f1 \in Int
    BY <2>1 DEF m
  <2> HIDE DEF f1
  <2>3. m * h + e = e + f1
    BY <1>4, <2>2
  <2> QED BY <2>1, <2>3 DEF Alike, f1
<1>8. (m * h + e) % b = e % b
  <2>1. m * h + e \in Int /\ e \in Int
    BY <1>4, <1>5
  <2> QED BY <1>7, <2>1, AlikeRests, Zenon
<1> QED BY <1>6, <1>8 DEF e, o, M, m

\* The bit below the b-th, and the scalar's rounded quotient by 2^b.
BitBelow(kx, b) == IF b = 0 THEN 0 ELSE (kx \div Power2[b - 1]) % 2
High(kx, b) == (kx \div Power2[b]) + BitBelow(kx, b)
Low(kx, b)  == kx - Power2[b] * High(kx, b)

\* The number a window stands for.
Recoded(code) == IF code.sign = 1 THEN -code.digit ELSE code.digit

\* A power of two from the one before.
LEMMA PowerNext ==
  ASSUME NEW i \in Nat
  PROVE  Power2[i + 1] = 2 * Power2[i] /\ Power2[i] \in Nat \ {0} /\ Power2[i + 1] \in Nat \ {0}
BY PowerSteps, PowerTyped

\* The powers a window is about.
LEMMA SmallPowers ==
  Power2[1] = 2 /\ Power2[2] = 4 /\ Power2[3] = 8 /\ Power2[4] = 16 /\ Power2[5] = 32
<1>1. \A n \in Nat : Power2[n + 1] = 2 * Power2[n]
  BY PowerSteps
<1>2. Power2[0] = 1
  BY PowerSteps
<1>3. Power2[1] = 2
  BY <1>1, <1>2, 0 \in Nat, 0 + 1 = 1
<1>4. Power2[2] = 4
  BY <1>1, <1>3, 1 \in Nat, 1 + 1 = 2
<1>5. Power2[3] = 8
  BY <1>1, <1>4, 2 \in Nat, 2 + 1 = 3
<1>6. Power2[4] = 16
  BY <1>1, <1>5, 3 \in Nat, 3 + 1 = 4
<1>7. Power2[5] = 32
  BY <1>1, <1>6, 4 \in Nat, 4 + 1 = 5
<1> QED BY <1>3, <1>4, <1>5, <1>6, <1>7

\* The window is the bit below and w bits.
LEMMA WindowBits ==
  ASSUME NEW kx \in Nat, NEW b \in Nat, NEW w \in 2..7
  PROVE  WindowAt(kx, b, w) = BitBelow(kx, b) + 2 * ((kx \div Power2[b]) % Power2[w])
<1> DEFINE W == Power2[w]
<1>1. W \in Nat \ {0} /\ Power2[w + 1] = 2 * W /\ Power2[w + 1] \in Nat \ {0}
  <2>1. w \in Nat
    OBVIOUS
  <2> QED BY <2>1, PowerNext
<1>2. CASE b = 0
  <2>1. /\ Power2[0] = 1 /\ Power2[16] \in Nat \ {0} /\ Power2[16 - w] \in Nat \ {0}
        /\ Power2[16] = Power2[w] * Power2[16 - w]
    <3>1. w \in Nat /\ 16 - w \in Nat /\ 16 \in Nat /\ w + (16 - w) = 16
      OBVIOUS
    <3>2. Power2[0] = 1 /\ Power2[16] \in Nat \ {0} /\ Power2[16 - w] \in Nat \ {0}
      BY <3>1, PowerSteps, PowerTyped
    <3>3. Power2[w + (16 - w)] = Power2[w] * Power2[16 - w]
      BY <3>1, PowerSum
    <3> QED BY <3>1, <3>2, <3>3
  <2>2. WindowAt(kx, 0, w) = (2 * (kx % Power2[16])) % (2 * W)
    BY <1>1 DEF WindowAt
  <2> DEFINE C == Power2[16 - w]
             o == kx % Power2[16]
  <2>3. o \in Nat
    <3>1. o \in 0..(Power2[16] - 1) /\ Power2[16] \in Nat \ {0}
      BY <2>1, DivMod
    <3> QED BY <3>1
  <2>4. o % W = kx % W
    <3>1. kx \div 1 = kx
      OBVIOUS
    <3>2. ((kx % (1 * (W * C))) \div 1) % W = (kx \div 1) % W
      <4>1. W \in Nat \ {0} /\ C \in Nat \ {0} /\ 1 \in Nat \ {0}
        BY <1>1, <2>1
      <4>2. \A d, e, c \in Nat \ {0} : ((kx % (d * (e * c))) \div d) % e = (kx \div d) % e
        BY WindowInside, kx \in Nat
      <4> HIDE DEF W, C
      <4>3. \A e, c \in Nat \ {0} : ((kx % (1 * (e * c))) \div 1) % e = (kx \div 1) % e
        BY <4>1, <4>2, Zenon
      <4>4. \A c \in Nat \ {0} : ((kx % (1 * (W * c))) \div 1) % W = (kx \div 1) % W
        BY <4>1, <4>3, Zenon
      <4> QED BY <4>1, <4>4, Zenon
    <3>3. 1 * (W * C) = Power2[16]
      <4> HIDE DEF W, C
      <4>1. 1 * (W * C) = W * C
        BY <1>1, <2>1, SMT DEF C
      <4> QED BY <2>1, <4>1 DEF W, C
    <3>4. o \div 1 = o
      BY <2>3, SMT
    <3> QED BY <3>1, <3>2, <3>3, <3>4, Zenon
  <2> HIDE DEF o, W
  <2>5. (2 * o) % (2 * W) = 2 * (o % W)
    <3> DEFINE g == o \div W
               e == o % W
    <3>1. g \in Nat /\ e \in 0..(W - 1) /\ o = W * g + e
      BY <1>1, <2>3, DivMod
    <3> HIDE DEF g, e
    <3> DEFINE V == 2 * W
               f == 2 * e
    <3>2. 2 * o = (2 * W) * g + 2 * e
      BY <1>1, <3>1, SMT
    <3>3. V \in Nat \ {0} /\ f \in 0..(V - 1)
      BY <1>1, <3>1
    <3>4. 2 * o = V * g + f
      BY <3>2
    <3> HIDE DEF V, f
    <3>5. (2 * o) % V = f
      BY <3>1, <3>3, <3>4, DivModOfSplit
    <3> QED BY <3>5 DEF V, f, e
  <2>6. kx \div Power2[0] = kx
    BY <2>1
  <2>7. BitBelow(kx, 0) = 0
    BY DEF BitBelow
  <2>8. WindowAt(kx, 0, w) = 2 * (kx % W)
    BY <2>2, <2>4, <2>5 DEF o, W
  <2>9. kx % W \in Nat
    BY <1>1
  <2> QED BY <1>2, <2>6, <2>7, <2>8, <2>9 DEF W
<1>3. CASE b > 0
  <2> DEFINE c == (b - 1) \div 8
             s8 == (b - 1) % 8
             A == Power2[s8]
             B == Power2[w + 1]
             C == Power2[15 - w - s8]
             ux == kx \div Power2[8 * c]
             f == kx \div Power2[b - 1]
             g == kx \div Power2[b]
  <2>1. c \in Nat /\ s8 \in 0..7 /\ b - 1 = 8 * c + s8 /\ b - 1 \in Nat
    BY <1>3
  <2>2. 8 * c \in Nat /\ s8 \in Nat /\ w + 1 \in Nat /\ 15 - w - s8 \in Nat
        /\ (w + 1) + (15 - w - s8) = 16 - s8 /\ 16 - s8 \in Nat /\ s8 + (16 - s8) = 16 /\ (b - 1) + 1 = b
    BY <2>1
  <2>3. A \in Nat \ {0} /\ B \in Nat \ {0} /\ C \in Nat \ {0} /\ Power2[8 * c] \in Nat \ {0} /\ Power2[b - 1] \in Nat \ {0}
    BY <2>1, <2>2, PowerTyped
  <2>4. Power2[16] = A * (B * C) /\ Power2[b - 1] = Power2[8 * c] * A /\ Power2[b] = Power2[b - 1] * 2
    <3>1. Power2[16 - s8] = B * C
      BY <2>2, PowerSum
    <3>2. Power2[16] = A * Power2[16 - s8]
      BY <2>2, PowerSum
    <3>3. Power2[b - 1] = Power2[8 * c] * A
      <4>1. Power2[8 * c + s8] = Power2[8 * c] * Power2[s8]
        BY <2>2, PowerSum, Zenon
      <4> QED BY <2>1, <4>1
    <3>4. Power2[(b - 1) + 1] = 2 * Power2[b - 1]
      BY <2>1, PowerNext
    <3> QED BY <2>2, <2>3, <3>1, <3>2, <3>3, <3>4
  <2>5. ux \in Nat /\ f \in Nat /\ g \in Nat
    <3>1. Power2[b] \in Nat \ {0}
      BY PowerTyped
    <3> QED BY <2>3, <3>1, DivMod, Zenon
  <2>6. ux \div A = f /\ f \div 2 = g
    BY <2>3, <2>4, QuotientTwice, 2 \in Nat \ {0}
  <2>7. WindowAt(kx, b, w) = ((ux % Power2[16]) \div A) % B
    BY <1>3 DEF WindowAt
  <2> HIDE DEF A, B, C, ux, f, g, c, s8
  <2>8. WindowAt(kx, b, w) = f % B
    <3>1. ((ux % (A * (B * C))) \div A) % B = (ux \div A) % B
      <4>1. ux \in Nat /\ A \in Nat \ {0} /\ B \in Nat \ {0} /\ C \in Nat \ {0}
        BY <2>3, <2>5
      <4>2. \A x \in Nat : \A d \in Nat \ {0} : \A e \in Nat \ {0} : \A o \in Nat \ {0} :
              ((x % (d * (e * o))) \div d) % e = (x \div d) % e
        BY WindowInside
      <4>3. \A d \in Nat \ {0} : \A e \in Nat \ {0} : \A o \in Nat \ {0} :
              ((ux % (d * (e * o))) \div d) % e = (ux \div d) % e
        BY <4>1, <4>2, Zenon
      <4>4. \A e \in Nat \ {0} : \A o \in Nat \ {0} :
              ((ux % (A * (e * o))) \div A) % e = (ux \div A) % e
        BY <4>1, <4>3, Zenon
      <4>5. \A o \in Nat \ {0} : ((ux % (A * (B * o))) \div A) % B = (ux \div A) % B
        BY <4>1, <4>4, Zenon
      <4> QED BY <4>1, <4>5, Zenon
    <3> QED BY <2>4, <2>6, <2>7, <3>1, Zenon
  <2>9. f % B = (f % 2) + 2 * (g % W)
    <3> DEFINE h == g \div W
               e == g % W
               o == f % 2
               V == 2 * W
               z == 2 * e + o
    <3>1. f = 2 * g + o /\ o \in 0..1
      BY <2>5, <2>6
    <3>2. g = W * h + e /\ h \in Nat /\ e \in 0..(W - 1)
      BY <1>1, <2>5, DivMod
    <3> HIDE DEF o, e, h, W
    <3>3. V \in Nat \ {0} /\ z \in 0..(V - 1)
      BY <1>1, <3>1, <3>2
    <3>4. f = (2 * W) * h + (2 * e + o)
      BY <1>1, <3>1, <3>2, SMT
    <3>5. f = V * h + z
      BY <3>4
    <3>6. B = V
      BY <1>1 DEF B, W
    <3> HIDE DEF V, z
    <3>7. f % V = z
      BY <3>2, <3>3, <3>5, DivModOfSplit
    <3>8. o \in Nat /\ e \in Nat
      BY <1>1, <3>1, <3>2 DEF W
    <3>9. f % B = o + 2 * e
      BY <3>6, <3>7, <3>8 DEF z
    <3> QED BY <3>9, Zenon DEF o, e, W
  <2>10. BitBelow(kx, b) = f % 2
    BY <1>3 DEF BitBelow, f
  <2> QED BY <2>8, <2>9, <2>10 DEF g
<1> QED BY <1>2, <1>3

\* A quotient by hand.
LEMMA BitOf ==
  ASSUME NEW g \in Nat, NEW h \in Nat, NEW H \in Nat \ {0}, NEW m \in 0..(2 * H - 1), g = (2 * H) * h + m
  PROVE  (g \div H) % 2 = (IF m >= H THEN 1 ELSE 0)
<1>1. CASE m >= H
  <2> DEFINE q == 2 * h + 1
             rx == m - H
  <2>1. g = H * (2 * h + 1) + (m - H)
    BY SMT
  <2>2. q \in Nat /\ rx \in 0..(H - 1) /\ q % 2 = 1
    BY <1>1, SMT
  <2> HIDE DEF q, rx
  <2>3. g = H * q + rx
    BY <2>1 DEF q, rx
  <2>4. g \div H = q
    BY <2>2, <2>3, DivModOfSplit
  <2> QED BY <1>1, <2>2, <2>4
<1>2. CASE m < H
  <2> DEFINE q == 2 * h
  <2>1. g = H * (2 * h) + m
    BY SMT
  <2>2. q \in Nat /\ m \in 0..(H - 1) /\ q % 2 = 0
    BY <1>2, SMT
  <2> HIDE DEF q
  <2>3. g = H * q + m
    BY <2>1 DEF q
  <2>4. g \div H = q
    BY <2>2, <2>3, DivModOfSplit
  <2> QED BY <1>2, <2>2, <2>4
<1> QED BY <1>1, <1>2, SMT

\* booth_recode: a window's number is its bits and the bit below, less 2^w if its top bit is set.
LEMMA RecodedWindow ==
  ASSUME NEW m \in Nat, NEW c \in 0..1, NEW w \in 2..7, m < Power2[w]
  PROVE  LET code == booth_recode(c + 2 * m, w)
         IN  /\ code.sign = (IF m >= Power2[w - 1] THEN 1 ELSE 0)
             /\ code.digit \in 0..Power2[w - 1]
             /\ Recoded(code) = m + c - (IF m >= Power2[w - 1] THEN Power2[w] ELSE 0)
<1> DEFINE in == c + 2 * m
           W == Power2[w]
           H == Power2[w - 1]
           sx == in \div W
           d == IF sx = 1 THEN 2 * W - in - 1 ELSE in
           e == (d \div 2) + (d % 2)
<1>1. W = 2 * H /\ H \in Nat \ {0} /\ W \in Nat \ {0} /\ Power2[w + 1] = 2 * W
  <2>1. w - 1 \in Nat /\ w \in Nat /\ (w - 1) + 1 = w
    OBVIOUS
  <2>2. Power2[(w - 1) + 1] = 2 * Power2[w - 1] /\ Power2[w - 1] \in Nat \ {0}
    BY <2>1, PowerNext
  <2>3. Power2[w + 1] = 2 * Power2[w] /\ Power2[w] \in Nat \ {0}
    BY <2>1, PowerNext
  <2> QED BY <2>1, <2>2, <2>3
<1>2. booth_recode(c + 2 * m, w) = [sign |-> sx, digit |-> e]
  BY <1>1 DEF booth_recode
<1>3. CASE m >= H
  <2>1. in = W * 1 + (in - W) /\ in - W \in 0..(W - 1)
    BY <1>1, <1>3
  <2>2. sx = 1
    <3> DEFINE f == in - W
    <3>1. f \in 0..(W - 1) /\ in = W * 1 + f
      BY <2>1
    <3> HIDE DEF f, in, W
    <3> QED BY <1>1, <3>1, DivModOfSplit
  <2>3. d = 2 * (W - m - 1) + (1 - c)
    BY <1>1, <2>2
  <2>4. d \div 2 = W - m - 1 /\ d % 2 = 1 - c
    <3> HIDE DEF d, W
    <3>1. W - m - 1 \in Nat /\ 1 - c \in 0..1
      BY <1>1 DEF W
    <3> QED BY <2>3, <3>1
  <2>5. e = W - m - c
    <3> HIDE DEF d, W
    <3> QED BY <1>1, <2>4
  <2>6. e \in 0..H /\ -e = m + c - W
    <3> HIDE DEF e
    <3> QED BY <1>1, <1>3, <2>5
  <2> HIDE DEF e, sx
  <2> QED BY <1>2, <1>3, <2>2, <2>6 DEF Recoded
<1>4. CASE m < H
  <2>1. in \in 0..(W - 1) /\ in = W * 0 + in
    BY <1>1, <1>4
  <2>2. sx = 0
    <3> HIDE DEF in, W
    <3> QED BY <1>1, <2>1, DivModOfSplit
  <2>3. d = 2 * m + c
    BY <1>1, <2>2
  <2>4. d \div 2 = m /\ d % 2 = c
    <3> HIDE DEF d
    <3> QED BY <2>3
  <2>5. e = m + c
    <3> HIDE DEF d, W
    <3> QED BY <1>1, <2>4
  <2>6. e \in 0..H /\ e = m + c - 0
    <3> HIDE DEF e
    <3> QED BY <1>1, <1>4, <2>5
  <2> HIDE DEF e, sx
  <2>7. ~(m >= Power2[w - 1])
    BY <1>1, <1>4
  <2> QED BY <1>2, <2>2, <2>6, <2>7 DEF Recoded
<1> QED BY <1>1, <1>3, <1>4

\* A window's number takes the scalar's quotient above it to the one below.
LEMMA WindowStep ==
  ASSUME NEW kx \in Nat, NEW b \in Nat, NEW w \in 2..7
  PROVE  LET code == booth_recode(WindowAt(kx, b, w), w)
         IN  /\ code.sign \in {0, 1} /\ code.sign = BitBelow(kx, b + w)
             /\ code.digit \in 0..Power2[w - 1] /\ Recoded(code) \in Int
             /\ High(kx, b) = Power2[w] * High(kx, b + w) + Recoded(code)
             /\ High(kx, b) \in Nat /\ High(kx, b + w) \in Nat
<1> DEFINE W == Power2[w]
           H == Power2[w - 1]
           g == kx \div Power2[b]
           h == g \div W
           m == g % W
           c == BitBelow(kx, b)
           sx == IF m >= H THEN 1 ELSE 0
           code == booth_recode(WindowAt(kx, b, w), w)
<1>1. W = 2 * H /\ H \in Nat \ {0} /\ W \in Nat \ {0} /\ Power2[b] \in Nat \ {0} /\ Power2[b + w] = Power2[b] * W
      /\ Power2[b + (w - 1)] = Power2[b] * H /\ Power2[b + w] \in Nat \ {0}
  <2>1. w - 1 \in Nat /\ w \in Nat /\ (w - 1) + 1 = w /\ b + w \in Nat
    OBVIOUS
  <2>2. Power2[(w - 1) + 1] = 2 * Power2[w - 1] /\ Power2[w - 1] \in Nat \ {0}
    BY <2>1, PowerNext
  <2> QED BY <2>1, <2>2, PowerSum, PowerTyped
<1>2. g \in Nat
  BY <1>1, DivMod
<1>3. h \in Nat /\ m \in 0..(W - 1) /\ g = W * h + m
  BY <1>1, <1>2, DivMod
<1>4. c \in 0..1
  <2>1. CASE b = 0
    BY <2>1 DEF BitBelow
  <2>2. CASE b > 0
    <3>1. b - 1 \in Nat
      BY <2>2
    <3>2. kx \div Power2[b - 1] \in Nat
      BY <3>1, PowerTyped, DivMod
    <3> QED BY <2>2, <3>2 DEF BitBelow
  <2> QED BY <2>1, <2>2
<1>5. WindowAt(kx, b, w) = c + 2 * m
  BY WindowBits
<1>6. kx \div Power2[b + w] = h
  BY <1>1, QuotientTwice
<1>7. BitBelow(kx, b + w) = sx
  <2>1. kx \div Power2[b + (w - 1)] = g \div H
    BY <1>1, QuotientTwice
  <2>2. (g \div H) % 2 = sx
    <3> HIDE DEF g, h, m, H, W
    <3>1. m \in 0..(2 * H - 1) /\ g = (2 * H) * h + m
      BY <1>1, <1>3
    <3> QED BY <1>1, <1>2, <1>3, <3>1, BitOf
  <2>3. b + w # 0 /\ (b + w) - 1 = b + (w - 1)
    OBVIOUS
  <2>4. BitBelow(kx, b + w) = (kx \div Power2[b + (w - 1)]) % 2
    <3> DEFINE e == b + w
               f == b + (w - 1)
    <3> HIDE DEF e, f
    <3>1. e # 0 /\ e - 1 = f
      BY <2>3 DEF e, f
    <3>2. BitBelow(kx, e) = (kx \div Power2[f]) % 2
      BY <3>1, Zenon DEF BitBelow
    <3> QED BY <3>2 DEF e, f
  <2> HIDE DEF sx, g
  <2> QED BY <2>1, <2>2, <2>4
<1> HIDE DEF m, g, h, c
<1>8. /\ code.sign = sx /\ code.digit \in 0..H
      /\ Recoded(code) = m + c - (IF m >= H THEN W ELSE 0)
  <2>1. m \in Nat /\ m < Power2[w]
    BY <1>1, <1>3
  <2> DEFINE rec == booth_recode(c + 2 * m, w)
  <2>2. rec = code
    BY <1>5, Zenon
  <2>3. /\ rec.sign = sx /\ rec.digit \in 0..H
        /\ Recoded(rec) = m + c - (IF m >= H THEN W ELSE 0)
    BY <1>4, <2>1, RecodedWindow
  <2> HIDE DEF rec, code, sx
  <2> QED BY <2>2, <2>3, Zenon
<1> HIDE DEF code
<1>9. High(kx, b) = g + c /\ High(kx, b + w) = h + sx
  BY <1>6, <1>7 DEF High, g, c
<1>10. sx \in {0, 1} /\ W * sx = (IF m >= H THEN W ELSE 0)
  BY <1>1
<1> HIDE DEF W, H, sx
<1>11. W * (h + sx) = W * h + W * sx /\ h + sx \in Nat /\ W * sx \in Int
  BY <1>1, <1>3, <1>10
<1>12. /\ High(kx, b) \in Nat /\ High(kx, b + w) \in Nat /\ Recoded(code) \in Int
       /\ High(kx, b) = W * High(kx, b + w) + Recoded(code)
  <2> DEFINE ux == W * h
             vx == W * sx
  <2> HIDE DEF ux, vx
  <2>1. Recoded(code) = m + c - vx /\ vx \in Int
    BY <1>8, <1>10, <1>11 DEF vx
  <2>2. W * High(kx, b + w) = ux + vx
    BY <1>9, <1>11 DEF ux, vx
  <2>3. ux \in Int /\ g = ux + m
    BY <1>1, <1>3 DEF ux
  <2>4. m \in Nat
    BY <1>1, <1>3
  <2>5. /\ High(kx, b) \in Nat /\ High(kx, b + w) \in Nat
    BY <1>2, <1>3, <1>4, <1>9, <1>10
  <2> QED BY <1>2, <1>4, <1>9, <2>1, <2>2, <2>3, <2>4, <2>5
<1> QED BY <1>7, <1>8, <1>10, <1>12 DEF W, H, code

\* ... and the scalar's low bits from below the window to above it.
LEMMA LowStep ==
  ASSUME NEW kx \in Nat, NEW b \in Nat, NEW w \in 2..7
  PROVE  LET sd == Recoded(booth_recode(WindowAt(kx, b, w), w))
         IN  /\ sd \in Int /\ Low(kx, b) \in Int /\ Low(kx, b + w) \in Int
             /\ sd * Power2[b] \in Int /\ Low(kx, b + w) = Low(kx, b) + sd * Power2[b]
<1> DEFINE sd == Recoded(booth_recode(WindowAt(kx, b, w), w))
           W == Power2[w]
           B == Power2[b]
           g == High(kx, b)
           h == High(kx, b + w)
<1>1. g = W * h + sd /\ g \in Nat /\ h \in Nat /\ sd \in Int
  BY WindowStep
<1>2. W \in Nat \ {0} /\ B \in Nat \ {0} /\ Power2[b + w] = B * W
  <2>1. w \in Nat
    OBVIOUS
  <2> QED BY <2>1, PowerTyped, PowerSum
<1>3. Low(kx, b) = kx - B * g /\ Low(kx, b + w) = kx - (B * W) * h
  <2>1. Low(kx, b) = kx - Power2[b] * High(kx, b) /\ Low(kx, b + w) = kx - Power2[b + w] * High(kx, b + w)
    BY Zenon DEF Low
  <2> QED BY <1>2, <2>1, Zenon
<1> HIDE DEF sd, W, B, g, h
<1>4. B * g = (B * W) * h + sd * B
  BY <1>1, <1>2, SMT
<1>5. B * g \in Int /\ (B * W) * h \in Int /\ sd * B \in Int
  BY <1>1, <1>2, SMT
<1> DEFINE ux == B * g
           vx == (B * W) * h
           d == sd * B
<1> HIDE DEF ux, vx, d
<1>6. Low(kx, b) = kx - ux /\ Low(kx, b + w) = kx - vx /\ ux = vx + d /\ ux \in Int /\ vx \in Int /\ d \in Int
  BY <1>3, <1>4, <1>5 DEF ux, vx, d
<1>7. Low(kx, b) \in Int /\ Low(kx, b + w) \in Int /\ Low(kx, b + w) = Low(kx, b) + d
  BY <1>6
<1> QED BY <1>1, <1>6, <1>7 DEF d, B, sd

\* The low bits, signed by the bit below: at most half their range.
LEMMA LowIs ==
  ASSUME NEW kx \in Nat, NEW b \in Nat \ {0}
  PROVE  LET rx == kx % Power2[b]
         IN  /\ Low(kx, b) = (IF rx >= Power2[b - 1] THEN rx - Power2[b] ELSE rx)
             /\ Low(kx, b) \in Int /\ Low(kx, b) <= Power2[b - 1] /\ -Power2[b - 1] <= Low(kx, b)
<1> DEFINE B == Power2[b]
           Q == Power2[b - 1]
           g == kx \div B
           rx == kx % B
<1>1. B = 2 * Q /\ Q \in Nat \ {0} /\ B \in Nat \ {0}
  <2>1. b - 1 \in Nat /\ (b - 1) + 1 = b
    OBVIOUS
  <2>2. Power2[(b - 1) + 1] = 2 * Power2[b - 1] /\ Power2[b - 1] \in Nat \ {0}
    BY <2>1, PowerNext
  <2> QED BY <2>1, <2>2
<1>2. g \in Nat /\ rx \in 0..(B - 1) /\ kx = B * g + rx
  BY <1>1, DivMod
<1>3. BitBelow(kx, b) = IF rx >= Q THEN 1 ELSE 0
  <2>1. BitBelow(kx, b) = (kx \div Q) % 2
    BY DEF BitBelow
  <2> HIDE DEF g, rx, Q, B
  <2>2. rx \in 0..(2 * Q - 1) /\ kx = (2 * Q) * g + rx
    BY <1>1, <1>2
  <2> QED BY <1>1, <1>2, <2>1, <2>2, BitOf
<1> DEFINE sx == IF rx >= Q THEN 1 ELSE 0
<1>4. Low(kx, b) = kx - B * (g + sx)
  BY <1>3 DEF Low, High
<1>5. B * (g + sx) = B * g + B * sx /\ B * sx = IF rx >= Q THEN B ELSE 0
  <2> HIDE DEF g, rx, Q, B
  <2> QED BY <1>1, <1>2
<1> DEFINE ux == B * g
           vx == B * sx
<1>6. Low(kx, b) = kx - (ux + vx) /\ ux \in Int /\ vx \in Int /\ kx = ux + rx
  <2> HIDE DEF g, rx, Q, B
  <2> QED BY <1>1, <1>2, <1>4, <1>5
<1>7. vx = IF rx >= Q THEN B ELSE 0
  BY <1>5
<1> HIDE DEF g, rx, Q, B, ux, vx
<1>8. Low(kx, b) = rx - vx
  BY <1>1, <1>2, <1>6
<1> QED BY <1>1, <1>2, <1>7, <1>8 DEF rx, Q, B

\* Above a scalar's bits there is nothing.
LEMMA HighAbove ==
  ASSUME NEW kx \in Nat, NEW o \in Nat, kx < Power2[o], NEW b \in Nat, b >= o + 1
  PROVE  BitBelow(kx, b) = 0 /\ High(kx, b) = 0 /\ Low(kx, b) = kx
<1> DEFINE B == Power2[b]
           Q == Power2[b - 1]
<1>1. B = 2 * Q /\ Q \in Nat \ {0} /\ B \in Nat \ {0} /\ b - 1 \in Nat
  <2>1. b - 1 \in Nat /\ (b - 1) + 1 = b
    OBVIOUS
  <2>2. Power2[(b - 1) + 1] = 2 * Power2[b - 1] /\ Power2[b - 1] \in Nat \ {0}
    BY <2>1, PowerNext
  <2> QED BY <2>1, <2>2
<1>2. Power2[o] <= Q
  <2>1. Power2[o] \in Nat
    BY PowerTyped
  <2>2. CASE Q < Power2[o]
    <3>1. b - 1 < o
      BY <1>1, <2>2, PowerOrder
    <3> QED BY <3>1
  <2> QED BY <1>1, <2>1, <2>2
<1>3. kx < Q /\ kx < B
  <2>1. Power2[o] \in Nat
    BY PowerTyped
  <2> HIDE DEF B, Q
  <2> QED BY <1>1, <1>2, <2>1
<1>4. kx \div Q = 0 /\ kx \div B = 0
  <2> HIDE DEF B, Q
  <2>1. kx = Q * 0 + kx /\ kx \in 0..(Q - 1) /\ kx = B * 0 + kx /\ kx \in 0..(B - 1)
    BY <1>1, <1>3
  <2>2. kx \div Q = 0
    BY <1>1, <2>1, DivModOfSplit
  <2>3. kx \div B = 0
    BY <1>1, <2>1, DivModOfSplit
  <2> QED BY <2>2, <2>3
<1>5. BitBelow(kx, b) = 0
  BY <1>4 DEF BitBelow
<1>6. High(kx, b) = 0
  BY <1>4, <1>5 DEF High
<1>7. Low(kx, b) = kx
  <2> HIDE DEF B
  <2>1. Low(kx, b) = kx - B * 0
    BY <1>6 DEF Low, B
  <2> QED BY <1>1, <2>1
<1> QED BY <1>5, <1>6, <1>7

\* All of the scalar is above bit 0, and zero is nothing.
LEMMA HighFirst ==
  ASSUME NEW kx \in Nat
  PROVE  High(kx, 0) = kx /\ Low(kx, 0) = 0 /\ \A b \in Nat : High(0, b) = 0
<1>1. Power2[0] = 1
  BY PowerSteps
<1>2. BitBelow(kx, 0) = 0
  BY DEF BitBelow
<1>3. High(kx, 0) = kx
  BY <1>1, <1>2 DEF High
<1>4. Low(kx, 0) = 0
  BY <1>1, <1>3 DEF Low
<1>5. ASSUME NEW b \in Nat PROVE High(0, b) = 0
  <2>1. \A m \in Nat \ {0} : 0 \div m = 0
    <3>1. \A m \in Nat \ {0} : 0 = m * 0 + 0 /\ 0 \in 0..(m - 1)
      OBVIOUS
    <3> QED BY <3>1, DivModOfSplit
  <2>2. 0 \div Power2[b] = 0
    BY <2>1, PowerTyped
  <2>3. BitBelow(0, b) = 0
    <3>1. CASE b = 0
      BY <3>1 DEF BitBelow
    <3>2. CASE b > 0
      <4>1. b - 1 \in Nat
        BY <3>2
      <4>2. 0 \div Power2[b - 1] = 0
        BY <2>1, <4>1, PowerTyped
      <4> QED BY <3>2, <4>2 DEF BitBelow
    <3> QED BY <3>1, <3>2
  <2> QED BY <2>2, <2>3 DEF High
<1> QED BY <1>3, <1>4, <1>5

-----------------------------------------------------------------------------
(* Signs and tables.                                                       *)

\* The opposite ordinate stands for the opposite multiple.
LEMMA SignedMultiple ==
  ASSUME NEW E, Cyclic(E), PrimeField(E.p), NEW P, NEW i \in Int, Represents(E, P, i)
  PROVE  Represents(E, Signed(E, P, 1), -i)
<1> DEFINE p == E.p
           o == (-P[2]) % p
           Q == Signed(E, P, 1)
<1>1. p \in Nat \ {0} /\ -i \in Int /\ E.n \in Nat \ {0} /\ i \in Int /\ 0 \in Int
  BY CurveNumbers DEF PrimeField
<1>2. P = <<P[1], P[2], P[3]>> /\ P[1] \in 0..(p - 1) /\ P[2] \in 0..(p - 1) /\ P[3] \in 0..(p - 1)
  BY DEF Represents, Coordinates
<1>3. Q = <<P[1], o, P[3]>>
  BY <1>2 DEF Signed
<1>4. -P[2] = 0 - P[2] /\ P[2] \in Int
  BY <1>1, <1>2
<1>5. Like(o, 0 - P[2], p) /\ o \in 0..(p - 1)
  <2>1. Like(0 - P[2], 0 - P[2], p)
    BY <1>1, <1>4, LikeRules
  <2> QED BY <1>1, <1>4, <2>1, LikeRules
<1> HIDE DEF Q, o
<1>6. Q[1] = P[1] /\ Q[2] = o /\ Q[3] = P[3] /\ Coordinates(p, Q)
  BY <1>2, <1>3, <1>5 DEF Coordinates
<1>7. CASE TimesBase(E, i) = AtInfinity
  <2>1. Alike(i, 0, E.n)
    BY <1>7, BaseFinite
  <2>2. Alike(-i, 0, E.n)
    <3>1. Alike(0 - i, 0 - 0, E.n)
      BY <1>1, <2>1, AlikeItself, AlikeSum
    <3> QED BY <3>1, 0 - i = -i, 0 - 0 = 0
  <2>3. TimesBase(E, -i) = AtInfinity
    BY <1>1, <2>2, BaseFinite
  <2> QED BY <1>6, <1>7, <2>3 DEF Represents, Q
<1>8. CASE TimesBase(E, i) # AtInfinity
  <2> DEFINE A == TimesBase(E, i)
             B == TimesBase(E, -i)
             x == A[1]
             y == A[2]
             b == (-y) % p
             Z == P[3]
  <2>1. Stands(p, P, x, y)
    BY <1>8 DEF Represents
  <2>2. /\ x \in 0..(p - 1) /\ y \in 0..(p - 1) /\ Z # 0 /\ x \in Int /\ y \in Int /\ Z \in Int /\ P[2] \in Int
        /\ Alike(P[1], x * Z * Z, p) /\ Alike(P[2], y * Z * Z * Z, p)
    BY <1>1, <2>1 DEF Stands, Coordinates
  <2>3. B = <<x, b>>
    BY <1>8, BaseNegative DEF Negative
  <2> HIDE DEF A, B, x, y, b
  <2>4. B[1] = x /\ B[2] = b
    BY <2>3
  <2>5. Like(b, 0 - y, p) /\ b \in 0..(p - 1)
    <3>1. Like(0 - y, 0 - y, p) /\ -y = 0 - y
      BY <1>1, <2>2, LikeRules
    <3> QED BY <1>1, <3>1, LikeRules DEF b
  <2>6. b \in Int
    BY <1>1, <2>5
  <2> DEFINE z == Z * Z * Z
  <2>7. z \in Int /\ y * Z * Z * Z = y * z /\ b * Z * Z * Z = b * z /\ (0 - y) * z = 0 - y * z /\ y * z \in Int
    BY <2>2, <2>6, SMT
  <2> HIDE DEF z
  <2>8. Like(b * z, 0 - y * z, p)
    <3>1. Like(z, z, p)
      BY <1>1, <2>7, LikeRules
    <3>2. Like(b * z, (0 - y) * z, p)
      BY <1>1, <2>5, <3>1, LikeRules, Zenon
    <3> QED BY <2>7, <3>2, Zenon
  <2>9. Like(0 - P[2], 0 - y * z, p)
    <3>1. Like(P[2], y * z, p)
      BY <2>2, <2>7 DEF Like
    <3>2. Like(0, 0, p)
      BY <1>1, LikeRules
    <3> QED BY <1>1, <3>1, <3>2, LikeRules, Zenon
  <2>10. Like(o, b * z, p)
    <3> DEFINE ux == b * z
               vx == 0 - y * z
               g == 0 - P[2]
    <3>1. Like(o, g, p) /\ Like(g, vx, p) /\ Like(ux, vx, p) /\ p \in Nat \ {0}
      BY <1>1, <1>5, <2>8, <2>9
    <3> HIDE DEF ux, vx, g, p
    <3>2. Like(vx, ux, p) /\ Like(o, vx, p)
      BY <3>1, LikeRules
    <3>3. Like(o, ux, p)
      BY <3>1, <3>2, LikeRules
    <3> QED BY <3>3 DEF ux
  <2>11. Alike(o, b * Z * Z * Z, p)
    BY <2>7, <2>10, Zenon DEF Like
  <2>12. Stands(p, Q, x, b)
    BY <1>6, <2>2, <2>5, <2>11, Zenon DEF Stands
  <2>13. B # AtInfinity
    <3>1. ~Alike(i, 0, E.n)
      BY <1>8, BaseFinite
    <3>2. ASSUME Alike(-i, 0, E.n) PROVE FALSE
      <4>1. Alike(0 - (-i), 0 - 0, E.n)
        BY <1>1, <3>2, AlikeItself, AlikeSum
      <4> QED BY <3>1, <4>1, 0 - (-i) = i, 0 - 0 = 0
    <3> QED BY <1>1, <3>2, BaseFinite DEF B
  <2> QED BY <1>6, <2>4, <2>12, <2>13, Zenon DEF Represents, Q, B, p
<1> QED BY <1>7, <1>8

\* ... and so it is with the affine multiples of a base-point table.
LEMMA SignedAffine ==
  ASSUME NEW E, Cyclic(E), NEW i \in Int
  PROVE  Signed(E, TimesBase(E, i), 1) = TimesBase(E, -i)
<1> DEFINE p == E.p
           A == TimesBase(E, i)
<1>1. p \in Nat \ {0} /\ E.n \in Nat \ {0} /\ -i \in Int /\ 0 \in Int
  BY CurveNumbers
<1>2. A = <<A[1], A[2]>>
  BY BaseFinite
<1>3. Signed(E, A, 1) = Negative(E, A)
  <2> HIDE DEF A
  <2> QED BY <1>2 DEF Signed, Negative
<1>4. CASE A = AtInfinity
  <2>1. Alike(i, 0, E.n)
    BY <1>4, BaseFinite
  <2>2. Alike(0 - i, 0 - 0, E.n)
    BY <1>1, <2>1, AlikeItself, AlikeSum
  <2>3. TimesBase(E, -i) = AtInfinity
    BY <1>1, <2>2, BaseFinite, 0 - i = -i, 0 - 0 = 0
  <2>4. (-0) % p = 0
    <3> HIDE DEF p
    <3> QED BY <1>1
  <2>5. Negative(E, AtInfinity) = AtInfinity
    BY <2>4 DEF Negative, AtInfinity
  <2> QED BY <1>3, <1>4, <2>3, <2>5
<1>5. CASE A # AtInfinity
  BY <1>3, <1>5, BaseNegative
<1> QED BY <1>4, <1>5

\* A table's entry from those before it.
Entry(f, E, P, d) ==
  f[d] = IF d = 1 THEN P
         ELSE IF d % 2 = 0 THEN gfec_point_double(E, f[d \div 2])
         ELSE gfec_point_add(E, f[d - 1], P)

Entries(f, E, P, n) == f = [d \in 1..n |-> f[d]] /\ \A d \in 1..n : Entry(f, E, P, d)

\* There is a table of every size.
LEMMA EntriesExist ==
  ASSUME NEW E, NEW P, NEW n \in Nat
  PROVE  \E f : Entries(f, E, P, n)
<1> DEFINE S == {q \in Nat : \E f : Entries(f, E, P, q)}
<1>1. 0 \in S
  <2> DEFINE f == [d \in 1..0 |-> P]
  <2>1. f = [d \in 1..0 |-> f[d]] /\ \A d \in 1..0 : FALSE
    OBVIOUS
  <2> HIDE DEF f
  <2>2. Entries(f, E, P, 0)
    BY <2>1 DEF Entries
  <2> QED BY <2>2
<1>2. ASSUME NEW q \in Nat, q \in S
      PROVE  q + 1 \in S
  <2>1. PICK f : Entries(f, E, P, q)
    BY <1>2
  <2> DEFINE e == q + 1
             h == e \div 2
             z == IF e = 1 THEN P
                  ELSE IF e % 2 = 0 THEN gfec_point_double(E, f[h]) ELSE gfec_point_add(E, f[e - 1], P)
             g == [d \in 1..e |-> IF d = e THEN z ELSE f[d]]
  <2>2. e # 1 => (e % 2 = 0 => h \in 1..q) /\ e - 1 \in 1..q
    OBVIOUS
  <2>3. /\ \A d \in 1..q : g[d] = f[d]
        /\ g[e] = z
        /\ g = [d \in 1..e |-> g[d]]
    OBVIOUS
  <2> HIDE DEF g
  <2>4. ASSUME NEW d \in 1..q PROVE Entry(g, E, P, d)
    <3>1. Entry(f, E, P, d)
      BY <2>1 DEF Entries
    <3>2. d # 1 => (d % 2 = 0 => d \div 2 \in 1..q) /\ d - 1 \in 1..q
      OBVIOUS
    <3>3. g[d] = f[d] /\ (d # 1 => (d % 2 = 0 => g[d \div 2] = f[d \div 2]) /\ g[d - 1] = f[d - 1])
      BY <2>3, <3>2
    <3> QED BY <3>1, <3>3, Zenon DEF Entry
  <2>5. Entry(g, E, P, e)
    <3>1. e # 1 => (e % 2 = 0 => g[h] = f[h]) /\ g[e - 1] = f[e - 1]
      BY <2>2, <2>3
    <3> HIDE DEF e
    <3> QED BY <2>3, <3>1, Zenon DEF Entry
  <2>6. \A d \in 1..e : d \in 1..q \/ d = e
    OBVIOUS
  <2>7. \A d \in 1..e : Entry(g, E, P, d)
    BY <2>4, <2>5, <2>6, Zenon
  <2>8. Entries(g, E, P, e)
    BY <2>3, <2>7, Zenon DEF Entries
  <2> QED BY <2>8
<1> HIDE DEF S
<1>3. n \in S
  BY <1>1, <1>2, Induction
<1> QED BY <1>3 DEF S

\* Its entries stand for multiples of what its point stands for.
LEMMA EntriesRepresent ==
  ASSUME NEW E, Cyclic(E), PrimeField(E.p), NEW P, NEW i \in Int, Represents(E, P, i),
         NEW n \in Nat, NEW f, Entries(f, E, P, n)
  PROVE  \A d \in 1..n : Represents(E, f[d], d * i)
<1> DEFINE S == {q \in Nat : \A d \in 1..q : d <= n => Represents(E, f[d], d * i)}
<1>1. 0 \in S
  OBVIOUS
<1>2. ASSUME NEW q \in Nat, q \in S
      PROVE  q + 1 \in S
  <2> DEFINE e == q + 1
  <2>1. SUFFICES ASSUME e <= n PROVE Represents(E, f[e], e * i)
    <3>1. \A d \in 1..e : d \in 1..q \/ d = e
      OBVIOUS
    <3> QED BY <1>2, <3>1
  <2>2. e \in 1..n /\ Entry(f, E, P, e)
    BY <2>1 DEF Entries
  <2>3. \A d \in 1..q : Represents(E, f[d], d * i)
    BY <1>2, <2>1
  <2>4. CASE e = 1
    <3>1. f[e] = P /\ e * i = i
      BY <2>2, <2>4 DEF Entry
    <3> QED BY <3>1, Zenon
  <2>5. CASE e # 1 /\ e % 2 = 0
    <3> DEFINE h == e \div 2
    <3>1. h \in 1..q /\ e = 2 * h /\ h \in Int
      BY <2>5
    <3> HIDE DEF h
    <3>2. 2 * (h * i) = e * i /\ h * i \in Int
      BY <3>1, SMT
    <3>3. Represents(E, gfec_point_double(E, f[h]), 2 * (h * i))
      BY <2>3, <3>1, <3>2, DoubleMultiple
    <3>4. f[e] = gfec_point_double(E, f[h])
      BY <2>2, <2>5 DEF Entry, h
    <3> QED BY <3>2, <3>3, <3>4, Zenon
  <2>6. CASE e # 1 /\ e % 2 # 0
    <3>1. q \in 1..q /\ e - 1 = q /\ q \in Int
      BY <2>6
    <3>2. q * i + i = e * i /\ q * i \in Int
      BY <3>1, SMT
    <3>3. Represents(E, gfec_point_add(E, f[q], P), q * i + i)
      BY <2>3, <3>1, <3>2, AddMultiples
    <3>4. f[e] = gfec_point_add(E, f[q], P)
      <4> HIDE DEF e
      <4> QED BY <2>2, <2>6, <3>1, Zenon DEF Entry
    <3> QED BY <3>2, <3>3, <3>4, Zenon
  <2> QED BY <2>4, <2>5, <2>6
<1> HIDE DEF S
<1>3. n \in S
  BY <1>1, <1>2, Induction
<1> QED BY <1>3 DEF S

\* setupTable makes the multiples of its point, TableEntry finds them.
LEMMA TableEntries ==
  ASSUME NEW E, Cyclic(E), PrimeField(E.p), NEW P, NEW i \in Int, Represents(E, P, i), NEW d \in 0..16
  PROVE  Represents(E, TableEntry(setupTable(E, P), d), d * i)
<1> DEFINE f == CHOOSE g : Entries(g, E, P, 16)
<1>1. Entries(f, E, P, 16)
  BY EntriesExist, 16 \in Nat
<1>2. setupTable(E, P) = [e \in 1..16 |-> f[e]]
  <2> DEFINE next(g, e) == IF e = 1 THEN P
                           ELSE IF e % 2 = 0 THEN gfec_point_double(E, g[e \div 2])
                           ELSE gfec_point_add(E, g[e - 1], P)
             c == CHOOSE g : g = [e \in 1..16 |-> next(g, e)]
  <2>1. setupTable(E, P) = [e \in 1..16 |-> c[e]]
    BY DEF setupTable
  <2>2. ASSUME NEW g PROVE g = [e \in 1..16 |-> next(g, e)] <=> Entries(g, E, P, 16)
    <3>1. Entries(g, E, P, 16) <=> g = [e \in 1..16 |-> g[e]] /\ \A e \in 1..16 : g[e] = next(g, e)
      BY Zenon DEF Entries, Entry
    <3> HIDE DEF next
    <3>2. ASSUME g = [e \in 1..16 |-> next(g, e)]
          PROVE  g = [e \in 1..16 |-> g[e]] /\ \A e \in 1..16 : g[e] = next(g, e)
      <4> DEFINE h == [e \in 1..16 |-> next(g, e)]
      <4>1. h = [e \in 1..16 |-> h[e]] /\ \A e \in 1..16 : h[e] = next(g, e)
        OBVIOUS
      <4>2. g = h
        BY <3>2
      <4> HIDE DEF h
      <4> QED BY <4>1, <4>2
    <3>3. ASSUME g = [e \in 1..16 |-> g[e]], \A e \in 1..16 : g[e] = next(g, e)
          PROVE  g = [e \in 1..16 |-> next(g, e)]
      BY <3>3
    <3> QED BY <3>1, <3>2, <3>3
  <2> HIDE DEF next
  <2>3. c = f
    BY <2>2
  <2> QED BY <2>1, <2>3
<1> HIDE DEF f
<1>3. CASE d = 0
  <2>1. d * i = 0 /\ TableEntry(setupTable(E, P), d) = Zero
    BY <1>3 DEF TableEntry
  <2>2. TimesBase(E, 0) = AtInfinity
    <3>1. E.n \in Nat \ {0} /\ 0 \in Int
      BY CurveNumbers
    <3> QED BY <3>1, BaseFinite, AlikeItself
  <2>3. Coordinates(E.p, Zero) /\ Zero[3] = 0
    BY DEF Coordinates, Zero, PrimeField
  <2> QED BY <2>1, <2>2, <2>3 DEF Represents
<1>4. CASE d # 0
  <2>1. d \in 1..16
    BY <1>4
  <2>2. Represents(E, f[d], d * i)
    BY <1>1, <2>1, EntriesRepresent, 16 \in Nat
  <2>3. TableEntry(setupTable(E, P), d) = f[d]
    BY <1>2, <1>4, <2>1 DEF TableEntry
  <2> QED BY <2>2, <2>3
<1> QED BY <1>3, <1>4

-----------------------------------------------------------------------------
(* From the top.                                                           *)

\* A curve scalars are multiplied on.
Multiplied(E) == E \in MulCurves \union PairCurves

\* What is assumed of such a curve.
LEMMA MultipliedCurve ==
  ASSUME NEW E, Multiplied(E)
  PROVE  /\ Cyclic(E) /\ PrimeField(E.p) /\ E.n % 2 = 1 /\ E.n \in Nat \ {0} /\ E.n > 1 /\ E \in Curves
         /\ \A w \in BaseWindows : NoDoubling(E, w)
         /\ OrderBits(E) \in Nat \ {0} /\ Power2[OrderBits(E) - 1] <= E.n /\ E.n < Power2[OrderBits(E)]
<1>1. /\ E \in Curves /\ IsGroup(E) /\ IsPrime(E.p) /\ E.n % 2 = 1
      /\ \A w \in BaseWindows : NoDoubling(E, w)
  BY ScalarMulAssumption DEF Multiplied
<1>2. Cyclic(E)
  BY <1>1 DEF Cyclic
<1>3. E.p \in Nat /\ E.p > 3 /\ E.n \in Nat \ {0} /\ E.n > 1
  BY <1>2, CurveNumbers
<1>4. PrimeField(E.p)
  BY <1>1, <1>3 DEF PrimeField, IsPrime
<1>5. /\ OrderBits(E) \in Nat \ {0} /\ Power2[OrderBits(E) - 1] <= E.n /\ E.n < Power2[OrderBits(E)]
  BY <1>3, BitSize DEF OrderBits
<1> QED BY <1>1, <1>2, <1>3, <1>4, <1>5

\* The two points are the base point and its double.
LEMMA PointsStand ==
  ASSUME NEW E, Cyclic(E), PrimeField(E.p)
  PROVE  Represents(E, PointA(E), 1) /\ Represents(E, PointB(E), 2)
<1> DEFINE p == E.p
           P == PointA(E)
           x == E.g[1]
           y == E.g[2]
           ux == (4 * x) % p
           vx == (8 * y) % p
<1>1. p \in Nat \ {0} /\ p > 3 /\ E.n \in Nat \ {0} /\ E.n > 1 /\ 1 \in Int /\ 0 \in Int
  BY CurveNumbers
<1>2. /\ TimesBase(E, 1) = E.g /\ x \in 0..(p - 1) /\ y \in 0..(p - 1)
      /\ x \in Int /\ y \in Int
  BY <1>1, BaseFinite
<1>3. TimesBase(E, 1) # AtInfinity
  <2>1. SUFFICES ASSUME Alike(1, 0, E.n) PROVE FALSE
    BY <1>1, BaseFinite
  <2>2. 1 \in 0..(E.n - 1) /\ 0 \in 0..(E.n - 1)
    BY <1>1
  <2> QED BY <1>1, <2>1, <2>2, AlikeBelow
<1>4. P = <<ux, vx, 2>>
  BY DEF PointA
<1>5. ux \in 0..(p - 1) /\ Alike(ux, 4 * x, p) /\ vx \in 0..(p - 1) /\ Alike(vx, 8 * y, p)
  BY <1>1, <1>2, 4 * x \in Int, 8 * y \in Int, RestAlike
<1>6. 4 * x = x * 2 * 2 /\ 8 * y = y * 2 * 2 * 2
  BY <1>2, SMT
<1> HIDE DEF P, ux, vx, x, y
<1>7. P[1] = ux /\ P[2] = vx /\ P[3] = 2 /\ Coordinates(p, P)
  BY <1>1, <1>4, <1>5 DEF Coordinates
<1>8. P[3] # 0
  BY <1>7
<1>9. Alike(P[1], x * P[3] * P[3], p) /\ Alike(P[2], y * P[3] * P[3] * P[3], p)
  BY <1>5, <1>6, <1>7, Zenon
<1>10. Stands(p, P, x, y)
  BY <1>2, <1>7, <1>8, <1>9, Zenon DEF Stands
<1>11. Represents(E, P, 1)
  BY <1>2, <1>3, <1>7, <1>10 DEF Represents, x, y
<1>12. Represents(E, gfec_point_double(E, P), 2 * 1)
  BY <1>1, <1>11, DoubleMultiple
<1> QED BY <1>11, <1>12, 2 * 1 = 2 DEF PointB, P

\* Their tables hold their multiples.
LEMMA PointTablesStand ==
  ASSUME NEW E, Cyclic(E), PrimeField(E.p), NEW i \in {1, 2}, NEW d \in 0..16
  PROVE  Represents(E, TableEntry(PointTables[E][i], d), d * i)
<1>1. E \in Curves
  BY DEF Cyclic
<1>2. CASE i = 1
  <2>1. PointTables[E][i] = setupTable(E, PointA(E))
    BY <1>1, <1>2 DEF PointTables
  <2> QED BY <1>2, <2>1, PointsStand, TableEntries, 1 \in Int
<1>3. CASE i = 2
  <2>1. PointTables[E][i] = setupTable(E, PointB(E))
    BY <1>1, <1>3 DEF PointTables
  <2> QED BY <1>3, <2>1, PointsStand, TableEntries, 2 \in Int
<1> QED BY <1>2, <1>3

\* Five doublings make 32 of what there was.
LEMMA Double5Multiple ==
  ASSUME NEW E, Cyclic(E), PrimeField(E.p), NEW T, NEW tx \in Int, Represents(E, T, tx)
  PROVE  Represents(E, Double5(E, T), 32 * tx)
<1> DEFINE D(Q) == gfec_point_double(E, Q)
<1>1. \A Q : \A i \in Int : Represents(E, Q, i) => Represents(E, D(Q), 2 * i)
  BY DoubleMultiple
<1>2. Double5(E, T) = D(D(D(D(D(T)))))
  BY Zenon DEF Double5, Double2
<1> HIDE DEF D
<1>0. /\ 2 * (2 * tx) = 4 * tx /\ 2 * (4 * tx) = 8 * tx /\ 2 * (8 * tx) = 16 * tx /\ 2 * (16 * tx) = 32 * tx
      /\ 2 * tx \in Int /\ 4 * tx \in Int /\ 8 * tx \in Int /\ 16 * tx \in Int
  OBVIOUS
<1>3. Represents(E, D(T), 2 * tx) /\ 2 * tx \in Int
  BY <1>1
<1>4. Represents(E, D(D(T)), 4 * tx) /\ 4 * tx \in Int
  BY <1>1, <1>3, <1>0, Zenon
<1>5. Represents(E, D(D(D(T))), 8 * tx) /\ 8 * tx \in Int
  BY <1>1, <1>4, <1>0, Zenon
<1>6. Represents(E, D(D(D(D(T)))), 16 * tx) /\ 16 * tx \in Int
  BY <1>1, <1>5, <1>0, Zenon
<1>7. Represents(E, D(D(D(D(D(T))))), 32 * tx)
  BY <1>1, <1>6, <1>0, Zenon
<1> QED BY <1>2, <1>7

\* A window's entry, with its sign, is its number of multiples.
LEMMA EntrySigned ==
  ASSUME NEW E, Cyclic(E), PrimeField(E.p), NEW i \in {1, 2}, NEW kx \in Nat, NEW bit \in Nat
  PROVE  LET code == booth_recode(WindowAt(kx, bit, 5), 5)
         IN  Represents(E, Signed(E, TableEntry(PointTables[E][i], code.digit), code.sign), Recoded(code) * i)
<1> DEFINE code == booth_recode(WindowAt(kx, bit, 5), 5)
           P == TableEntry(PointTables[E][i], code.digit)
<1>1. code.sign \in {0, 1} /\ code.digit \in 0..16
  <2>1. 5 \in 2..7 /\ 5 - 1 = 4 /\ Power2[4] = 16
    BY SmallPowers
  <2> QED BY <2>1, WindowStep
<1> HIDE DEF code
<1>2. Represents(E, P, code.digit * i)
  BY <1>1, PointTablesStand
<1>3. code.digit \in Int /\ code.digit * i \in Int /\ i \in Int
  BY <1>1
<1> HIDE DEF P
<1>4. CASE code.sign = 1
  <2>1. Represents(E, Signed(E, P, 1), -(code.digit * i))
    BY <1>2, <1>3, SignedMultiple
  <2>2. Recoded(code) * i = -(code.digit * i)
    BY <1>3, <1>4 DEF Recoded
  <2> QED BY <1>4, <2>1, <2>2 DEF P, code
<1>5. CASE code.sign = 0
  BY <1>2, <1>5 DEF P, code, Recoded, Signed
<1> QED BY <1>1, <1>4, <1>5

\* A window adds its number of multiples.
LEMMA AddWindowMultiple ==
  ASSUME NEW E, Cyclic(E), PrimeField(E.p), NEW i \in {1, 2}, NEW kx \in Nat, NEW bit \in Nat,
         NEW T, NEW tx \in Int, Represents(E, T, tx)
  PROVE  LET sd == Recoded(booth_recode(WindowAt(kx, bit, 5), 5))
         IN  /\ sd * i \in Int /\ sd \in Int
             /\ Represents(E, AddWindow(E, i, T, kx, bit), tx + sd * i)
<1> DEFINE code == booth_recode(WindowAt(kx, bit, 5), 5)
           P == Signed(E, TableEntry(PointTables[E][i], code.digit), code.sign)
<1>1. Recoded(code) \in Int
  BY WindowStep, 5 \in 2..7
<1>2. Represents(E, P, Recoded(code) * i)
  BY EntrySigned
<1>3. AddWindow(E, i, T, kx, bit) = gfec_point_add(E, T, P)
  BY DEF AddWindow, WINDOW_SIZE
<1> HIDE DEF P
<1> DEFINE sd == Recoded(code)
<1> HIDE DEF sd
<1>4. sd * i \in Int /\ i \in Int
  BY <1>1 DEF sd
<1>5. Represents(E, gfec_point_add(E, T, P), tx + sd * i)
  BY <1>2, <1>4, AddMultiples DEF sd
<1> QED BY <1>1, <1>3, <1>4, <1>5 DEF sd

\* The first window: what is above the next one, for there is no bit above it.
LEMMA FirstEntryMultiple ==
  ASSUME NEW E, Multiplied(E), NEW i \in {1, 2}, NEW kx \in Nat, kx <= E.n
  PROVE  LET bit == TopBit(OrderBits(E))
             b   == IF bit = 0 THEN 5 ELSE bit
         IN  Represents(E, FirstEntry(E, i, kx, bit), High(kx, b) * i)
<1> DEFINE o == OrderBits(E)
           bit == TopBit(o)
           code == booth_recode(WindowAt(kx, bit, 5), 5)
<1>1. /\ Cyclic(E) /\ PrimeField(E.p) /\ o \in Nat \ {0} /\ kx < Power2[o] /\ Power2[o] \in Nat
  <2>1. E.n < Power2[o] /\ Power2[o] \in Nat /\ E.n \in Nat /\ o \in Nat \ {0}
    BY MultipliedCurve, PowerTyped
  <2> HIDE DEF o
  <2> QED BY <2>1, MultipliedCurve
<1> HIDE DEF o
<1>2. bit \in Nat /\ bit + 5 >= o + 1
  BY <1>1 DEF TopBit, WINDOW_SIZE
<1> HIDE DEF bit
<1>3. BitBelow(kx, bit + 5) = 0 /\ High(kx, bit + 5) = 0
  BY <1>1, <1>2, HighAbove, bit + 5 \in Nat
<1>4. CASE bit = 0
  <2>1. High(kx, 5) * i = 0
    BY <1>3, <1>4
  <2>2. FirstEntry(E, i, kx, bit) = TableEntry(PointTables[E][i], 0)
    <3>1. booth_recode(0, 5).digit = 0
      <4>1. Power2[5] = 32
        BY SmallPowers
      <4> QED BY <4>1 DEF booth_recode
    <3> QED BY <1>4, <3>1 DEF FirstEntry, WINDOW_SIZE
  <2>3. Represents(E, TableEntry(PointTables[E][i], 0), 0 * i)
    BY <1>1, PointTablesStand
  <2> QED BY <1>4, <2>1, <2>2, <2>3, 0 * i = 0 DEF bit, o
<1>5. CASE bit # 0
  <2>1. code.sign = 0 /\ code.digit \in 0..16 /\ High(kx, bit) = code.digit
    <3>1. 5 \in 2..7 /\ 5 - 1 = 4 /\ Power2[4] = 16 /\ Power2[5] = 32
      BY SmallPowers
    <3>2. /\ code.sign = BitBelow(kx, bit + 5) /\ code.digit \in 0..16
          /\ Recoded(code) \in Int /\ High(kx, bit) = 32 * High(kx, bit + 5) + Recoded(code)
      <4>1. /\ code.sign = BitBelow(kx, bit + 5) /\ code.digit \in 0..Power2[5 - 1]
            /\ Recoded(code) \in Int /\ High(kx, bit) = Power2[5] * High(kx, bit + 5) + Recoded(code)
        BY <1>2, <3>1, WindowStep
      <4> HIDE DEF code
      <4> QED BY <3>1, <4>1
    <3> HIDE DEF code
    <3> QED BY <1>3, <3>2 DEF Recoded
  <2>2. FirstEntry(E, i, kx, bit) = TableEntry(PointTables[E][i], code.digit)
    BY <1>5 DEF FirstEntry, WINDOW_SIZE
  <2> HIDE DEF code
  <2>3. Represents(E, FirstEntry(E, i, kx, bit), High(kx, bit) * i)
    BY <1>1, <2>1, <2>2, PointTablesStand
  <2> QED BY <1>5, <2>3 DEF bit, o
<1> QED BY <1>4, <1>5

-----------------------------------------------------------------------------
(* From the bottom.                                                        *)

\* An affine multiple with Z = 1.
LEMMA AffineStands ==
  ASSUME NEW E, Cyclic(E), PrimeField(E.p), NEW j \in Int, TimesBase(E, j) # AtInfinity
  PROVE  Represents(E, << TimesBase(E, j)[1], TimesBase(E, j)[2], 1 >>, j)
<1> DEFINE p == E.p
           a == TimesBase(E, j)[1]
           b == TimesBase(E, j)[2]
           Q == << a, b, 1 >>
<1>1. p \in Nat \ {0} /\ p > 3 /\ a \in 0..(p - 1) /\ b \in 0..(p - 1) /\ a \in Int /\ b \in Int
  BY CurveNumbers, BaseFinite
<1> HIDE DEF a, b
<1>2. Q[1] = a /\ Q[2] = b /\ Q[3] = 1 /\ Coordinates(p, Q)
  BY <1>1 DEF Coordinates
<1>3. a * 1 * 1 = a /\ b * 1 * 1 * 1 = b
  BY <1>1, SMT
<1>4. Alike(a, a, p) /\ Alike(b, b, p)
  BY <1>1, AlikeItself
<1> HIDE DEF Q
<1>5. Alike(Q[1], a * Q[3] * Q[3], p) /\ Alike(Q[2], b * Q[3] * Q[3] * Q[3], p) /\ Q[3] # 0
  BY <1>2, <1>3, <1>4
<1>6. Stands(p, Q, a, b)
  BY <1>1, <1>2, <1>5, Zenon DEF Stands
<1> QED BY <1>2, <1>6 DEF Represents, Q, a, b

\* Two multiples that are not equal, opposite ones among them, are added.
LEMMA AffineMultiples ==
  ASSUME NEW E, Cyclic(E), PrimeField(E.p), NEW P, NEW i \in Int, NEW j \in Int, Represents(E, P, i),
         TimesBase(E, i) # AtInfinity, TimesBase(E, j) # AtInfinity, TimesBase(E, i) # TimesBase(E, j)
  PROVE  Represents(E, gfec_affine_point_add(E, P, TimesBase(E, j)), i + j)
<1> DEFINE p == E.p
           A == TimesBase(E, i)
           B == TimesBase(E, j)
           Q == << B[1], B[2], 1 >>
           d == Differences(E, P, Q)
<1>1. E \in Curves /\ i + j \in Int /\ p \in Nat \ {0} /\ PrimeField(p)
  BY DEF Cyclic, PrimeField
<1>2. /\ A \in (0..(p - 1)) \X (0..(p - 1)) /\ B \in (0..(p - 1)) \X (0..(p - 1))
      /\ OnCurve(E, A) /\ OnCurve(E, B)
      /\ TimesBase(E, i + j) = Plus(E, A, B)
  BY <1>1, BaseFinite, BasePlus
<1>3. Represents(E, Q, j)
  BY AffineStands
<1>4. ~(P[1] = 0 /\ P[2] = 0)
  <2>1. SUFFICES ASSUME P[1] = 0, P[2] = 0 PROVE FALSE
    OBVIOUS
  <2>2. Stands(p, P, A[1], A[2])
    BY DEF Represents
  <2>3. A[1] = 0 /\ A[2] = 0
    BY <1>1, <2>1, <2>2, FiniteTold
  <2>4. A = << A[1], A[2] >>
    BY <1>2
  <2> QED BY <2>3, <2>4 DEF AtInfinity
<1>5. gfec_affine_point_add(E, P, B) = Chord(E, d, P[3])
  BY <1>4, Zenon DEF gfec_affine_point_add
<1>6. /\ d.u1 \in Int /\ d.s1 \in Int /\ d.h \in Int /\ d.r \in Int
      /\ d.h = 0 <=> A[1] = B[1]
      /\ \A w : A[1] # B[1] /\ Like(w, P[3] * Q[3], p) => Represents(E, Chord(E, d, w), i + j)
  BY <1>3, TwoPoints
<1>7. P[3] \in Int /\ P[3] * Q[3] = P[3]
  <2>1. P[3] \in Int
    BY <1>1 DEF Represents, Coordinates
  <2>2. Q[3] = 1
    OBVIOUS
  <2> HIDE DEF Q
  <2> QED BY <2>1, <2>2
<1> HIDE DEF d, Q
<1>8. CASE A[1] # B[1]
  <2>1. Like(P[3], P[3], p)
    BY <1>1, <1>7, LikeRules
  <2> QED BY <1>5, <1>6, <1>7, <1>8, <2>1
<1>9. CASE A[1] = B[1]
  <2>1. A[2] # B[2]
    <3>1. A = << A[1], A[2] >> /\ B = << B[1], B[2] >>
      BY <1>2
    <3> QED BY <1>9, <3>1
  <2>2. (A[2] + B[2]) % p = 0
    BY <1>1, <1>2, <1>9, <2>1, EqualOrOpposite
  <2>3. Plus(E, A, B) = AtInfinity
    BY <1>9, <2>2 DEF Plus
  <2>4. Coordinates(p, Chord(E, d, P[3])) /\ Chord(E, d, P[3])[3] = 0
    BY <1>1, <1>6, <1>7, <1>9, ChordCoordinates
  <2> QED BY <1>2, <1>5, <2>3, <2>4 DEF Represents
<1> QED BY <1>8, <1>9

\* The sum of the low windows and the next one are never equal points.
LEMMA SumsDiffer ==
  ASSUME NEW n \in Nat \ {0}, NEW kx \in Nat, kx <= n, NEW low \in Int, NEW half \in Nat \ {0},
         -half <= low, low <= half, NEW top \in Nat, top > half,
         IF top < n THEN top + half < n ELSE top <= n + half => top + half < 2 * n,
         ~Alike(low, 0, n)
  PROVE  /\ low + top <= kx => ~Alike(low, top, n)
         /\ top <= kx => ~Alike(low, -top, n)
<1>1. ASSUME NEW q \in Int
      PROVE  /\ q * n \in Int /\ (q >= 1 => q * n >= n) /\ (q <= -1 => q * n <= -n)
             /\ (q <= -2 => q * n <= -2 * n) /\ (q = 0 => q * n = 0) /\ (q = -1 => q * n = -n)
             /\ low # q * n
  <2>1. low # q * n
    <3>1. ASSUME low = q * n PROVE FALSE
      <4>1. low = 0 + q * n
        BY <3>1
      <4> QED BY <4>1 DEF Alike
    <3> QED BY <3>1
  <2>2. q * n \in Int /\ (q >= 1 => q * n >= n)
    BY SMT
  <2>3. q <= -1 => q * n <= -n
    BY SMT
  <2>4. q <= -2 => q * n <= -2 * n
    BY SMT
  <2> QED BY <2>1, <2>2, <2>3, <2>4
<1>2. ASSUME low + top <= kx, NEW q \in Int, low = top + q * n
      PROVE  FALSE
  <2> DEFINE ux == q * n
  <2>1. /\ ux \in Int /\ (q >= 1 => ux >= n) /\ (q <= -1 => ux <= -n)
        /\ (q <= -2 => ux <= -2 * n) /\ (q = 0 => ux = 0) /\ (q = -1 => ux = -n)
    BY <1>1
  <2>2. low # 0 /\ low = top + ux
    BY <1>1, <1>2, 0 * n = 0, 0 \in Int
  <2> HIDE DEF ux
  <2> QED BY <1>2, <2>1, <2>2
<1>3. ASSUME top <= kx, NEW q \in Int, low = -top + q * n
      PROVE  FALSE
  <2> DEFINE ux == q * n
             vx == (q - 1) * n
  <2>1. /\ ux \in Int /\ (q >= 1 => ux >= n) /\ (q <= -1 => ux <= -n)
        /\ (q = 0 => ux = 0) /\ low = -top + ux
    BY <1>1, <1>3
  <2>2. low # vx
    BY <1>1, q - 1 \in Int
  <2>3. vx = ux - n
    BY SMT
  <2>4. (q >= 2 => vx >= n)
    BY SMT
  <2>5. (q = 1 => ux = n)
    BY SMT
  <2> HIDE DEF ux, vx
  <2>6. CASE top < n
    BY <1>3, <2>1, <2>2, <2>3, <2>4, <2>5, <2>6
  <2>7. CASE top >= n
    <3>1. top = n
      BY <1>3, <2>7
    <3>2. low = ux - n
      BY <2>1, <3>1
    <3> QED BY <2>2, <2>3, <3>2
  <2> QED BY <2>6, <2>7
<1> QED BY <1>2, <1>3 DEF Alike

\* A sum of low windows at infinity is no sum, or the whole scalar where that is the order.
LEMMA LowAtInfinity ==
  ASSUME NEW n \in Nat \ {0}, n % 2 = 1, NEW kx \in Nat, kx <= n, NEW b \in Nat, b >= 2,
         Alike(Low(kx, b), 0, n)
  PROVE  Low(kx, b) = 0 \/ (Low(kx, b) = kx /\ kx = n)
<1> DEFINE B == Power2[b]
           H == Power2[b - 1]
           Q == Power2[b - 2]
           g == High(kx, b)
           low == Low(kx, b)
<1>1. B = 2 * H /\ H = 2 * Q /\ Q \in Nat \ {0} /\ H \in Nat \ {0} /\ B \in Nat \ {0}
  <2>1. b - 1 \in Nat /\ (b - 1) + 1 = b /\ b - 2 \in Nat /\ (b - 2) + 1 = b - 1
    OBVIOUS
  <2>2. Power2[(b - 1) + 1] = 2 * Power2[b - 1] /\ Power2[b - 1] \in Nat \ {0}
    BY <2>1, PowerNext
  <2>3. Power2[(b - 2) + 1] = 2 * Power2[b - 2] /\ Power2[b - 2] \in Nat \ {0}
    BY <2>1, PowerNext
  <2> QED BY <2>1, <2>2, <2>3
<1>2. low \in Int /\ low <= H /\ -H <= low /\ g \in Nat
  <2>1. g \in Nat
    BY WindowStep, 2 \in 2..7
  <2> QED BY <2>1, LowIs, b \in Nat \ {0}
<1>3. low = kx - B * g
  BY DEF Low
<1> HIDE DEF B, H, Q, g, low
<1>4. PICK q \in Int : low = q * n
  <2>1. PICK q \in Int : low = 0 + q * n
    BY DEF Alike, low
  <2>2. q * n \in Int
    OBVIOUS
  <2>3. low = q * n
    <3> DEFINE ux == q * n
    <3> HIDE DEF ux
    <3>1. low = 0 + ux /\ ux \in Int
      BY <2>1, <2>2 DEF ux
    <3>2. low = ux
      BY <3>1
    <3> QED BY <3>2 DEF ux
  <2> QED BY <2>3
<1>5. B * g \in Nat /\ (g = 0 => B * g = 0) /\ (g = 1 => B * g = B) /\ (g >= 2 => B * g >= 2 * B)
  <2>1. B * g \in Nat /\ (g = 0 => B * g = 0) /\ (g = 1 => B * g = B)
    BY <1>1, <1>2
  <2>2. g >= 2 => B * g >= 2 * B
    BY <1>1, <1>2, SMT
  <2> QED BY <2>1, <2>2
<1> DEFINE vx == B * g
           ux == q * n
<1>6. ux \in Int /\ (q = 0 => ux = 0) /\ (q >= 1 => ux >= n) /\ (q <= -1 => ux <= -n)
  <2>1. ux \in Int /\ (q = 0 => ux = 0) /\ (q >= 1 => ux >= n)
    BY SMT
  <2>2. q <= -1 => ux <= -n
    BY SMT
  <2> QED BY <2>1, <2>2
<1>7. low = ux /\ low = kx - vx /\ vx \in Nat /\ (g = 0 => vx = 0) /\ (g = 1 => vx = B) /\ (g >= 2 => vx >= 2 * B)
  BY <1>3, <1>4, <1>5
<1> HIDE DEF ux, vx
<1>8. CASE q = 0
  BY <1>6, <1>7, <1>8 DEF low
<1>9. CASE q >= 1
  BY <1>6, <1>7, <1>9 DEF low
<1>10. CASE q <= -1
  <2>1. low <= -n /\ n <= H /\ kx <= H
    BY <1>1, <1>2, <1>6, <1>7, <1>10
  <2>2. vx <= B
    BY <1>1, <1>2, <1>7, <2>1
  <2>3. g = 1
    BY <1>1, <1>2, <1>7, <2>1, <2>2
  <2>4. n = H
    BY <1>1, <1>2, <1>7, <2>1, <2>3
  <2>5. (2 * Q) % 2 = 0
    BY <1>1
  <2> QED BY <1>1, <2>4, <2>5
<1> QED BY <1>2, <1>8, <1>9, <1>10

\* The point T after the windows whose low bits are low: their sum, the zero the method
\* begins with, or infinity under a Z that is not zero, when the scalar is the order.
BaseSum(E, T, kx, low) ==
  \/ TimesBase(E, low) # AtInfinity /\ Represents(E, T, low)
  \/ low = 0 /\ T = Zero
  \/ low = kx /\ kx = E.n /\ Affine(E, T) = AtInfinity

\* Zero and the order lead to infinity.
LEMMA OrderAtInfinity ==
  ASSUME NEW E, Cyclic(E)
  PROVE  TimesBase(E, 0) = AtInfinity /\ TimesBase(E, E.n) = AtInfinity
<1> DEFINE n == E.n
<1>1. n \in Nat \ {0} /\ 0 \in Int
  BY CurveNumbers
<1> HIDE DEF n
<1>2. Alike(0, 0, n) /\ Alike(n, 0, n)
  <2>1. n = 0 + 1 * n
    BY <1>1
  <2> QED BY <1>1, <2>1, AlikeItself, 1 \in Int DEF Alike
<1> QED BY <1>1, <1>2, BaseFinite DEF n

\* In each case the affine point is the multiple.
LEMMA BaseSumStands ==
  ASSUME NEW E, Cyclic(E), PrimeField(E.p), NEW T, NEW kx, NEW low \in Int, BaseSum(E, T, kx, low)
  PROVE  Affine(E, T) = TimesBase(E, low)
<1>1. CASE TimesBase(E, low) # AtInfinity /\ Represents(E, T, low)
  BY <1>1, AffineMultiple
<1>2. CASE low = 0 /\ T = Zero
  BY <1>2, OrderAtInfinity DEF Affine, Zero
<1>3. CASE low = kx /\ kx = E.n /\ Affine(E, T) = AtInfinity
  BY <1>3, OrderAtInfinity
<1> QED BY <1>1, <1>2, <1>3 DEF BaseSum

\* Window 0.
LEMMA BaseFirst ==
  ASSUME NEW E, Multiplied(E), NEW w \in BaseWindows, NEW kx \in Nat, kx <= E.n
  PROVE  LET code == booth_recode(WindowAt(kx, 0, w), w)
             A    == select_affine_point(E, 0, code.digit)
         IN  BaseSum(E, Signed(E, << A[1], A[2], IF code.digit = 0 THEN 0 ELSE 1 >>, code.sign), kx, Low(kx, 0 + w))
<1> DEFINE code == booth_recode(WindowAt(kx, 0, w), w)
           A == select_affine_point(E, 0, code.digit)
           P == << A[1], A[2], IF code.digit = 0 THEN 0 ELSE 1 >>
           T == Signed(E, P, code.sign)
           low == Low(kx, 0 + w)
<1>1. w \in 2..7 /\ w \in Nat /\ 0 + w = w /\ w >= 2
  BY ScalarMulAssumption
<1>2. /\ Cyclic(E) /\ PrimeField(E.p) /\ E.n % 2 = 1 /\ E.n \in Nat \ {0} /\ E \in Curves
      /\ E.p \in Nat \ {0} /\ E.p > 3
  BY MultipliedCurve DEF PrimeField
<1>3. code.sign \in {0, 1} /\ code.digit \in 0..Power2[w - 1] /\ Power2[w - 1] \in Nat
  BY <1>1, WindowStep, PowerTyped, w - 1 \in Nat
<1>4. low = Recoded(code)
  <2>1. /\ Recoded(code) \in Int /\ low = Low(kx, 0) + Recoded(code) * Power2[0]
    BY <1>1, LowStep
  <2>2. Power2[0] = 1 /\ Low(kx, 0) = 0
    BY PowerSteps, HighFirst
  <2> HIDE DEF code, low
  <2> QED BY <2>1, <2>2
<1>5. A = TimesBase(E, code.digit)
  <2>1. Power2[0] = 1 /\ code.digit * 1 = code.digit
    BY <1>3, PowerSteps
  <2> HIDE DEF code
  <2> QED BY <2>1 DEF select_affine_point
<1> HIDE DEF code, A, low
<1> DEFINE d == code.digit
<1>6. d \in Int /\ -d \in Int /\ d \in Nat
  BY <1>3
<1>7. A \in (0..(E.p - 1)) \X (0..(E.p - 1)) /\ (A = AtInfinity <=> Alike(d, 0, E.n))
  BY <1>2, <1>5, <1>6, BaseFinite
<1>8. CASE d = 0
  <2>1. A = AtInfinity
    BY <1>2, <1>5, <1>8, OrderAtInfinity
  <2>2. P = << 0, 0, 0 >>
    BY <1>8, <2>1 DEF AtInfinity
  <2>4. T = << 0, 0, 0 >>
    <3> DEFINE p == E.p
    <3>1. p \in Nat \ {0}
      BY <1>2
    <3> HIDE DEF p
    <3>2. (-0) % p = 0
      BY <3>1
    <3> QED BY <1>3, <2>2, <3>2 DEF Signed, p
  <2>5. low = 0
    <3>1. low = d \/ low = -d
      BY <1>4 DEF Recoded
    <3>2. -d = 0 - d
      BY <1>6
    <3> HIDE DEF d
    <3> QED BY <1>6, <1>8, <3>1, <3>2
  <2> QED BY <2>4, <2>5 DEF BaseSum, Zero, low, A, code
<1>9. CASE d # 0 /\ A = AtInfinity
  <2>1. Alike(low, 0, E.n)
    <3>1. Alike(d, 0, E.n) /\ Alike(0, 0, E.n) /\ 0 \in Int
      BY <1>2, <1>7, <1>9, AlikeItself
    <3>2. Alike(0 - d, 0 - 0, E.n)
      BY <1>2, <1>6, <3>1, AlikeSum
    <3>3. low = d \/ low = 0 - d
      BY <1>4, <1>6 DEF Recoded
    <3>4. Alike(0 - d, 0, E.n)
      BY <3>2, 0 - 0 = 0
    <3> QED BY <3>1, <3>3, <3>4, Zenon
  <2>2. low # 0
    BY <1>4, <1>6, <1>9 DEF Recoded
  <2>3. low = kx /\ kx = E.n
    BY <1>1, <1>2, <2>1, <2>2, LowAtInfinity DEF low
  <2>4. P = << 0, 0, 1 >>
    BY <1>9 DEF AtInfinity
  <2>5. T = << 0, 0, 1 >>
    <3> DEFINE p == E.p
    <3>1. p \in Nat \ {0}
      BY <1>2
    <3> HIDE DEF p
    <3>2. (-0) % p = 0
      BY <3>1
    <3> QED BY <1>3, <2>4, <3>2 DEF Signed, p
  <2>6. Affine(E, << 0, 0, 1 >>) = AtInfinity
    <3> DEFINE p == E.p
               z == Inv(1, p)
               sx == (z * z) % p
               c == (z * sx) % p
    <3>1. p \in Nat \ {0} /\ z \in 1..(p - 1) /\ z \in Int
      BY <1>2, InverseIs
    <3>2. sx \in Int /\ c \in Int
      <4> HIDE DEF p, z
      <4>1. z * z \in Int
        BY <3>1
      <4>2. sx \in Int
        BY <3>1, <4>1
      <4> HIDE DEF sx
      <4>3. z * sx \in Int
        BY <3>1, <4>2
      <4>4. c \in Int
        BY <3>1, <4>3
      <4> QED BY <4>2, <4>4
    <3>3. Affine(E, << 0, 0, 1 >>) = << (0 * sx) % p, (0 * c) % p >>
      BY DEF Affine
    <3> HIDE DEF p, sx, c
    <3>4. 0 * sx = 0 /\ 0 * c = 0 /\ 0 % p = 0
      BY <3>1, <3>2
    <3> QED BY <3>3, <3>4 DEF AtInfinity
  <2> QED BY <2>3, <2>5, <2>6 DEF BaseSum, low, A, code
<1>10. CASE d # 0 /\ A # AtInfinity
  <2>1. P = << TimesBase(E, d)[1], TimesBase(E, d)[2], 1 >>
    BY <1>5, <1>10
  <2>2. Represents(E, P, d)
    BY <1>2, <1>5, <1>6, <1>10, <2>1, AffineStands
  <2> HIDE DEF P
  <2>3. CASE code.sign = 1
    <3>1. Represents(E, T, -d) /\ low = -d
      BY <1>2, <1>4, <1>6, <2>2, <2>3, SignedMultiple DEF Recoded
    <3>2. TimesBase(E, -d) # AtInfinity
      <4>1. SUFFICES ASSUME Alike(-d, 0, E.n) PROVE FALSE
        BY <1>2, <1>6, BaseFinite
      <4>2. Alike(0 - (-d), 0 - 0, E.n)
        BY <1>2, <1>6, <4>1, AlikeItself, AlikeSum, 0 \in Int
      <4> QED BY <1>6, <1>7, <1>10, <4>2, 0 - (-d) = d, 0 - 0 = 0
    <3> QED BY <3>1, <3>2 DEF BaseSum, low, A, code, P
  <2>4. CASE code.sign = 0
    <3>1. T = P /\ low = d
      BY <1>4, <2>4 DEF Recoded, Signed
    <3> QED BY <1>5, <1>10, <2>2, <3>1 DEF BaseSum, low, A, code, P
  <2> QED BY <1>3, <2>3, <2>4
<1> QED BY <1>8, <1>9, <1>10

\* A set bit is part of the scalar.
LEMMA BitWithin ==
  ASSUME NEW kx \in Nat, NEW b \in Nat \ {0}, BitBelow(kx, b) = 1
  PROVE  Power2[b - 1] <= kx
<1> DEFINE Q == Power2[b - 1]
<1>1. Q \in Nat \ {0}
  BY PowerTyped, b - 1 \in Nat
<1>2. (kx \div Q) % 2 = 1
  BY DEF BitBelow
<1> HIDE DEF Q
<1>3. SUFFICES ASSUME kx < Q PROVE FALSE
  BY <1>1 DEF Q
<1>4. kx = Q * 0 + kx /\ kx \in 0..(Q - 1)
  BY <1>1, <1>3
<1>5. kx \div Q = 0
  BY <1>1, <1>4, DivModOfSplit
<1> QED BY <1>2, <1>5

\* When the order itself has been summed up, no window adds to it.
LEMMA NothingAbove ==
  ASSUME NEW kx \in Nat, NEW b \in Nat, NEW w \in 2..7, Low(kx, b) = kx
  PROVE  Recoded(booth_recode(WindowAt(kx, b, w), w)) = 0 /\ Low(kx, b + w) = kx
<1> DEFINE B == Power2[b]
           W == Power2[w]
           H == Power2[w - 1]
           g == High(kx, b)
           h == High(kx, b + w)
           code == booth_recode(WindowAt(kx, b, w), w)
           sd == Recoded(code)
<1>1. B \in Nat \ {0} /\ W \in Nat \ {0} /\ H \in Nat \ {0} /\ W = 2 * H
  <2>1. w - 1 \in Nat /\ w \in Nat /\ (w - 1) + 1 = w
    OBVIOUS
  <2>2. Power2[(w - 1) + 1] = 2 * Power2[w - 1] /\ Power2[w - 1] \in Nat \ {0}
    BY <2>1, PowerNext
  <2> QED BY <2>1, <2>2, PowerTyped
<1>2. /\ code.sign \in {0, 1} /\ code.digit \in 0..H /\ sd \in Int
      /\ g = W * h + sd /\ g \in Nat /\ h \in Nat
  BY WindowStep
<1>3. Low(kx, b) = kx - B * g
  BY DEF Low
<1>4. Low(kx, b + w) = Low(kx, b) + sd * B
  BY LowStep
<1>5. sd <= H /\ -H <= sd
  <2> HIDE DEF code, H
  <2> QED BY <1>1, <1>2 DEF Recoded
<1> HIDE DEF B, W, H, g, h, code, sd
<1>6. g = 0
  <2>1. g # 0 => B * g >= 1
    BY <1>1, <1>2, SMT
  <2>2. B * g \in Int
    BY <1>1, <1>2, SMT
  <2> DEFINE vx == B * g
  <2>3. kx = kx - vx /\ vx \in Int /\ (g # 0 => vx >= 1)
    BY <1>3, <2>1, <2>2
  <2> HIDE DEF vx
  <2> QED BY <2>3
<1>7. h = 0
  <2>1. h # 0 => W * h >= W
    BY <1>1, <1>2, SMT
  <2>2. W * h \in Int
    BY <1>1, <1>2, SMT
  <2> DEFINE vx == W * h
  <2>3. vx + sd = 0 /\ vx \in Int /\ (h # 0 => vx >= W)
    BY <1>2, <1>6, <2>1, <2>2
  <2> HIDE DEF vx
  <2> QED BY <1>1, <1>2, <1>5, <2>3
<1>8. sd = 0
  <2>1. W * h = 0
    BY <1>1, <1>7
  <2> QED BY <1>2, <1>6, <2>1
<1>9. sd * B = 0
  BY <1>1, <1>8
<1> QED BY <1>4, <1>8, <1>9 DEF sd, code

\* Equal multiples differ by a multiple of the order.
LEMMA BaseApart ==
  ASSUME NEW E, Cyclic(E), NEW x \in Int, NEW y \in Int, TimesBase(E, x) = TimesBase(E, y)
  PROVE  Alike(x, y, E.n)
<1> DEFINE n == E.n
           ux == x % n
           vx == y % n
<1>1. n \in Nat \ {0}
  BY CurveNumbers
<1>2. /\ ux \in Nat /\ ux \in 0..(n - 1) /\ TimesBase(E, x) = TimesBase(E, ux)
      /\ vx \in Nat /\ vx \in 0..(n - 1) /\ TimesBase(E, y) = TimesBase(E, vx)
  BY BaseRests
<1>3. Same(ux, vx, n)
  BY <1>2, BaseTold
<1>4. ux = vx
  <2> HIDE DEF n, ux, vx
  <2>1. ux % n = ux /\ vx % n = vx
    BY <1>1, <1>2, ModOfSmall
  <2> QED BY <1>3, <2>1 DEF Same
<1> QED BY <1>1, <1>4, AlikeRests

\* Every other window.
LEMMA BaseNext ==
  ASSUME NEW E, Multiplied(E), NEW w \in BaseWindows, NEW kx \in Nat, kx <= E.n,
         NEW b \in Nat, b >= w, b % w = 0, b <= OrderBits(E),
         NEW T, BaseSum(E, T, kx, Low(kx, b))
  PROVE  LET code == booth_recode(WindowAt(kx, b, w), w)
             A    == select_affine_point(E, b, code.digit)
         IN  BaseSum(E, gfec_affine_point_add(E, T, Signed(E, A, code.sign)), kx, Low(kx, b + w))
<1> DEFINE n == E.n
           B == Power2[b]
           Q == Power2[b - 1]
           H == Power2[w - 1]
           code == booth_recode(WindowAt(kx, b, w), w)
           d == code.digit
           A == select_affine_point(E, b, d)
           S == Signed(E, A, code.sign)
           R == gfec_affine_point_add(E, T, S)
           low == Low(kx, b)
           next == Low(kx, b + w)
           top == d * B
           j == Recoded(code) * B
<1>1. w \in 2..7 /\ w \in Nat /\ w >= 2 /\ b \in Nat \ {0} /\ b >= 2 /\ w - 1 \in Nat /\ b - 1 \in Nat
      /\ b + w \in Nat \ {0} /\ b + w >= 2 /\ (b - 1) + 1 = b /\ (b + w) - 1 = b + (w - 1)
  BY ScalarMulAssumption
<1>2. /\ Cyclic(E) /\ PrimeField(E.p) /\ n % 2 = 1 /\ n \in Nat \ {0} /\ E \in Curves
      /\ NoDoubling(E, w)
  BY MultipliedCurve
<1>3. B = 2 * Q /\ Q \in Nat \ {0} /\ B \in Nat \ {0} /\ H \in Nat \ {0}
      /\ Power2[(b + w) - 1] = B * H /\ Power2[b + w] \in Nat \ {0}
  <2>1. Power2[(b - 1) + 1] = 2 * Power2[b - 1] /\ Power2[b - 1] \in Nat \ {0}
    BY <1>1, PowerNext
  <2>2. Power2[b + (w - 1)] = Power2[b] * Power2[w - 1]
    BY <1>1, PowerSum
  <2> QED BY <1>1, <2>1, <2>2, PowerTyped
<1>4. /\ code.sign \in {0, 1} /\ code.sign = BitBelow(kx, b + w) /\ d \in 0..H /\ Recoded(code) \in Int
      /\ High(kx, b + w) \in Nat
  <2>1. w \in 2..7
    BY <1>1
  <2> HIDE DEF B, Q, A, S, R, low, next, top, j, n
  <2> QED BY <2>1, WindowStep
<1>5. low \in Int /\ next \in Int /\ j \in Int /\ next = low + j
  BY <1>1, LowStep
<1>6. -Q <= low /\ low <= Q
  BY <1>1, LowIs
<1>7. d \in Int /\ top \in Nat /\ (d # 0 => top >= B)
      /\ (code.sign = 1 => j = -top) /\ (code.sign = 0 => j = top)
  <2> HIDE DEF code, B, H
  <2>1. d \in Nat
    BY <1>3, <1>4
  <2>2. top \in Nat /\ (d # 0 => top >= B)
    BY <1>3, <2>1, SMT
  <2>3. code.sign = 1 => j = -top
    <3>1. (-d) * B = -(d * B)
      BY <1>3, <2>1, SMT
    <3> QED BY <3>1 DEF Recoded
  <2> QED BY <2>1, <2>2, <2>3 DEF Recoded
<1>8. A = TimesBase(E, top)
  BY DEF select_affine_point
<1> HIDE DEF A, S, R, low, next, top, j
<1>9. S = TimesBase(E, j)
  <2>1. top \in Int
    BY <1>7
  <2>2. CASE code.sign = 1
    BY <1>2, <1>7, <1>8, <2>1, <2>2, SignedAffine DEF S
  <2>3. CASE code.sign = 0
    <3>1. S = A
      BY <2>3 DEF S, Signed
    <3> QED BY <1>7, <1>8, <2>3, <3>1
  <2> QED BY <1>4, <2>2, <2>3
<1>10. CASE S = AtInfinity
  <2>1. R = T
    BY <1>10, Zenon DEF R, gfec_affine_point_add
  <2>2. TimesBase(E, next) = TimesBase(E, low)
    <3>1. TimesBase(E, next) = Plus(E, TimesBase(E, low), TimesBase(E, j))
      BY <1>2, <1>5, BasePlus
    <3>2. TimesBase(E, next) = Plus(E, TimesBase(E, low), AtInfinity)
      BY <1>9, <1>10, <3>1
    <3> QED BY <3>2 DEF Plus
  <2>3. CASE TimesBase(E, low) # AtInfinity /\ Represents(E, T, low)
    <3>1. Represents(E, R, next)
      BY <2>1, <2>2, <2>3, RepresentsToo
    <3> QED BY <2>2, <2>3, <3>1 DEF BaseSum, R, S, A, next
  <2>4. CASE low = 0 /\ T = Zero
    <3>1. TimesBase(E, next) = AtInfinity
      BY <1>2, <2>2, <2>4, OrderAtInfinity
    <3>2. Alike(next, 0, n)
      BY <1>2, <1>5, <3>1, BaseFinite
    <3>3. next = 0 \/ (next = kx /\ kx = n)
      BY <1>1, <1>2, <3>2, LowAtInfinity DEF next
    <3>4. CASE next = 0
      BY <2>1, <2>4, <3>4 DEF BaseSum, R, S, A, next
    <3>5. CASE next = kx /\ kx = n
      <4>1. Affine(E, R) = AtInfinity
        BY <2>1, <2>4 DEF Affine, Zero
      <4> QED BY <3>5, <4>1 DEF BaseSum, R, S, A, next
    <3> QED BY <3>3, <3>4, <3>5
  <2>5. CASE low = kx /\ kx = n /\ Affine(E, T) = AtInfinity
    <3>1. next = kx
      BY <1>1, <2>5, NothingAbove DEF low, next
    <3> QED BY <2>1, <2>5, <3>1 DEF BaseSum, R, S, A, next
  <2> QED BY <2>3, <2>4, <2>5 DEF BaseSum, low
<1>11. CASE S # AtInfinity
  <2>1. d # 0
    <3>1. SUFFICES ASSUME d = 0 PROVE FALSE
      OBVIOUS
    <3>2. top = 0
      <4> HIDE DEF B
      <4> QED BY <1>3, <3>1 DEF top
    <3>3. j = 0
      BY <1>4, <1>7, <3>2
    <3> QED BY <1>2, <1>9, <1>11, <3>3, OrderAtInfinity
  <2> HIDE DEF d
  <2>2. top > Q /\ top \in Nat
    BY <1>3, <1>7, <2>1
  <2>3. CASE low = kx /\ kx = n /\ Affine(E, T) = AtInfinity
    <3>1. next = kx
      BY <1>1, <2>3, NothingAbove DEF low, next
    <3>2. j = 0
      BY <1>5, <2>3, <3>1
    <3> QED BY <1>2, <1>9, <1>11, <3>2, OrderAtInfinity
  <2>4. CASE low = 0 /\ T = Zero
    <3>1. R = << S[1], S[2], 1 >>
      BY <1>11, <2>4 DEF R, gfec_affine_point_add, Zero
    <3>2. Represents(E, R, j)
      BY <1>2, <1>5, <1>9, <1>11, <3>1, AffineStands
    <3>3. next = j
      BY <1>5, <2>4
    <3> QED BY <1>9, <1>11, <3>2, <3>3 DEF BaseSum, R, S, A, d, next
  <2>5. CASE TimesBase(E, low) # AtInfinity /\ Represents(E, T, low)
    <3>1. ~Alike(low, 0, n)
      BY <1>2, <1>5, <2>5, BaseFinite
    <3>2. IF top < n THEN top + Q < n ELSE top <= n + Q => top + Q < 2 * n
      <4>1. d \in 1..Power2[w - 1] /\ b \in w..OrderBits(E) /\ b % w = 0
        <5>1. OrderBits(E) \in Nat
          BY MultipliedCurve
        <5> QED BY <1>1, <1>3, <1>4, <2>1, <5>1 DEF d
      <4> QED BY <1>2, <4>1 DEF NoDoubling, top
    <3>3. (low + top <= kx => ~Alike(low, top, n)) /\ (top <= kx => ~Alike(low, -top, n))
      BY <1>2, <1>3, <1>5, <1>6, <2>2, <3>1, <3>2, SumsDiffer
    <3>4. ~Alike(low, j, n)
      <4>1. CASE code.sign = 0
        <5>1. low + top = next
          BY <1>5, <1>7, <4>1
        <5>2. next <= kx
          <6> DEFINE h == High(kx, b + w)
                     P == Power2[b + w]
          <6>1. next = kx - P * h
            BY DEF Low, next
          <6> HIDE DEF h, P
          <6>2. h \in Nat /\ P \in Nat
            BY <1>3, <1>4 DEF h, P
          <6>3. P * h \in Nat
            BY <6>2, SMT
          <6> DEFINE vx == P * h
          <6>4. next = kx - vx /\ vx \in Nat
            BY <6>1, <6>3
          <6> HIDE DEF vx
          <6> QED BY <6>4
        <5> QED BY <1>7, <3>3, <4>1, <5>1, <5>2
      <4>2. CASE code.sign = 1
        <5>1. B * H <= kx
          BY <1>1, <1>3, <1>4, <4>2, BitWithin
        <5>2. top <= B * H
          <6> HIDE DEF B, H
          <6>1. d \in Nat /\ d <= H
            BY <1>3, <1>4 DEF d
          <6>2. d * B <= B * H
            BY <1>3, <6>1, SMT
          <6> QED BY <6>2 DEF top
        <5>3. B * H \in Int
          <6> HIDE DEF B, H
          <6> QED BY <1>3, SMT
        <5> DEFINE vx == B * H
        <5>4. vx <= kx /\ top <= vx /\ vx \in Int
          BY <5>1, <5>2, <5>3
        <5> HIDE DEF vx
        <5>5. top <= kx
          BY <2>2, <5>4
        <5> QED BY <1>7, <3>3, <4>2, <5>5
      <4> QED BY <1>4, <4>1, <4>2
    <3>5. TimesBase(E, low) # TimesBase(E, j)
      <4>1. SUFFICES ASSUME TimesBase(E, low) = TimesBase(E, j) PROVE FALSE
        OBVIOUS
      <4> QED BY <1>2, <1>5, <3>4, <4>1, BaseApart
    <3>6. Represents(E, R, next)
      <4>1. Represents(E, gfec_affine_point_add(E, T, TimesBase(E, j)), low + j)
        BY <1>2, <1>5, <1>9, <1>11, <2>5, <3>5, AffineMultiples
      <4> QED BY <1>5, <1>9, <4>1, Zenon DEF R
    <3>7. CASE TimesBase(E, next) # AtInfinity
      BY <3>6, <3>7 DEF BaseSum, R, S, A, d, next
    <3>8. CASE TimesBase(E, next) = AtInfinity
      <4>1. Alike(next, 0, n)
        BY <1>2, <1>5, <3>8, BaseFinite
      <4>2. next # 0
        BY <1>3, <1>4, <1>5, <1>6, <1>7, <2>2
      <4>3. next = kx /\ kx = n
        BY <1>1, <1>2, <4>1, <4>2, LowAtInfinity DEF next
      <4>4. Affine(E, R) = AtInfinity
        BY <3>6, <3>8 DEF Represents, Affine
      <4> QED BY <4>3, <4>4 DEF BaseSum, R, S, A, d, next
    <3> QED BY <3>7, <3>8
  <2> QED BY <2>3, <2>4, <2>5 DEF BaseSum, low
<1> QED BY <1>10, <1>11

-----------------------------------------------------------------------------
(* The windows' inductive invariant.                                       *)

\* The lowest bit of the next window from the top.
WindowBelow(b) == IF b < 5 THEN 0 ELSE b

\* The point stands for the rounded quotients by the lowest bit of the windows taken.
FromTop ==
  /\ emBit = -5 \/ (emBit \in Nat /\ emBit % 5 = 0)
  /\ Represents(emCall.E, emT, High(emCall.k, WindowBelow(emBit) + 5) + 2 * High(emCall.l, WindowBelow(emBit) + 5))

\* The point is the sum of the windows below emBit.
FromBottom ==
  /\ emBit \in Nat /\ emBit >= emCall.w /\ emBit % emCall.w = 0
  /\ BaseSum(emCall.E, emT, emCall.k, Low(emCall.k, emBit))

\* The call under way: its curve is one of those, its scalars are no greater than the order.
ScalarsKept ==
  /\ Multiplied(emCall.E)
  /\ emCall.k \in Nat /\ emCall.k <= emCall.E.n /\ emCall.l \in Nat /\ emCall.l <= emCall.E.n
  /\ emCall.fn \in {"gfec_point_mul", "gfec_base_point_mul", "gfec_point_prod"}
  /\ emCall.fn # "gfec_point_prod" => emCall.l = 0
  /\ emCall.fn = "gfec_base_point_mul" => emCall.w \in BaseWindows

EmInv ==
  /\ emTask \in {"idle", "first", "loop", "done"}
  /\ emTask # "idle" => ScalarsKept
  /\ emTask = "loop" /\ emCall.fn # "gfec_base_point_mul" => FromTop
  /\ emTask = "loop" /\ emCall.fn = "gfec_base_point_mul" => FromBottom
  /\ emTask = "done" => Affine(emCall.E, emT) = TimesBase(emCall.E, emCall.k + 2 * emCall.l)

\* The window sizes of the base point's tables are small.
LEMMA WindowSizes ==
  ASSUME NEW w \in BaseWindows
  PROVE  w \in 2..7 /\ w \in Nat \ {0}
BY ScalarMulAssumption

\* Before a call there is nothing to hold.
LEMMA EmInitHolds == ScalarMulInit => EmInv
BY DEF ScalarMulInit, EmInv

\* A call comes with a curve and scalars of its range.
LEMMA CallKeepsEm ==
  ASSUME CallScalarMul
  PROVE  EmInv'
<1>1. emTask' = "first"
  BY DEF CallScalarMul
<1>2. CASE CallPointMul
  <2>0. PICK E \in MulCurves : \E kx \in 0..E.n :
          emCall' = [fn |-> "gfec_point_mul", E |-> E, w |-> WINDOW_SIZE, k |-> kx, l |-> 0]
    BY <1>2 DEF CallPointMul
  <2>1. PICK kx \in 0..E.n :
          emCall' = [fn |-> "gfec_point_mul", E |-> E, w |-> WINDOW_SIZE, k |-> kx, l |-> 0]
    BY <2>0
  <2>2. Multiplied(E)
    BY DEF Multiplied
  <2>3. E.n \in Nat
    BY <2>2, MultipliedCurve
  <2> QED BY <1>1, <2>1, <2>2, <2>3 DEF EmInv, ScalarsKept, Multiplied
<1>3. CASE CallBasePointMul
  <2>0. PICK E \in MulCurves, w \in BaseWindows : \E kx \in 0..E.n :
          emCall' = [fn |-> "gfec_base_point_mul", E |-> E, w |-> w, k |-> kx, l |-> 0]
    BY <1>3 DEF CallBasePointMul
  <2>1. PICK kx \in 0..E.n :
          emCall' = [fn |-> "gfec_base_point_mul", E |-> E, w |-> w, k |-> kx, l |-> 0]
    BY <2>0
  <2>2. Multiplied(E)
    BY DEF Multiplied
  <2>3. E.n \in Nat
    BY <2>2, MultipliedCurve
  <2> QED BY <1>1, <2>1, <2>2, <2>3 DEF EmInv, ScalarsKept, Multiplied
<1>4. CASE CallPointProd
  <2>0. PICK E \in PairCurves : \E kx, l \in 0..(E.n - 1) :
          emCall' = [fn |-> "gfec_point_prod", E |-> E, w |-> WINDOW_SIZE, k |-> kx, l |-> l]
    BY <1>4 DEF CallPointProd
  <2>1. PICK kx \in 0..(E.n - 1), l \in 0..(E.n - 1) :
          emCall' = [fn |-> "gfec_point_prod", E |-> E, w |-> WINDOW_SIZE, k |-> kx, l |-> l]
    BY <2>0
  <2>2. Multiplied(E)
    BY DEF Multiplied
  <2>3. E.n \in Nat
    BY <2>2, MultipliedCurve
  <2> QED BY <1>1, <2>1, <2>2, <2>3 DEF EmInv, ScalarsKept, Multiplied
<1> QED BY <1>2, <1>3, <1>4 DEF CallScalarMul

\* The first window leaves its quotients.
LEMMA FirstFromTopKeeps ==
  ASSUME EmInv, FirstFromTop
  PROVE  EmInv'
<1> DEFINE E   == emCall.E
           kx   == emCall.k
           l   == emCall.l
           o   == OrderBits(E)
           bit == TopBit(o)
           b   == IF bit = 0 THEN 5 ELSE bit
           A   == FirstEntry(E, 1, kx, bit)
           B   == FirstEntry(E, 2, l, bit)
<1>1. /\ emTask' = "loop" /\ emCall' = emCall /\ emBit' = bit - 5
      /\ emCall.fn \in {"gfec_point_mul", "gfec_point_prod"} /\ emCall.fn # "gfec_base_point_mul"
      /\ emT' = IF emCall.fn = "gfec_point_mul" THEN A ELSE gfec_point_add(E, A, B)
  BY DEF FirstFromTop, WINDOW_SIZE
<1>2. ScalarsKept /\ ScalarsKept'
  BY <1>1 DEF EmInv, FirstFromTop, ScalarsKept
<1>3. /\ Multiplied(E) /\ kx \in Nat /\ kx <= E.n /\ l \in Nat /\ l <= E.n
      /\ emCall.fn # "gfec_point_prod" => l = 0
  BY <1>2 DEF ScalarsKept
<1>4. Cyclic(E) /\ PrimeField(E.p) /\ o \in Nat \ {0}
  BY <1>3, MultipliedCurve
<1>5. bit \in Nat /\ bit % 5 = 0 /\ b \in Nat
  <2>1. bit = o - (o % 5)
    BY DEF TopBit, WINDOW_SIZE
  <2> HIDE DEF bit, o
  <2>2. bit \in Nat /\ bit % 5 = 0
    BY <1>4, <2>1
  <2> QED BY <2>2
<1>6. Represents(E, A, High(kx, b) * 1) /\ Represents(E, B, High(l, b) * 2)
  BY <1>3, FirstEntryMultiple
<1>7. High(kx, b) \in Nat /\ High(l, b) \in Nat
  BY <1>3, <1>5, WindowStep, 5 \in 2..7
<1> HIDE DEF E, kx, l, o, bit, A, B, b
<1> DEFINE g == High(kx, b)
           h == High(l, b)
<1> HIDE DEF g, h
<1>8. Represents(E, A, g) /\ Represents(E, B, 2 * h) /\ g \in Int /\ 2 * h \in Int /\ h \in Int
  <2>1. High(kx, b) * 1 = g /\ High(l, b) * 2 = 2 * h /\ g \in Int /\ h \in Int /\ 2 * h \in Int
    BY <1>7 DEF g, h
  <2> QED BY <1>6, <2>1
<1>9. Represents(E, emT', g + 2 * h)
  <2>1. CASE emCall.fn = "gfec_point_mul"
    <3>1. l = 0
      BY <1>3, <2>1
    <3>2. h = 0
      BY <1>5, <3>1, HighFirst, 0 \in Nat DEF h
    <3>3. g + 2 * h = g
      BY <1>8, <3>2
    <3> QED BY <1>1, <1>8, <2>1, <3>3
  <2>2. CASE emCall.fn = "gfec_point_prod"
    <3>1. Represents(E, gfec_point_add(E, A, B), g + 2 * h)
      BY <1>4, <1>8, AddMultiples
    <3> QED BY <1>1, <2>2, <3>1
  <2> QED BY <1>1, <2>1, <2>2
<1>10. FromTop'
  <2> DEFINE next == WindowBelow(emBit')
  <2>1. emBit' = -5 \/ (emBit' \in Nat /\ emBit' % 5 = 0)
    BY <1>1, <1>5
  <2>2. next + 5 = b
    BY <1>1, <1>5 DEF b, WindowBelow
  <2>3. emCall'.E = E /\ emCall'.k = kx /\ emCall'.l = l
    BY <1>1 DEF E, kx, l
  <2> HIDE DEF next
  <2>4. High(emCall'.k, next + 5) + 2 * High(emCall'.l, next + 5) = g + 2 * h
    BY <2>2, <2>3 DEF g, h
  <2>5. Represents(emCall'.E, emT', High(emCall'.k, next + 5) + 2 * High(emCall'.l, next + 5))
    BY <1>9, <2>3, <2>4
  <2> QED BY <2>1, <2>5 DEF FromTop, next
<1> QED BY <1>1, <1>2, <1>10 DEF EmInv

\* Every window brings the quotients down to it; below the last one they are the scalars.
LEMMA NextFromTopKeeps ==
  ASSUME EmInv, NextFromTop
  PROVE  EmInv'
<1> DEFINE E   == emCall.E
           kx   == emCall.k
           l   == emCall.l
           bit == WindowBelow(emBit)
           D   == Double5(E, emT)
           A   == AddWindow(E, 1, D, kx, bit)
           B   == AddWindow(E, 2, A, l, bit)
           sk  == Recoded(booth_recode(WindowAt(kx, bit, 5), 5))
           sl  == Recoded(booth_recode(WindowAt(l, bit, 5), 5))
           gk  == High(kx, bit)
           gl  == High(l, bit)
           hk  == High(kx, bit + 5)
           hl  == High(l, bit + 5)
<1>1. /\ emTask' = (IF bit = 0 THEN "done" ELSE "loop") /\ emCall' = emCall /\ emBit' = bit - 5
      /\ emCall.fn \in {"gfec_point_mul", "gfec_point_prod"} /\ emCall.fn # "gfec_base_point_mul"
      /\ emT' = (IF emCall.fn = "gfec_point_mul" THEN A ELSE B)
      /\ emTask = "loop"
  BY DEF NextFromTop, WindowBelow, WINDOW_SIZE
<1>2. ScalarsKept /\ ScalarsKept' /\ FromTop
  BY <1>1 DEF EmInv, ScalarsKept
<1>3. /\ Multiplied(E) /\ kx \in Nat /\ l \in Nat /\ (emCall.fn # "gfec_point_prod" => l = 0)
  BY <1>2 DEF ScalarsKept
<1>4. Cyclic(E) /\ PrimeField(E.p)
  BY <1>3, MultipliedCurve
<1>5. bit \in Nat /\ bit % 5 = 0 /\ Represents(E, emT, hk + 2 * hl)
  <2>1. emBit = -5 \/ (emBit \in Nat /\ emBit % 5 = 0)
    BY <1>2 DEF FromTop
  <2>2. Represents(E, emT, hk + 2 * hl)
    BY <1>2 DEF FromTop
  <2>3. bit \in Nat /\ bit % 5 = 0
    <3>1. CASE emBit = -5
      BY <3>1, 0 % 5 = 0, -5 < 5 DEF WindowBelow
    <3>2. CASE emBit \in Nat /\ emBit % 5 = 0
      BY <3>2, 0 % 5 = 0 DEF WindowBelow
    <3> QED BY <2>1, <3>1, <3>2
  <2> QED BY <2>2, <2>3
<1>6. /\ gk = 32 * hk + sk /\ gk \in Nat /\ hk \in Nat /\ sk \in Int
      /\ gl = 32 * hl + sl /\ gl \in Nat /\ hl \in Nat /\ sl \in Int
  <2>1. Power2[5] = 32 /\ 5 \in 2..7
    BY SmallPowers
  <2>2. gk = Power2[5] * hk + sk /\ gk \in Nat /\ hk \in Nat /\ sk \in Int
    BY <1>3, <1>5, <2>1, WindowStep
  <2>3. gl = Power2[5] * hl + sl /\ gl \in Nat /\ hl \in Nat /\ sl \in Int
    BY <1>3, <1>5, <2>1, WindowStep
  <2> QED BY <2>1, <2>2, <2>3
<1>7. l = 0 => gl = 0 /\ hl = 0
  BY <1>5, HighFirst, 0 \in Nat
<1>8. \A T : \A tx \in Int : Represents(E, T, tx) =>
        /\ Represents(E, AddWindow(E, 1, T, kx, bit), tx + sk * 1)
        /\ Represents(E, AddWindow(E, 2, T, l, bit), tx + sl * 2)
  BY <1>3, <1>4, <1>5, AddWindowMultiple
<1>9. Represents(E, D, 32 * (hk + 2 * hl))
  BY <1>4, <1>5, <1>6, hk + 2 * hl \in Int, Double5Multiple
<1> DEFINE x == 32 * (hk + 2 * hl)
<1>10. Represents(E, A, x + sk * 1) /\ x \in Int
  BY <1>6, <1>8, <1>9
<1>11. x + sk * 1 \in Int
  BY <1>6
<1>12. Represents(E, B, (x + sk * 1) + sl * 2)
  BY <1>8, <1>10, <1>11
<1>13. (x + sk * 1) + sl * 2 = gk + 2 * gl /\ (l = 0 => x + sk * 1 = gk + 2 * gl)
  BY <1>6, <1>7
<1> HIDE DEF E, kx, l, bit, D, A, B, sk, sl, gk, gl, hk, hl, x
<1>14. Represents(E, emT', gk + 2 * gl)
  BY <1>1, <1>3, <1>10, <1>12, <1>13
<1>15. emCall'.E = E /\ emCall'.k = kx /\ emCall'.l = l
  BY <1>1 DEF E, kx, l
<1>16. CASE bit = 0
  <2>1. gk = kx /\ gl = l
    BY <1>3, <1>16, HighFirst DEF gk, gl
  <2>2. Affine(E, emT') = TimesBase(E, kx + 2 * l)
    BY <1>3, <1>4, <1>14, <2>1, kx + 2 * l \in Int, AffineMultiple
  <2> QED BY <1>1, <1>2, <1>15, <1>16, <2>2 DEF EmInv
<1>17. CASE bit # 0
  <2> DEFINE next == WindowBelow(emBit')
  <2>1. emBit' \in Nat /\ emBit' % 5 = 0
    BY <1>1, <1>5, <1>17
  <2>2. next + 5 = bit
    BY <1>1, <1>5, <1>17 DEF WindowBelow
  <2> HIDE DEF next
  <2>3. High(emCall'.k, next + 5) + 2 * High(emCall'.l, next + 5) = gk + 2 * gl
    BY <1>15, <2>2 DEF gk, gl
  <2>4. Represents(emCall'.E, emT', High(emCall'.k, next + 5) + 2 * High(emCall'.l, next + 5))
    BY <1>14, <1>15, <2>3
  <2>5. FromTop'
    BY <2>1, <2>4 DEF FromTop, next
  <2> QED BY <1>1, <1>2, <1>17, <2>5 DEF EmInv
<1> QED BY <1>16, <1>17

\* Window 0 is a sum.
LEMMA FirstFromBottomKeeps ==
  ASSUME EmInv, FirstFromBottom
  PROVE  EmInv'
<1>1. /\ emTask' = "loop" /\ emCall' = emCall /\ emBit' = emCall.w
      /\ emCall.fn = "gfec_base_point_mul" /\ emTask = "first"
  BY DEF FirstFromBottom
<1>2. ScalarsKept /\ ScalarsKept'
  BY <1>1 DEF EmInv, ScalarsKept
<1>3. /\ Multiplied(emCall.E) /\ emCall.k \in Nat /\ emCall.k <= emCall.E.n /\ emCall.w \in BaseWindows
      /\ emCall.w \in Nat \ {0}
  <2>1. /\ Multiplied(emCall.E) /\ emCall.k \in Nat /\ emCall.k <= emCall.E.n /\ emCall.w \in BaseWindows
    BY <1>1, <1>2 DEF ScalarsKept
  <2> QED BY <2>1, WindowSizes
<1>4. BaseSum(emCall.E, emT', emCall.k, Low(emCall.k, 0 + emCall.w))
  BY <1>3, BaseFirst DEF FirstFromBottom
<1>5. 0 + emCall.w = emCall.w /\ emCall.w % emCall.w = 0
  BY <1>3
<1>6. FromBottom'
  BY <1>1, <1>3, <1>4, <1>5 DEF FromBottom
<1> QED BY <1>1, <1>2, <1>6 DEF EmInv

\* Every window adds its own; past the order's bits there is no more.
LEMMA NextFromBottomKeeps ==
  ASSUME EmInv, NextFromBottom
  PROVE  EmInv'
<1> DEFINE E == emCall.E
           kx == emCall.k
           w == emCall.w
<1>1. emCall' = emCall /\ emCall.fn = "gfec_base_point_mul" /\ emTask = "loop"
  BY DEF NextFromBottom
<1>2. ScalarsKept /\ ScalarsKept' /\ FromBottom
  BY <1>1 DEF EmInv, ScalarsKept
<1>3. /\ Multiplied(E) /\ kx \in Nat /\ kx <= E.n /\ w \in BaseWindows /\ w \in Nat \ {0} /\ emCall.l = 0
      /\ emBit \in Nat /\ emBit >= w /\ emBit % w = 0 /\ BaseSum(E, emT, kx, Low(kx, emBit))
      /\ w \in 2..7
  <2>1. /\ Multiplied(E) /\ kx \in Nat /\ kx <= E.n /\ w \in BaseWindows /\ emCall.l = 0
        /\ emBit \in Nat /\ emBit >= w /\ emBit % w = 0 /\ BaseSum(E, emT, kx, Low(kx, emBit))
    BY <1>1, <1>2 DEF ScalarsKept, FromBottom
  <2> HIDE DEF E, kx, w
  <2> QED BY <2>1, WindowSizes
<1>4. CASE emBit <= OrderBits(E)
  <2>1. /\ emTask' = "loop" /\ emBit' = emBit + w
        /\ BaseSum(E, emT', kx, Low(kx, emBit + w))
    <3>1. /\ emTask' = "loop" /\ emBit' = emBit + w
          /\ emT' = LET code == booth_recode(WindowAt(kx, emBit, w), w)
                        A    == select_affine_point(E, emBit, code.digit)
                    IN  gfec_affine_point_add(E, emT, Signed(E, A, code.sign))
      BY <1>1, <1>4 DEF NextFromBottom
    <3> HIDE DEF E, kx, w
    <3> QED BY <1>3, <1>4, <3>1, BaseNext
  <2>2. (emBit + w) % w = 0 /\ emBit + w \in Nat /\ emBit + w >= w
    <3> HIDE DEF w
    <3>1. (emBit + w) % w = emBit % w
      <4>1. 1 * w = w /\ 1 \in Int
        BY <1>3
      <4>2. Alike(emBit + w, emBit, w)
        BY <4>1 DEF Alike
      <4> QED BY <1>3, <4>2, AlikeRests, emBit + w \in Int, emBit \in Int
    <3> QED BY <1>3, <3>1
  <2>3. FromBottom'
    BY <1>1, <2>1, <2>2 DEF FromBottom
  <2> QED BY <1>1, <1>2, <2>1, <2>3 DEF EmInv
<1>5. CASE ~(emBit <= OrderBits(E))
  <2>1. emTask' = "done" /\ emT' = emT
    BY <1>1, <1>5 DEF NextFromBottom
  <2>2. Low(kx, emBit) = kx
    <3> DEFINE o == OrderBits(E)
               P == Power2[o]
    <3>1. o \in Nat /\ E.n < P /\ E.n \in Nat /\ P \in Nat
      BY <1>3, MultipliedCurve, PowerTyped
    <3> HIDE DEF o, P
    <3>2. kx < P /\ emBit >= o + 1
      BY <1>3, <1>5, <3>1 DEF o
    <3> HIDE DEF kx
    <3> QED BY <1>3, <3>1, <3>2, HighAbove DEF P
  <2>3. Affine(E, emT) = TimesBase(E, kx)
    <3>1. Cyclic(E) /\ PrimeField(E.p) /\ kx \in Int
      BY <1>3, MultipliedCurve
    <3> HIDE DEF E, kx
    <3> QED BY <1>3, <2>2, <3>1, BaseSumStands
  <2>4. kx + 2 * emCall.l = kx
    BY <1>3
  <2>5. Affine(emCall'.E, emT') = TimesBase(emCall'.E, emCall'.k + 2 * emCall'.l)
    BY <1>1, <2>1, <2>3, <2>4
  <2> QED BY <1>1, <1>2, <2>1, <2>5 DEF EmInv
<1> QED BY <1>4, <1>5

\* Every step keeps the invariant.
LEMMA EmStep == EmInv /\ [ScalarMulNext]_emVars => EmInv'
<1> SUFFICES ASSUME EmInv, [ScalarMulNext]_emVars PROVE EmInv'
  OBVIOUS
<1>1. CASE CallScalarMul
  BY <1>1, CallKeepsEm
<1>2. CASE FirstFromTop
  BY <1>2, FirstFromTopKeeps
<1>3. CASE NextFromTop
  BY <1>3, NextFromTopKeeps
<1>4. CASE FirstFromBottom
  BY <1>4, FirstFromBottomKeeps
<1>5. CASE NextFromBottom
  BY <1>5, NextFromBottomKeeps
<1>6. CASE ReturnProduct
  BY <1>6 DEF ReturnProduct, EmInv
<1>7. CASE UNCHANGED emVars
  BY <1>7 DEF emVars, EmInv, ScalarsKept, FromTop, FromBottom
<1> QED BY <1>1, <1>2, <1>3, <1>4, <1>5, <1>6, <1>7 DEF ScalarMulNext

\* In every reachable state the point is the one the windows taken so far make.
THEOREM WindowsInvariance == ScalarMulSpec => []EmInv
<1>1. ScalarMulInit => EmInv
  BY EmInitHolds
<1> QED BY <1>1, EmStep, PTL DEF ScalarMulSpec

\* On every curve of odd prime order with the group law, in every prime field and for every
\* scalar up to the order and pair of scalars, gfec_point_mul, gfec_base_point_mul and
\* gfec_point_prod compute the product the group law gives, by signed windows in Jacobian
\* coordinates; no two equal points meet where the affine addition does not look for them.
THEOREM ScalarProductAlways == ScalarMulSpec => []ScalarProduct
<1>1. EmInv => ScalarProduct
  <2>1. ASSUME EmInv, emTask = "loop", emCall.fn = "gfec_base_point_mul"
        PROVE  LET low == emCall.k % Power2[emBit]
               IN  Affine(emCall.E, emT)
                     = TimesBase(emCall.E, IF low >= Power2[emBit - 1] THEN low - Power2[emBit] ELSE low)
    <3> DEFINE E == emCall.E
               kx == emCall.k
               low == kx % Power2[emBit]
    <3>1. /\ Multiplied(E) /\ kx \in Nat /\ emBit \in Nat \ {0} /\ BaseSum(E, emT, kx, Low(kx, emBit))
      <4>1. /\ Multiplied(E) /\ kx \in Nat /\ emBit \in Nat /\ BaseSum(E, emT, kx, Low(kx, emBit))
            /\ emBit >= emCall.w /\ emCall.w \in BaseWindows
        BY <2>1 DEF EmInv, ScalarsKept, FromBottom
      <4>2. emCall.w \in Nat \ {0}
        BY <4>1, WindowSizes
      <4> QED BY <4>1, <4>2
    <3> HIDE DEF E, kx
    <3>2. /\ Low(kx, emBit) \in Int
          /\ Low(kx, emBit) = (IF low >= Power2[emBit - 1] THEN low - Power2[emBit] ELSE low)
      BY <3>1, LowIs
    <3>3. Affine(E, emT) = TimesBase(E, Low(kx, emBit))
      BY <3>1, <3>2, MultipliedCurve, BaseSumStands
    <3> QED BY <3>2, <3>3 DEF E, kx
  <2> QED BY <2>1 DEF EmInv, ScalarProduct
<1> QED BY <1>1, WindowsInvariance, PTL
=============================================================================
