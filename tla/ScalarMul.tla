------------------------------- MODULE ScalarMul -------------------------------
(***************************************************************************)
(* Products of a scalar and a point by signed windows: gfec_point_mul      *)
(* from the top with a table made on the way, gfec_base_point_mul from the *)
(* bottom with a table of affine points for every window, gfec_point_prod  *)
(* of two scalars at once.  One step per window.                           *)
(***************************************************************************)
EXTENDS EllipticCurve, BigNumbers

CONSTANTS
  BaseWindows,  \* window sizes of the tables of base-point multiples: 5 and 7
  MulCurves,    \* the curves every scalar is multiplied on
  PairCurves    \* the curves every pair of scalars is multiplied on

WINDOW_SIZE == 5

OrderBits(E) == MOD_BITSIZE(E.n)

\* gfec_base_point_mul adds without looking for equal points: for no digit of a window may
\* the sum of the windows below, at most half their range, be a doubling in disguise.  The
\* orders of the standard curves are so close below a power of two that none is.
NoDoubling(E, w) ==
  \A bit \in {b \in w..OrderBits(E) : b % w = 0} : \A d \in 1..Power2[w - 1] :
    LET top  == d * Power2[bit]
        half == Power2[bit - 1]
    IN  IF top < E.n THEN top + half < E.n
        ELSE top <= E.n + half => top + half < 2 * E.n

\* Every number below has an inverse.
IsPrime(p) == \A x \in 1..(p - 1) : \E y \in 1..(p - 1) : (x * y) % p = 1

ASSUME ScalarMulAssumption ==
  /\ BaseWindows \subseteq 2..7
  /\ MulCurves \subseteq Curves /\ PairCurves \subseteq Curves
  /\ \A E \in MulCurves \union PairCurves :
       IsGroup(E) /\ IsPrime(E.p) /\ E.n % 2 = 1 /\ \A w \in BaseWindows : NoDoubling(E, w)

VARIABLES
  emTask,  \* idle, first: before the first window, loop: bit is next, done
  emCall,  \* [fn, E, w, k, l]: function, curve, window size, the scalar(s)
  emBit,   \* the window's lowest bit
  emT      \* pTdata, pRdata: the sum so far

emVars == <<emTask, emCall, emBit, emT>>

-----------------------------------------------------------------------------
\* The two bytes from byte (bit-1)/8 on of a scalar padded with zeros, shifted and masked.
WindowAt(k, bit, w) ==
  IF bit = 0 THEN (2 * (k % Power2[16])) % Power2[w + 1]
  ELSE (((k \div Power2[8 * ((bit - 1) \div 8)]) % Power2[16]) \div Power2[(bit - 1) % 8]) % Power2[w + 1]

booth_recode(in, w) ==
  LET s == in \div Power2[w]
      d == IF s = 1 THEN Power2[w + 1] - in - 1 ELSE in
  IN  [sign |-> s, digit |-> (d \div 2) + (d % 2)]

\* Table[d] = d*P for d in 1..16, stored without infinity: the even ones are doubles of
\* their halves, the odd ones one P more than the entry below.
setupTable(E, P) ==
  LET tbl[d \in 1..16] ==
        IF d = 1 THEN P
        ELSE IF d % 2 = 0 THEN gfec_point_double(E, tbl[d \div 2])
        ELSE gfec_point_add(E, tbl[d - 1], P)
  IN  [d \in 1..16 |-> tbl[d]]

\* gsScrambleGet_sscm with index digit-1: no entry, so all zeros, for digit 0.
TableEntry(tbl, digit) == IF digit = 0 THEN Zero ELSE tbl[digit]

\* -y if sign
Signed(E, P, sign) == IF sign = 1 THEN [P EXCEPT ![2] = (-@) % E.p] ELSE P

\* The base point's multiple the table of window size w has for a digit of a window.
select_affine_point(E, bit, digit) == TimesBase(E, digit * Power2[bit])

-----------------------------------------------------------------------------
\* The point of a call of gfec_point_mul, and the second one of gfec_point_prod: G and 2*G,
\* with a Z other than 1.
PointA(E) == << (4 * E.g[1]) % E.p, (8 * E.g[2]) % E.p, 2 >>
PointB(E) == gfec_point_double(E, PointA(E))

PointTables == [E \in Curves |-> <<setupTable(E, PointA(E)), setupTable(E, PointB(E))>>]

\* Add the scalar's digit times table number i to T.
AddWindow(E, i, T, k, bit) ==
  LET code == booth_recode(WindowAt(k, bit, WINDOW_SIZE), WINDOW_SIZE)
  IN  gfec_point_add(E, T, Signed(E, TableEntry(PointTables[E][i], code.digit), code.sign))

\* The first window is taken without its sign: there is none above the scalar's top bit.
FirstEntry(E, i, k, bit) ==
  LET in == IF bit = 0 THEN 0 ELSE WindowAt(k, bit, WINDOW_SIZE)
  IN  TableEntry(PointTables[E][i], booth_recode(in, WINDOW_SIZE).digit)

Double2(E, P) == gfec_point_double(E, gfec_point_double(E, P))
Double5(E, P) == gfec_point_double(E, Double2(E, Double2(E, P)))

NoMul == [fn |-> "none"]

ScalarMulInit == emTask = "idle" /\ emCall = NoMul /\ emBit = 0 /\ emT = Zero

\* Any scalar up to the order: ippsGFpECMulPoint lets all through, ippsGFpECVerify
\* multiplies the base point by the order itself.
CallPointMul ==
  \E E \in MulCurves : \E k \in 0..E.n :
    emCall' = [fn |-> "gfec_point_mul", E |-> E, w |-> WINDOW_SIZE, k |-> k, l |-> 0]

CallBasePointMul ==
  \E E \in MulCurves, w \in BaseWindows : \E k \in 0..E.n :
    emCall' = [fn |-> "gfec_base_point_mul", E |-> E, w |-> w, k |-> k, l |-> 0]

CallPointProd ==
  \E E \in PairCurves : \E k, l \in 0..(E.n - 1) :
    emCall' = [fn |-> "gfec_point_prod", E |-> E, w |-> WINDOW_SIZE, k |-> k, l |-> l]

CallScalarMul ==
  /\ emTask = "idle" /\ emTask' = "first"
  /\ CallPointMul \/ CallBasePointMul \/ CallPointProd
  /\ emBit' = 0 /\ emT' = Zero

TopBit(n) == n - (n % WINDOW_SIZE)

\* First window of gfec_point_mul and gfec_point_prod.
FirstFromTop ==
  /\ emTask = "first" /\ emCall.fn \in {"gfec_point_mul", "gfec_point_prod"}
  /\ LET E   == emCall.E
         bit == TopBit(OrderBits(E))
         tA  == FirstEntry(E, 1, emCall.k, bit)
     IN  /\ emT' = IF emCall.fn = "gfec_point_mul" THEN tA
                   ELSE gfec_point_add(E, tA, FirstEntry(E, 2, emCall.l, bit))
         /\ emBit' = bit - WINDOW_SIZE
  /\ emTask' = "loop"
  /\ UNCHANGED emCall

\* Every other window, the last one, of bit 0, among them.
NextFromTop ==
  /\ emTask = "loop" /\ emCall.fn \in {"gfec_point_mul", "gfec_point_prod"}
  /\ LET E   == emCall.E
         bit == IF emBit < WINDOW_SIZE THEN 0 ELSE emBit
         sum == AddWindow(E, 1, Double5(E, emT), emCall.k, bit)
     IN  /\ emT' = IF emCall.fn = "gfec_point_mul" THEN sum
                   ELSE AddWindow(E, 2, sum, emCall.l, bit)
         /\ emBit' = bit - WINDOW_SIZE
         /\ emTask' = IF bit = 0 THEN "done" ELSE "loop"
  /\ UNCHANGED emCall

\* Window 0 of gfec_base_point_mul: an affine point becomes a projective one.
FirstFromBottom ==
  /\ emTask = "first" /\ emCall.fn = "gfec_base_point_mul"
  /\ LET E    == emCall.E
         code == booth_recode(WindowAt(emCall.k, 0, emCall.w), emCall.w)
         A    == select_affine_point(E, 0, code.digit)
     IN  emT' = Signed(E, << A[1], A[2], IF code.digit = 0 THEN 0 ELSE 1 >>, code.sign)
  /\ emBit' = emCall.w
  /\ emTask' = "loop"
  /\ UNCHANGED emCall

NextFromBottom ==
  /\ emTask = "loop" /\ emCall.fn = "gfec_base_point_mul"
  /\ LET E    == emCall.E
         code == booth_recode(WindowAt(emCall.k, emBit, emCall.w), emCall.w)
         A    == select_affine_point(E, emBit, code.digit)
     IN  IF emBit <= OrderBits(E)
         THEN /\ emT' = gfec_affine_point_add(E, emT, Signed(E, A, code.sign))
              /\ emBit' = emBit + emCall.w
              /\ UNCHANGED emTask
         ELSE emTask' = "done" /\ UNCHANGED <<emT, emBit>>
  /\ UNCHANGED emCall

ReturnProduct ==
  /\ emTask = "done"
  /\ emTask' = "idle" /\ emCall' = NoMul /\ emBit' = 0 /\ emT' = Zero

ScalarMulNext ==
  CallScalarMul \/ FirstFromTop \/ NextFromTop \/ FirstFromBottom \/ NextFromBottom
  \/ ReturnProduct

ScalarMulSpec == ScalarMulInit /\ [][ScalarMulNext]_emVars

-----------------------------------------------------------------------------
(* Properties.                                                             *)

\* Whatever the scalars, windows and intermediate sums, infinity and equal or opposite
\* points among them, the product is the one the group law gives, and in the method from
\* the bottom the sum after each window is the scalar's low bits, signed.
ScalarProduct ==
  /\ emTask = "done" => Affine(emCall.E, emT) = TimesBase(emCall.E, emCall.k + 2 * emCall.l)
  /\ emTask = "loop" /\ emCall.fn = "gfec_base_point_mul" =>
       LET low == emCall.k % Power2[emBit]
       IN  Affine(emCall.E, emT)
             = TimesBase(emCall.E, IF low >= Power2[emBit - 1] THEN low - Power2[emBit] ELSE low)
=============================================================================
