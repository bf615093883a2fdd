----------------------------- MODULE EllipticCurve -----------------------------
(***************************************************************************)
(* Points of a short Weierstrass curve y^2 = x^3 + ax + b over a prime     *)
(* field: the group as the textbook defines it on affine points, and the   *)
(* library's arithmetic on Jacobian coordinates, formula by formula, with  *)
(* the exceptional inputs it does and does not handle.                     *)
(*                                                                         *)
(* A curve is a record [p, a, b, g, n]: modulus, parameters, base point    *)
(* and its prime order.  The Montgomery factor of field elements is left   *)
(* out.  The point at infinity of the affine group is <<0, 0>>, which is   *)
(* not on a curve with b # 0.                                              *)
(***************************************************************************)
EXTENDS Integers, Sequences

CONSTANT Curves  \* see IsCurve

AtInfinity == <<0, 0>>

OnCurve(E, P) == (P[2] * P[2]) % E.p = (P[1] * P[1] * P[1] + E.a * P[1] + E.b) % E.p

\* Inverses modulo each prime.
Inverses ==
  [p \in {E.p : E \in Curves} |->
     [x \in 1..(p - 1) |-> CHOOSE y \in 1..(p - 1) : (x * y) % p = 1]]

Inv(x, p) == Inverses[p][x]

\* The slope of the chord through P and Q, or of the tangent at P.
Slope(E, P, Q) ==
  IF P = Q THEN (((3 * P[1] * P[1] + E.a) % E.p) * Inv((2 * P[2]) % E.p, E.p)) % E.p
  ELSE ((P[2] - Q[2]) * Inv((P[1] - Q[1]) % E.p, E.p)) % E.p

\* The group law.
Plus(E, P, Q) ==
  IF P = AtInfinity THEN Q
  ELSE IF Q = AtInfinity THEN P
  ELSE IF P[1] = Q[1] /\ (P[2] + Q[2]) % E.p = 0 THEN AtInfinity
  ELSE LET l == Slope(E, P, Q)
           x == (l * l - P[1] - Q[1]) % E.p
       IN  <<x, (l * (P[1] - x) - P[2]) % E.p>>

Negative(E, P) == <<P[1], (-P[2]) % E.p>>

\* k*P for every k below the order.
Multiples(E, P) ==
  LET m[j \in 0..(E.n - 1)] ==
        IF j = 0 THEN AtInfinity
        ELSE LET half  == m[j \div 2]
                 twice == Plus(E, half, half)
             IN  IF j % 2 = 0 THEN twice ELSE Plus(E, twice, P)
  IN  [j \in 0..(E.n - 1) |-> m[j]]

BaseMultiples == [E \in Curves |-> Multiples(E, E.g)]

\* k*(base point) for any k.
TimesBase(E, k) == BaseMultiples[E][k % E.n]

\* The order is that of the base point and no smaller number is.
IsCurve(E) ==
  /\ E.p \in Nat /\ E.n \in Nat /\ E.n > 1
  /\ E.p > 3 /\ E.b % E.p # 0 /\ E.a \in 0..(E.p - 1)
  /\ (((4 * E.a * E.a) % E.p) * E.a + 27 * E.b * E.b) % E.p # 0
  /\ OnCurve(E, E.g)
  /\ \A k \in 1..(E.n - 1) : BaseMultiples[E][k] # AtInfinity
  /\ Plus(E, BaseMultiples[E][E.n - 1], E.g) = AtInfinity

\* What the textbook says of a curve: the multiples of the base point are points of it, those
\* of opposite numbers opposite points, and their sums are those of the numbers.
IsGroup(E) ==
  /\ \A i \in 1..(E.n - 1) : /\ BaseMultiples[E][i] \in (0..(E.p - 1)) \X (0..(E.p - 1))
                           /\ OnCurve(E, BaseMultiples[E][i])
                           /\ Negative(E, BaseMultiples[E][i]) = BaseMultiples[E][E.n - i]
  /\ \A i, j \in 0..(E.n - 1) :
       Plus(E, BaseMultiples[E][i], BaseMultiples[E][j]) = BaseMultiples[E][(i + j) % E.n]

\* k*P for any point of the curve
Product(E, k, P) ==
  LET m[j \in 0..k] == IF j = 0 THEN AtInfinity
                       ELSE LET half  == m[j \div 2]
                                twice == Plus(E, half, half)
                            IN  IF j % 2 = 0 THEN twice ELSE Plus(E, twice, P)
  IN  m[k]

ASSUME CurveAssumption == \A E \in Curves : IsCurve(E)

-----------------------------------------------------------------------------
(* Jacobian coordinates <<X, Y, Z>>: the point (X/Z^2, Y/Z^3), infinity if  *)
(* Z = 0.                                                                  *)

Zero == <<0, 0, 0>>

\* gfec_GetPoint
Affine(E, P) ==
  IF P[3] = 0 THEN AtInfinity
  ELSE LET zinv == Inv(P[3], E.p)
           t    == (zinv * zinv) % E.p
       IN  <<(P[1] * t) % E.p, (P[2] * ((zinv * t) % E.p)) % E.p>>

\* ECP_STD: a = -3; ECP_EPID2: a = 0.
IsStd(E)   == E.a = E.p - 3
IsEpid2(E) == E.a = 0

\* v/2 mod p
div2(x, p) == IF x % 2 = 0 THEN x \div 2 ELSE (x + p) \div 2

\* M = 3*X^2 + a*Z^4 from X and Z^2
DoubleM(E, x, zz) ==
  IF IsStd(E) THEN (((x + zz) % E.p) * ((x - zz) % E.p) * 3) % E.p
  ELSE IF IsEpid2(E) THEN (3 * x * x) % E.p
  ELSE (3 * x * x + E.a * ((zz * zz) % E.p)) % E.p

gfec_point_double(E, P) ==
  LET p  == E.p
      s  == (2 * P[2]) % p
      m4 == (s * s) % p                                \* 4*Y^2
      y8 == div2((m4 * m4) % p, p)                     \* 8*Y^4
      sx == (m4 * P[1]) % p                            \* 4*X*Y^2
      m  == DoubleM(E, P[1], (P[3] * P[3]) % p)
      x  == (m * m - 2 * sx) % p
  IN  << x, (m * ((sx - x) % p) - y8) % p, (s * P[3]) % p >>

\* U1, S1, H and R of two points: H = 0 for the same abscissa, R = 0 for the same ordinate.
Differences(E, P, Q) ==
  LET p  == E.p
      u1 == (P[1] * Q[3] * Q[3]) % p
      s1 == (((P[2] * Q[3]) % p) * Q[3] * Q[3]) % p
  IN  [u1 |-> u1, s1 |-> s1,
       h |-> (Q[1] * P[3] * P[3] - u1) % p,
       r |-> (((Q[2] * P[3]) % p) * P[3] * P[3] - s1) % p]

\* The sum of two points with different abscissas; z is the product of their Z.
Chord(E, d, z) ==
  LET p   == E.p
      hh  == (d.h * d.h) % p
      hhh == (d.h * hh) % p
      uhh == (d.u1 * hh) % p
      x   == (d.r * d.r - hhh - 2 * uhh) % p
  IN  << x, (((uhh - x) % p) * d.r - d.s1 * hhh) % p, (z * d.h) % p >>

\* Mutant: equal and opposite points are not looked for.
gfec_point_add_Mutant(E, P, Q) ==
  CASE Q[3] = 0 -> P
    [] Q[3] # 0 /\ P[3] = 0 -> Q
    [] OTHER -> Chord(E, Differences(E, P, Q), P[3] * Q[3])

\* Complete: infinity and equal or opposite points are cases of their own.
gfec_point_add(E, P, Q) ==
  LET d == Differences(E, P, Q)
  IN  CASE Q[3] = 0 -> P
        [] Q[3] # 0 /\ P[3] = 0 -> Q
        [] Q[3] # 0 /\ P[3] # 0 /\ d.h = 0 -> IF d.r = 0 THEN gfec_point_double(E, P) ELSE Zero
        [] OTHER -> Chord(E, d, P[3] * Q[3])

\* P and an affine point A: infinity is known by X = Y = 0, equal and opposite points are
\* not looked for.
gfec_affine_point_add(E, P, A) ==
  LET inftyP == P[1] = 0 /\ P[2] = 0
      inftyA == A = AtInfinity
  IN  CASE inftyA -> P
        [] inftyP /\ ~inftyA -> << A[1], A[2], 1 >>
        [] OTHER -> Chord(E, Differences(E, P, << A[1], A[2], 1 >>), P[3])
=============================================================================
