------------------------------ MODULE ModInverse ------------------------------
(***************************************************************************)
(* Kaliski's almost Montgomery inverse, in the variable-time and the       *)
(* constant-time form, one step per iteration, and the two functions that  *)
(* turn its result into an inverse.  Numbers are held in whole chunks: an  *)
(* addition drops its carry unless the code keeps it.                      *)
(***************************************************************************)
EXTENDS BigNumbers

CONSTANT InvModuli  \* the moduli of the engines: odd numbers

ASSUME InvAssumption == \A m \in InvModuli : m \in Nat /\ m > 1 /\ m % 2 = 1

VARIABLES
  task,  \* idle, loop: between two iterations, test: after them, scale, done
  call,  \* the function called [fn, ct, m, a]: ct for alm_mont_inv_ct
  u, v, s, t, ext, k,  \* the locals of alm_mont_inv
  iter,  \* iterations done, the loop counter of alm_mont_inv_ct
  r,     \* pr, the result; -1 for NULL
  pw     \* history: 2^k

invVars == <<task, call, u, v, s, t, ext, k, iter, r, pw>>

NoCall == [fn |-> "none", ct |-> FALSE, m |-> 1, a |-> 0]

InvInit ==
  /\ task = "idle" /\ call = NoCall
  /\ u = 0 /\ v = 0 /\ s = 0 /\ t = 0 /\ ext = 0 /\ k = 0 /\ iter = 0 /\ r = 0 /\ pw = 1

\* u = modulus, v = a, t = 0, s = 1
Invert(fn, ct, m, a) ==
  /\ task = "idle"
  /\ task' = "loop" /\ call' = [fn |-> fn, ct |-> ct, m |-> m, a |-> a]
  /\ u' = m /\ v' = a /\ s' = 1 /\ t' = 0 /\ ext' = 0 /\ k' = 0 /\ iter' = 0 /\ pw' = 1
  /\ r' = 0

\* Mutant: one iteration for every bit of the modulus, not two.
Continues_Mutant == IF call.ct THEN iter < MOD_BITSIZE(call.m) ELSE v # 0

Continues == IF call.ct THEN iter < 2 * MOD_BITSIZE(call.m) ELSE v # 0

Word(x) == x % Cap(call.m)

\* What every iteration that updates anything does besides.
Counted ==
  /\ task = "loop" /\ Continues /\ v # 0
  /\ k' = k + 1 /\ pw' = 2 * pw /\ iter' = iter + 1
  /\ UNCHANGED <<task, call, r>>

HalveU ==
  /\ Counted
  /\ u % 2 = 0
  /\ u' = u \div 2 /\ s' = Word(2 * s)
  /\ UNCHANGED <<v, t, ext>>

HalveV ==
  /\ Counted
  /\ u % 2 # 0 /\ v % 2 = 0
  /\ v' = v \div 2 /\ t' = Word(2 * t)
  /\ UNCHANGED <<u, s, ext>>

ReduceU ==
  /\ Counted
  /\ u % 2 # 0 /\ v % 2 # 0 /\ u > v
  /\ u' = (u - v) \div 2 /\ t' = Word(t + s) /\ s' = Word(2 * s)
  /\ UNCHANGED <<v, ext>>

\* Mutant: the carry of the doubled t is dropped here as well.
Carry_Mutant(x) == 0

Carry(x) == x \div Cap(call.m)

ReduceV ==
  /\ Counted
  /\ u % 2 # 0 /\ v % 2 # 0 /\ u <= v
  /\ v' = (v - u) \div 2 /\ s' = Word(s + t) /\ t' = Word(2 * t)
  /\ ext' = ext + Carry(2 * t)
  /\ UNCHANGED u

\* An iteration of the constant-time form after v became 0: every mask is 0.
Rest ==
  /\ task = "loop" /\ Continues /\ v = 0
  /\ iter' = iter + 1
  /\ UNCHANGED <<task, call, u, v, s, t, ext, k, r, pw>>

\* r = mod - (t > mod ? t - mod : t); no inverse unless the gcd u is 1.
Test ==
  /\ task = "loop" /\ ~Continues
  /\ LET borrow == IF t < call.m THEN 1 ELSE 0
         x      == IF ext - borrow # 0 THEN t ELSE Word(t - call.m)
     IN  r' = IF u = 1 \/ call.ct THEN Word(call.m - x) ELSE r
  /\ ext' = IF u = 1 \/ call.ct THEN ext - (IF t < call.m THEN 1 ELSE 0) ELSE ext
  /\ k' = IF u = 1 THEN k ELSE 0
  /\ task' = "scale"
  /\ UNCHANGED <<call, u, v, s, t, iter, pw>>

-----------------------------------------------------------------------------
mon_mul(x, y, m) == (((x * y) % m) * RadixInverse(m)) % m

R2(m) == (Cap(m) * Cap(m)) % m

\* r = mont(a^-1) from (k,r): the exponent is brought above the radix first.
gs_mont_inv(x, kk, m) ==
  LET below == kk <= LenBits(m)
      x1    == IF below THEN mon_mul(x, R2(m), m) ELSE x
      k1    == IF below THEN kk + LenBits(m) ELSE kk
  IN  mon_mul(x1, Power2[2 * LenBits(m) - k1], m)

\* r = 1/a from (k,r): the exponent is brought to the radix or below first.
gs_inv(x, kk, m) ==
  LET above == kk > LenBits(m)
      x1    == IF above THEN mon_mul(x, 1, m) ELSE x
      k1    == IF above THEN kk - LenBits(m) ELSE kk
  IN  mon_mul(x1, Power2[LenBits(m) - k1], m)

Scale ==
  /\ task = "scale"
  /\ r' = IF k = 0 THEN -1
          ELSE IF call.fn = "gs_mont_inv" THEN gs_mont_inv(r, k, call.m) ELSE gs_inv(r, k, call.m)
  /\ task' = "done"
  /\ UNCHANGED <<call, u, v, s, t, ext, k, iter, pw>>

Return ==
  /\ task = "done"
  /\ task' = "idle" /\ call' = NoCall
  /\ u' = 0 /\ v' = 0 /\ s' = 0 /\ t' = 0 /\ ext' = 0 /\ k' = 0 /\ iter' = 0 /\ r' = 0 /\ pw' = 1

InvNext ==
  \/ \E fn \in {"gs_mont_inv", "gs_inv"}, ct \in BOOLEAN, m \in InvModuli :
       \E a \in 0..(m - 1) : Invert(fn, ct, m, a)
  \/ HalveU \/ HalveV \/ ReduceU \/ ReduceV \/ Rest \/ Test \/ Scale \/ Return

InvSpec == InvInit /\ [][InvNext]_invVars

-----------------------------------------------------------------------------
(* Properties.                                                             *)

\* alm_mont_inv gives (k,r) with a*r = 2^k mod m, r below m, in spite of the carries it
\* drops and of an intermediate t that outgrows its chunks.
AlmostInverse ==
  task = "scale" /\ k # 0 =>
    /\ (call.a * r) % call.m = pw % call.m
    /\ r \in 0..(call.m - 1)

\* Both forms answer 0 exactly for numbers that have no inverse, which means that the
\* fixed 2*bitsize iterations of the constant-time form are enough for any number; for all
\* others gs_inv returns 1/a and gs_mont_inv the Montgomery form of it.
Inverted ==
  task = "done" =>
    IF r = -1 THEN \A x \in 0..(call.m - 1) : (call.a * x) % call.m # 1
    ELSE (call.a * r) % call.m = IF call.fn = "gs_inv" THEN 1 ELSE Cap(call.m) % call.m
=============================================================================
