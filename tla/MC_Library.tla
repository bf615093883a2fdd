----------------------------- MODULE MC_Library -----------------------------
(***************************************************************************)
(* Two threads that go through the dispatcher on an Ice Lake processor;    *)
(* and, with no call under way, RSA keys of one, two and three chunks.     *)
(* The two share no state, so each is explored with the other at rest.     *)
(***************************************************************************)
EXTENDS Dispatcher, RSA

Nehalem == {"MMX", "SSE", "SSE2", "SSE3", "SSE42", "AES"}
Haswell == Nehalem \cup {"AVX", "AVX2", "OS"}
Icelake == Haswell \cup {"AVX3X", "AVX3I", "OS512"}
KnightsLanding == Haswell \cup {"AVX3M", "OS512"}

\* All of it, without AES, one choice for each lower rung of the ladder and one
\* with a gap, and what an enclave would pass, where CPUID is not available: NOCHECK, and
\* some feature, as 0 would stand for a library that is not initialised.
IcelakeChoices ==
  {Icelake, Icelake \ {"AES"}, Icelake \ {"AVX3I"}, Nehalem, Nehalem \ {"SSE3"},
   {"MMX", "SSE", "SSE2", "SSE3"}, {"MMX", "SSE", "SSE2"}, {"MMX", "SSE"}, {},
   {"NOCHECK"} \cup Haswell, {"NOCHECK"} \cup KnightsLanding}

CONSTANT Chooser   \* the thread that may choose features

-----------------------------------------------------------------------------
InverseMod(x, m) == CHOOSE y \in 0..m : (x * y) % m = 1

MCKey(p, q, e, d) ==
  [p |-> p, q |-> q, n |-> p * q, e |-> e, d |-> d,
   dp |-> InverseMod(e, p - 1), dq |-> InverseMod(e, q - 1), qInv |-> InverseMod(q, p)]

\* Factors of one bit size and of two, the longer one first or last; the product of 5 and 11
\* has a chunk less than its engine.  The first key's exponent is the inverse modulo the least
\* common multiple of p-1 and q-1.
MCMixedKeys == {MCKey(13, 5, 5, 5), MCKey(5, 13, 5, 29)}
MCSoundKeys == MCMixedKeys \union
  {MCKey(11, 13, 7, 43), MCKey(11, 13, 7, 103), MCKey(5, 7, 5, 5), MCKey(3, 5, 3, 3),
   MCKey(5, 11, 3, 27)}

\* One value wrong each; a composite factor; a factor used twice; exponents of 1.
MCBadKeys ==
  {[MCKey(11, 13, 7, 43) EXCEPT !.d = 19], [MCKey(11, 13, 7, 43) EXCEPT !.dp = 7],
   [MCKey(13, 5, 5, 5) EXCEPT !.qInv = 5], [MCKey(5, 7, 5, 5) EXCEPT !.dq = 1],
   MCKey(9, 11, 7, 23),
   [MCKey(11, 13, 7, 3) EXCEPT !.q = 11, !.n = 121, !.dq = 3, !.qInv = 1],
   [MCKey(5, 7, 5, 5) EXCEPT !.e = 1, !.d = 1, !.dp = 1, !.dq = 1]}
MCRsaKeys == MCSoundKeys \union MCBadKeys

MCPubSizes  == {<<8, 3>>}
MCPrv1Sizes == {<<8, 8>>}
MCPrv2Sizes == {<<4, 4>>, <<3, 4>>}

-----------------------------------------------------------------------------
\* The RSA contexts hold no key, and the number is as it was made.
RsaRests ==
  rsaVars = <<NoPub(<<8, 3>>), NoPrv1(<<8, 8>>), NoPrv2(<<4, 4>>), NoNumber(2),
              Told("none", "ippStsNoErr")>>

DispatcherRests == Init

\* Features are chosen in a program of one thread.
DispatcherNext == Next /\ (everSet' => \A t \in Threads \ {Chooser} : op'[t] = "none")

MCInit == Init /\ RsaInit

MCNext == \/ RsaRests /\ DispatcherNext /\ UNCHANGED rsaVars
          \/ DispatcherRests /\ RsaNext /\ UNCHANGED vars

MCSpec == MCInit /\ [][MCNext]_<<vars, rsaVars>> /\ \A t \in Threads : WF_vars(Step(t))
=============================================================================
