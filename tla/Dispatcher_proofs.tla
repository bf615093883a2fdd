-------------------------- MODULE Dispatcher_proofs ---------------------------
(***************************************************************************)
(* Theorems about Dispatcher, for any number of threads, any processor and *)
(* any mix of calls.  As long as no caller has chosen features, all steps  *)
(* that threads have left are in one order, StepRank, and what a thread    *)
(* has behind it can be read off the set of steps it still has to do.      *)
(* Afterwards one thread is followed through its calls, ChoiceInv.         *)
(***************************************************************************)
EXTENDS Dispatcher, TLAPS

\* The steps in the order in which they occur in any call.
StepRank ==
  [query |-> 1, getFeatures |-> 2, detect |-> 3, enableAll |-> 4, readBack |-> 5,
   set |-> 6, toIdx |-> 7, levelMask |-> 8, publish |-> 9, choose |-> 10, jump |-> 11,
   methods |-> 12, setMethods |-> 13, keys |-> 14, expandKeys |-> 15, ecb |-> 16, cipher |-> 17]
Steps == DOMAIN StepRank

Increasing(s) ==
  \A i, j \in DOMAIN s : i < j => StepRank[s[i]] < StepRank[s[j]]

\* The steps t has left.
Left(t) == {todo[t][i] : i \in DOMAIN todo[t]}

Best == Rungs[RungOf(CPU, CPU)].lib
BestLayout == IF Best = "M7" THEN "compact" ELSE IF "AES" \in CPU THEN "native" ELSE "composite"
FullCtx == [engine |-> BestLayout, keys |-> BestLayout]

Initialising == {"toIdx", "levelMask", "publish", "choose"}
Aes == {"methods", "setMethods", "keys", "expandKeys", "ecb", "cipher"}

-----------------------------------------------------------------------------
\* Which steps a thread never has left together.
Apart(t) ==
  /\ "query" \in Left(t) => Left(t) \cap ({"getFeatures", "detect", "enableAll", "readBack",
                                           "set", "jump"} \cup Initialising) = {}
  /\ "getFeatures" \in Left(t) =>
       Left(t) \cap ({"detect", "enableAll", "readBack"} \cup Initialising) = {}
  /\ "set" \in Left(t) => Left(t) \cap Initialising = {}
  /\ "detect" \in Left(t) => "enableAll" \in Left(t)
  /\ "enableAll" \in Left(t) => "readBack" \in Left(t) \/ "choose" \in Left(t)
  /\ "readBack" \in Left(t) => Left(t) \cap Initialising = {}
  /\ "methods" \in Left(t) => Left(t) \cap {"setMethods", "expandKeys", "ecb", "cipher", "query"} = {}
  /\ "setMethods" \in Left(t) => "keys" \in Left(t)
  /\ "methods" \in Left(t) => "keys" \in Left(t)
  /\ "keys" \in Left(t) => Left(t) \cap {"expandKeys", "ecb", "cipher"} = {}
  /\ "expandKeys" \in Left(t) => Left(t) \cap {"ecb", "cipher"} = {}
  /\ "ecb" \in Left(t) => "cipher" \notin Left(t)

StepsOK(t) ==
  /\ todo[t] \in Seq(Steps) /\ Increasing(todo[t]) /\ Apart(t)

\* What t has done is still in force.
Done(t) ==
  /\ "set" \in Left(t) /\ Left(t) \cap {"getFeatures", "detect", "enableAll", "readBack"} = {}
       => arg[t] = CPU
  /\ Left(t) \cap ({"enableAll", "readBack"} \cup Initialising) # {} /\ "detect" \notin Left(t)
       => cpFeatures = CPU
  /\ Left(t) \cap ({"readBack"} \cup Initialising) # {} /\ "enableAll" \notin Left(t)
       => cpFeaturesMask = CPU
  /\ Left(t) \cap {"toIdx", "levelMask"} # {} => sel[t] = CPU
  /\ "publish" \in Left(t) /\ "toIdx" \notin Left(t) => idx[t] = Best
  /\ "choose" \in Left(t) => arg[t] = CPU

\* The AES context of t is the one the best variant makes.
Consistent(t) ==
  /\ used[t] = "right"
  /\ Left(t) \cap Aes # {} /\ "jump" \notin Left(t) => lib[t] = Best /\ jumpIndex = Best
  /\ Left(t) \cap {"ecb", "cipher"} # {} => ctx[t] = FullCtx
  /\ Left(t) \cap {"methods", "setMethods", "keys", "expandKeys"} = {} => ctx[t] \in {NoCtx, FullCtx}
  /\ Left(t) \cap {"methods", "setMethods"} = {} /\ Left(t) \cap {"keys", "expandKeys"} # {}
       => ctx[t] = [engine |-> BestLayout, keys |-> "none"]

Shared ==
  /\ cpFeatures \in {{}, CPU} /\ cpFeaturesMask \in {{}, CPU} /\ jumpIndex \in {"none", Best}
  /\ jumpIndex # "none" => cpFeatures = CPU /\ cpFeaturesMask = CPU

Functions ==
  /\ DOMAIN todo = Threads /\ DOMAIN op = Threads /\ DOMAIN arg = Threads
  /\ DOMAIN sel = Threads /\ DOMAIN idx = Threads /\ DOMAIN lib = Threads
  /\ DOMAIN status = Threads /\ DOMAIN ctx = Threads /\ DOMAIN used = Threads

\* The inductive invariant.  Nothing is said once a caller has chosen features.
Known ==
  /\ everSet = FALSE /\ Functions /\ Shared
  /\ \A t \in Threads : StepsOK(t) /\ Done(t) /\ (Merged => Consistent(t))
IInv == everSet = TRUE \/ Known
-----------------------------------------------------------------------------
\* What a full processor selects is one rung, whose variant it can run in full.
LEMMA BestRung ==
  /\ RungOf(CPU, CPU) \in DOMAIN Rungs
  /\ Selects(RungOf(CPU, CPU), CPU, CPU)
  /\ \A j \in 1..(RungOf(CPU, CPU) - 1) : ~Selects(j, CPU, CPU)
  /\ Rungs[RungOf(CPU, CPU)].mask \subseteq CPU
  /\ Best \in Lib /\ CPU # {} /\ "NOCHECK" \notin CPU
<1>1. DOMAIN Rungs = 1..9 /\ Selects(7, CPU, CPU)
  <2>1. DOMAIN Rungs = 1..9 /\ Rungs[7].os = {} /\ Rungs[7].any = {{"SSE2"}}
    BY DEF Rungs
  <2>2. {"SSE2"} \subseteq CPU
    BY DispatchAssumption
  <2> QED BY <2>1, <2>2 DEF Selects
<1>2. \E i \in 1..9 : Selects(i, CPU, CPU) /\ \A j \in 1..(i - 1) : ~Selects(j, CPU, CPU)
  <2> DEFINE P(i) == Selects(i, CPU, CPU)
  <2>1. P(7)
    BY <1>1
  <2> HIDE DEF P
  <2>2. \E i \in 1..9 : P(i) /\ \A j \in 1..(i - 1) : ~P(j)
    BY <2>1
  <2> QED BY <2>2 DEF P
<1>3. \E i \in DOMAIN Rungs :
        Selects(i, CPU, CPU) /\ \A j \in 1..(i - 1) : ~Selects(j, CPU, CPU)
  BY <1>1, <1>2
<1> DEFINE i == RungOf(CPU, CPU)
<1>4. /\ i \in DOMAIN Rungs
      /\ Selects(i, CPU, CPU) /\ \A j \in 1..(i - 1) : ~Selects(j, CPU, CPU)
  BY <1>3 DEF RungOf
<1>5. Rungs[i].mask \subseteq CPU
  BY <1>4, CpuAssumption
<1>6. \A k \in DOMAIN Rungs : Rungs[k].lib \in Lib
  BY DEF Rungs, Lib
<1> QED BY <1>4, <1>5, <1>6, DispatchAssumption DEF Best

\* What the code of a rung takes for granted holds one of the sets it is selected by.
LEMMA RungTakesWhatItTests ==
  \A i \in 1..9 : \E need \in Rungs[i].any : need \subseteq Rungs[i].mask
<1> SUFFICES ASSUME NEW i \in 1..9
             PROVE  \E need \in Rungs[i].any : need \subseteq Rungs[i].mask
  OBVIOUS
<1> DEFINE Holds(k, need) == need \in Rungs[k].any /\ need \subseteq Rungs[k].mask
<1>1. Holds(1, {"AVX3X", "AVX3I"}) /\ Holds(2, {"AVX3X"}) /\ Holds(3, {"AVX3M"})
  BY DEF Rungs
<1>2. Holds(4, {"AVX2"}) /\ Holds(5, {"SSE42"}) /\ Holds(6, {"SSE3"})
  BY DEF Rungs, AVX2_MSK, SSE42_MSK
<1>3. Holds(7, {"SSE2"}) /\ Holds(8, {"SSE"}) /\ Holds(9, {})
  BY DEF Rungs
<1> HIDE DEF Holds
<1>4. \E need : Holds(i, need)
  BY <1>1, <1>2, <1>3
<1> QED BY <1>4 DEF Holds

\* The next step comes first in the order.
LEMMA HeadFirst ==
  ASSUME NEW s \in Seq(Steps), s # <<>>, Increasing(s)
  PROVE  /\ Head(s) \in Steps
         /\ \A i \in DOMAIN Tail(s) : StepRank[Head(s)] < StepRank[Tail(s)[i]]
         /\ {s[i] : i \in DOMAIN s} = {Head(s)} \cup {Tail(s)[i] : i \in DOMAIN Tail(s)}
         /\ Tail(s) \in Seq(Steps) /\ Increasing(Tail(s))
<1>1. /\ Len(s) \in Nat \ {0} /\ DOMAIN s = 1..Len(s) /\ Head(s) = s[1]
      /\ Tail(s) \in Seq(Steps) /\ DOMAIN Tail(s) = 1..(Len(s) - 1)
      /\ \A i \in 1..(Len(s) - 1) : Tail(s)[i] = s[i + 1]
  OBVIOUS
<1>2. \A i \in DOMAIN Tail(s) : StepRank[Head(s)] < StepRank[Tail(s)[i]]
  BY <1>1 DEF Increasing
<1>3. Increasing(Tail(s))
  BY <1>1 DEF Increasing
<1>4. ASSUME NEW i \in DOMAIN s
      PROVE  s[i] \in {Head(s)} \cup {Tail(s)[k] : k \in DOMAIN Tail(s)}
  <2>1. CASE i = 1
    BY <2>1, <1>1
  <2>2. CASE i # 1
    <3>1. i - 1 \in DOMAIN Tail(s) /\ Tail(s)[i - 1] = s[i]
      BY <2>2, <1>1
    <3> QED BY <3>1
  <2> QED BY <2>1, <2>2
<1>5. ASSUME NEW k \in DOMAIN Tail(s)
      PROVE  Tail(s)[k] \in {s[i] : i \in DOMAIN s}
  <2>1. k + 1 \in DOMAIN s /\ Tail(s)[k] = s[k + 1]
    BY <1>1
  <2> QED BY <2>1
<1>6. Head(s) \in Steps /\ Head(s) \in {s[i] : i \in DOMAIN s}
  BY <1>1
<1> QED BY <1>1, <1>2, <1>3, <1>4, <1>5, <1>6

\* Steps that come before all that are left may be put in front of them.
LEMMA InFront ==
  ASSUME NEW r \in Seq(Steps), Increasing(r), NEW s \in Seq(Steps), Increasing(s),
         \A k \in DOMAIN r, i \in DOMAIN s : StepRank[r[k]] < StepRank[s[i]]
  PROVE  /\ r \o s \in Seq(Steps) /\ Increasing(r \o s)
         /\ {(r \o s)[i] : i \in DOMAIN (r \o s)}
              = {r[k] : k \in DOMAIN r} \cup {s[i] : i \in DOMAIN s}
<1> DEFINE q == r \o s
<1>1. /\ Len(r) \in Nat /\ Len(s) \in Nat /\ DOMAIN r = 1..Len(r) /\ DOMAIN s = 1..Len(s)
      /\ q \in Seq(Steps) /\ DOMAIN q = 1..(Len(r) + Len(s))
      /\ \A i \in DOMAIN q : q[i] = IF i <= Len(r) THEN r[i] ELSE s[i - Len(r)]
  OBVIOUS
<1> HIDE DEF q
<1>2. Increasing(q)
  <2> SUFFICES ASSUME NEW i \in DOMAIN q, NEW j \in DOMAIN q, i < j
               PROVE  StepRank[q[i]] < StepRank[q[j]]
    BY DEF Increasing
  <2>1. CASE j <= Len(r)
    BY <2>1, <1>1 DEF Increasing
  <2>2. CASE i <= Len(r) /\ j > Len(r)
    <3>1. i \in DOMAIN r /\ j - Len(r) \in DOMAIN s /\ q[i] = r[i] /\ q[j] = s[j - Len(r)]
      BY <2>2, <1>1
    <3> QED BY <3>1
  <2>3. CASE i > Len(r)
    <3>1. /\ i - Len(r) \in DOMAIN s /\ j - Len(r) \in DOMAIN s /\ i - Len(r) < j - Len(r)
          /\ q[i] = s[i - Len(r)] /\ q[j] = s[j - Len(r)]
      BY <2>3, <1>1
    <3> QED BY <3>1 DEF Increasing
  <2> QED BY <2>1, <2>2, <2>3, <1>1
<1>3. ASSUME NEW i \in DOMAIN q
      PROVE  q[i] \in {r[k] : k \in DOMAIN r} \cup {s[k] : k \in DOMAIN s}
  <2>1. CASE i <= Len(r)
    BY <2>1, <1>1
  <2>2. CASE i > Len(r)
    <3>1. i - Len(r) \in DOMAIN s /\ q[i] = s[i - Len(r)]
      BY <2>2, <1>1
    <3> QED BY <3>1
  <2> QED BY <2>1, <2>2, <1>1
<1>4. ASSUME NEW k \in DOMAIN r
      PROVE  r[k] \in {q[i] : i \in DOMAIN q}
  <2>1. k \in DOMAIN q /\ q[k] = r[k]
    BY <1>1
  <2> QED BY <2>1
<1>5. ASSUME NEW k \in DOMAIN s
      PROVE  s[k] \in {q[i] : i \in DOMAIN q}
  <2>1. k + Len(r) \in DOMAIN q /\ q[k + Len(r)] = s[k]
    BY <1>1
  <2> QED BY <2>1
<1> QED BY <1>1, <1>2, <1>3, <1>4, <1>5 DEF q

\* The order, spelled out.
LEMMA Ranks ==
  /\ Steps = {"query", "getFeatures", "detect", "enableAll", "readBack", "set", "toIdx",
               "levelMask", "publish", "choose", "jump", "methods", "setMethods", "keys",
               "expandKeys", "ecb", "cipher"}
  /\ StepRank["query"] = 1 /\ StepRank["getFeatures"] = 2 /\ StepRank["detect"] = 3
  /\ StepRank["enableAll"] = 4 /\ StepRank["readBack"] = 5 /\ StepRank["set"] = 6
  /\ StepRank["toIdx"] = 7 /\ StepRank["levelMask"] = 8 /\ StepRank["publish"] = 9
  /\ StepRank["choose"] = 10 /\ StepRank["jump"] = 11 /\ StepRank["methods"] = 12
  /\ StepRank["setMethods"] = 13 /\ StepRank["keys"] = 14 /\ StepRank["expandKeys"] = 15
  /\ StepRank["ecb"] = 16 /\ StepRank["cipher"] = 17
BY DEF Steps, StepRank

\* Places in the order are natural numbers.
LEMMA RankIsNat == \A x \in Steps : StepRank[x] \in Nat
BY Ranks

\* The sequences of steps that steps call, and what is in them.
Called(steps, members) ==
  /\ steps \in Seq(Steps) /\ Increasing(steps)
  /\ {steps[k] : k \in DOMAIN steps} = members

\* A step that calls none.
LEMMA NoneCalled == Called(<<>>, {})
<1>1. DOMAIN <<>> = {} /\ <<>> \in Seq(Steps)
  OBVIOUS
<1> QED BY <1>1 DEF Called, Increasing

\* A step that calls one.
LEMMA OneCalled ==
  ASSUME NEW x \in Steps
  PROVE  Called(<<x>>, {x})
<1>1. DOMAIN <<x>> = {1} /\ <<x>>[1] = x /\ <<x>> \in Seq(Steps)
  OBVIOUS
<1> QED BY <1>1 DEF Called, Increasing

\* A step that calls two, in order.
LEMMA TwoCalled ==
  ASSUME NEW x \in Steps, NEW y \in Steps, StepRank[x] < StepRank[y]
  PROVE  Called(<<x, y>>, {x, y})
<1> DEFINE s == <<x, y>>
<1>1. DOMAIN s = {1, 2} /\ s[1] = x /\ s[2] = y /\ s \in Seq(Steps)
  OBVIOUS
<1> HIDE DEF s
<1>2. Called(s, {x, y})
  BY <1>1 DEF Called, Increasing
<1> QED BY <1>2 DEF s

\* A step that calls three, in order.
LEMMA ThreeCalled ==
  ASSUME NEW x \in Steps, NEW y \in Steps, NEW z \in Steps,
         StepRank[x] < StepRank[y], StepRank[y] < StepRank[z]
  PROVE  Called(<<x, y, z>>, {x, y, z})
<1> DEFINE s == <<x, y, z>>
<1>1. DOMAIN s = {1, 2, 3} /\ s[1] = x /\ s[2] = y /\ s[3] = z /\ s \in Seq(Steps)
  OBVIOUS
<1>2. StepRank[x] < StepRank[z]
  BY RankIsNat
<1> HIDE DEF s
<1>3. Called(s, {x, y, z})
  BY <1>1, <1>2 DEF Called, Increasing
<1> QED BY <1>3 DEF s

\* Sequences with the same elements are the same.
LEMMA SequencesEqual ==
  ASSUME NEW s \in Seq(Steps), NEW r \in Seq(Steps), Len(s) = Len(r),
         \A i \in 1..Len(s) : s[i] = r[i]
  PROVE  s = r
OBVIOUS

\* The elements of a concatenation.
LEMMA Concatenated ==
  ASSUME NEW a \in Seq(Steps), NEW b \in Seq(Steps)
  PROVE  /\ a \o b \in Seq(Steps) /\ Len(a \o b) = Len(a) + Len(b)
         /\ \A i \in 1..(Len(a) + Len(b)) : (a \o b)[i] = IF i <= Len(a) THEN a[i] ELSE b[i - Len(a)]
OBVIOUS

\* The steps of t after the one at hand was replaced by the steps it calls.
LEMMA Continues ==
  ASSUME NEW t \in Threads, DOMAIN todo = Threads, StepsOK(t), todo[t] # <<>>,
         NEW steps, NEW members, Called(steps, members),
         \A y \in members, x \in Left(t) :
           StepRank[Head(todo[t])] < StepRank[x] => StepRank[y] < StepRank[x],
         Do(t, steps)
  PROVE  /\ Left(t) \subseteq Steps /\ Head(todo[t]) \in Left(t)
         /\ \A x \in Left(t) \ {Head(todo[t])} : StepRank[Head(todo[t])] < StepRank[x]
         /\ todo'[t] \in Seq(Steps) /\ Increasing(todo'[t])
         /\ Left(t)' = members \cup (Left(t) \ {Head(todo[t])})
<1> DEFINE s == todo[t]
           rest == {Tail(s)[i] : i \in DOMAIN Tail(s)}
<1>1. /\ Head(s) \in Steps /\ \A i \in DOMAIN Tail(s) : StepRank[Head(s)] < StepRank[Tail(s)[i]]
      /\ Left(t) = {Head(s)} \cup rest
      /\ Tail(s) \in Seq(Steps) /\ Increasing(Tail(s))
  BY HeadFirst DEF StepsOK, Left
<1>2. \A x \in rest : StepRank[Head(s)] < StepRank[x]
  BY <1>1
<1>3. StepRank[Head(s)] \in Nat
  BY <1>1, RankIsNat
<1>4. rest = Left(t) \ {Head(s)} /\ rest \subseteq Steps
  BY <1>1, <1>2, <1>3
<1>5. \A k \in DOMAIN steps, i \in DOMAIN Tail(s) : StepRank[steps[k]] < StepRank[Tail(s)[i]]
  BY <1>1, <1>2 DEF Called
<1>6. /\ steps \o Tail(s) \in Seq(Steps) /\ Increasing(steps \o Tail(s))
      /\ {(steps \o Tail(s))[i] : i \in DOMAIN (steps \o Tail(s))}
           = members \cup rest
  BY <1>1, <1>5, InFront DEF Called
<1>7. todo'[t] = steps \o Tail(s)
  BY DEF Do
<1>8. Left(t)' = {(steps \o Tail(s))[i] : i \in DOMAIN (steps \o Tail(s))}
  BY <1>7 DEF Left
<1> QED BY <1>1, <1>2, <1>4, <1>6, <1>7, <1>8

\* The steps of ippcpSetCpuFeatures after its argument was taken.
SetSteps == <<"detect", "enableAll", "toIdx", "levelMask", "publish", "choose">>
\* The steps ippcpSetCpuFeatures calls are in order, and are the concatenation in the model.
LEMMA SetCalled ==
  /\ Called(SetSteps, {"detect", "enableAll"} \cup Initialising)
  /\ <<"detect", "enableAll">> \o <<"toIdx", "levelMask", "publish", "choose">> = SetSteps
<1>1. SetSteps \in Seq(Steps)
  BY Ranks DEF SetSteps
<1>2. /\ DOMAIN SetSteps = 1..6 /\ SetSteps[1] = "detect" /\ SetSteps[2] = "enableAll"
      /\ SetSteps[3] = "toIdx" /\ SetSteps[4] = "levelMask" /\ SetSteps[5] = "publish"
      /\ SetSteps[6] = "choose"
  BY DEF SetSteps
<1>3. Increasing(SetSteps)
  BY <1>2, Ranks DEF Increasing
<1>4. {SetSteps[k] : k \in DOMAIN SetSteps} = {"detect", "enableAll"} \cup Initialising
  BY <1>2 DEF Initialising
<1>5. <<"detect", "enableAll">> \o <<"toIdx", "levelMask", "publish", "choose">> = SetSteps
  <2> DEFINE a == <<"detect", "enableAll">>
             b == <<"toIdx", "levelMask", "publish", "choose">>
  <2>1. a \in Seq(Steps) /\ b \in Seq(Steps) /\ Len(a) = 2 /\ Len(b) = 4 /\ Len(SetSteps) = 6
    BY Ranks DEF SetSteps
  <2>2. /\ a[1] = SetSteps[1] /\ a[2] = SetSteps[2] /\ b[1] = SetSteps[3]
        /\ b[2] = SetSteps[4] /\ b[3] = SetSteps[5] /\ b[4] = SetSteps[6]
    BY DEF SetSteps
  <2> HIDE DEF a, b
  <2>3. /\ a \o b \in Seq(Steps) /\ Len(a \o b) = Len(a) + Len(b)
        /\ \A i \in 1..(Len(a) + Len(b)) : (a \o b)[i] = IF i <= Len(a) THEN a[i] ELSE b[i - Len(a)]
    BY <2>1, Concatenated
  <2>4. /\ Len(a \o b) = 6 /\ (a \o b)[1] = a[1] /\ (a \o b)[2] = a[2] /\ (a \o b)[3] = b[1]
        /\ (a \o b)[4] = b[2] /\ (a \o b)[5] = b[3] /\ (a \o b)[6] = b[4]
    BY <2>1, <2>3
  <2>5. \A i \in 1..6 : (a \o b)[i] = SetSteps[i]
    BY <2>2, <2>4
  <2>6. a \o b = SetSteps
    BY <1>1, <2>1, <2>3, <2>4, <2>5, SequencesEqual
  <2> QED BY <2>6 DEF a, b
<1> QED BY <1>1, <1>3, <1>4, <1>5 DEF Called

\* What t does leaves the others' steps and locals alone, and what it stores confirms
\* what they know of the statics.
LEMMA Frame ==
  ASSUME NEW t \in Threads, Known, everSet' = FALSE, Functions', Shared',
         \A u \in Threads \ {t} :
           /\ todo'[u] = todo[u] /\ arg'[u] = arg[u] /\ sel'[u] = sel[u] /\ idx'[u] = idx[u]
           /\ lib'[u] = lib[u] /\ ctx'[u] = ctx[u] /\ used'[u] = used[u],
         cpFeatures' \in {cpFeatures, CPU}, cpFeaturesMask' \in {cpFeaturesMask, CPU},
         jumpIndex' \in {jumpIndex, Best},
         StepsOK(t)', Done(t)', Merged => Consistent(t)'
  PROVE  Known'
<1> SUFFICES ASSUME NEW u \in Threads \ {t}
             PROVE  StepsOK(u)' /\ Done(u)' /\ (Merged => Consistent(u)')
  BY DEF Known
<1>1. Left(u)' = Left(u)
  BY DEF Left
<1>2. StepsOK(u)'
  BY <1>1 DEF Known, StepsOK, Apart
<1>3. Done(u)'
  BY <1>1 DEF Known, Done
<1>4. Merged => Consistent(u)'
  BY <1>1 DEF Known, Consistent
<1> QED BY <1>2, <1>3, <1>4

-----------------------------------------------------------------------------
\* What is left to do are steps.
LEMMA LeftSteps ==
  ASSUME NEW t \in Threads, StepsOK(t)
  PROVE  Left(t) \subseteq Steps
BY DEF Left, StepsOK

\* A step that calls no others is done, and none that comes before it is left.
LEMMA DoneWith ==
  ASSUME NEW t \in Threads, DOMAIN todo = Threads, StepsOK(t), todo[t] # <<>>, Do(t, <<>>)
  PROVE  /\ Left(t) \subseteq Steps /\ Head(todo[t]) \in Left(t)
         /\ \A x \in Left(t) \ {Head(todo[t])} : StepRank[Head(todo[t])] < StepRank[x]
         /\ Left(t)' = Left(t) \ {Head(todo[t])}
         /\ StepsOK(t)'
<1>1. /\ Left(t) \subseteq Steps /\ Head(todo[t]) \in Left(t)
      /\ \A x \in Left(t) \ {Head(todo[t])} : StepRank[Head(todo[t])] < StepRank[x]
      /\ todo'[t] \in Seq(Steps) /\ Increasing(todo'[t])
      /\ Left(t)' = Left(t) \ {Head(todo[t])}
  <2>1. Called(<<>>, {}) /\ \A y \in {}, x \in Left(t) :
          StepRank[Head(todo[t])] < StepRank[x] => StepRank[y] < StepRank[x]
    BY NoneCalled
  <2>2. Left(t)' = {} \cup (Left(t) \ {Head(todo[t])})
    BY <2>1, Continues
  <2> QED BY <2>1, <2>2, Continues
<1>2. Apart(t)'
  BY <1>1, Ranks, SMTT(60) DEF StepsOK, Apart
<1> QED BY <1>1, <1>2 DEF StepsOK

\* The stub: it goes on in the variant published, or initialises the library and starts again.
LEMMA JumpKeeps ==
  ASSUME Known, NEW t \in Threads, Jump(t)
  PROVE  Known'
<1>1. /\ StepsOK(t) /\ Done(t) /\ (Merged => Consistent(t)) /\ Functions /\ Shared
      /\ todo[t] # <<>> /\ Head(todo[t]) = "jump" /\ DOMAIN todo = Threads
  BY DEF Known, Jump, At, Functions
<1>2. CASE jumpIndex = "none"
  <2> DEFINE steps == <<"getFeatures", "set", "jump">>
             members == {"getFeatures", "set", "jump"}
  <2>1. Do(t, steps) /\ everSet' = everSet
    BY <1>2 DEF Jump, Go
  <2>2. Called(steps, members)
    <3>1. /\ "getFeatures" \in Steps /\ "set" \in Steps /\ "jump" \in Steps
          /\ StepRank["getFeatures"] < StepRank["set"] /\ StepRank["set"] < StepRank["jump"]
      BY Ranks
    <3> QED BY <3>1, ThreeCalled
  <2>3. \A y \in members, x \in Left(t) :
          StepRank["jump"] < StepRank[x] => StepRank[y] < StepRank[x]
    <3>1. Left(t) \subseteq Steps
      BY <1>1, LeftSteps
    <3>2. \A y \in members : StepRank[y] \in Nat /\ StepRank[y] <= StepRank["jump"]
      BY Ranks
    <3> QED BY <3>1, <3>2, Ranks, RankIsNat
  <2>4. /\ Left(t) \subseteq Steps /\ "jump" \in Left(t)
        /\ \A x \in Left(t) \ {"jump"} : StepRank["jump"] < StepRank[x]
        /\ todo'[t] \in Seq(Steps) /\ Increasing(todo'[t])
        /\ Left(t)' = members \cup (Left(t) \ {"jump"})
    BY <1>1, <2>1, <2>2, <2>3, Continues
  <2>5. Left(t)' = Left(t) \cup {"getFeatures", "set"}
    BY <2>4
  <2>6. Left(t) \subseteq {"jump"} \cup Aes
    BY <2>4, Ranks DEF Aes
  <2>7. StepsOK(t)'
    BY <1>1, <2>4, <2>5, <2>6 DEF StepsOK, Apart, Aes, Initialising
  <2>8. Done(t)'
    BY <2>5, <2>6 DEF Done, Initialising, Aes
  <2>9. Merged => Consistent(t)'
    BY <1>1, <2>4, <2>5 DEF Consistent, Jump, Aes
  <2> QED BY <1>1, <1>2, <2>1, <2>7, <2>8, <2>9, Frame DEF Known, Jump, Functions, Shared, statics, Do, Go
<1>3. CASE jumpIndex # "none"
  <2>1. Do(t, <<>>) /\ everSet' = everSet
    BY <1>3 DEF Jump, Go
  <2>2. /\ Left(t) \subseteq Steps /\ "jump" \in Left(t)
        /\ \A x \in Left(t) \ {"jump"} : StepRank["jump"] < StepRank[x]
        /\ Left(t)' = Left(t) \ {"jump"} /\ StepsOK(t)'
    BY <1>1, <2>1, DoneWith
  <2>3. Left(t)' \subseteq Aes
    BY <2>2, Ranks DEF Aes
  <2>4. Done(t)'
    BY <2>3 DEF Done, Initialising, Aes
  <2>5. Merged => Consistent(t)'
    BY <1>1, <1>3, <2>2 DEF Consistent, Jump, Aes, Shared, Functions, statics
  <2> QED BY <1>1, <1>3, <2>1, <2>2, <2>4, <2>5, Frame DEF Known, Jump, Functions, Shared, statics, Do, Go
<1> QED BY <1>2, <1>3

\* What is known of a thread that is about to take step s.
Ready(t, s) ==
  /\ todo[t] # <<>> /\ Head(todo[t]) = s /\ everSet = FALSE /\ Functions /\ Shared
  /\ StepsOK(t) /\ Done(t) /\ (Merged => Consistent(t))
  /\ s \in Left(t) /\ Left(t) \subseteq Steps
  /\ \A x \in Left(t) \ {s} : StepRank[s] < StepRank[x]

\* What is known after a step s that called no others.
Finished(t, s) ==
  /\ Left(t)' = Left(t) \ {s} /\ StepsOK(t)' /\ everSet' = FALSE
  /\ DOMAIN todo' = Threads /\ DOMAIN op' = Threads
  /\ \A u \in Threads \ {t} : todo'[u] = todo[u]

\* What the invariant says of a thread about to take step s.
LEMMA AtHand ==
  ASSUME Known, NEW t \in Threads, NEW s, At(t, s)
  PROVE  Ready(t, s)
<1>1. /\ todo[t] # <<>> /\ Head(todo[t]) = s /\ everSet = FALSE /\ Functions /\ Shared
      /\ StepsOK(t) /\ Done(t) /\ (Merged => Consistent(t))
  BY DEF Known, At
<1>2. todo[t] \in Seq(Steps) /\ Increasing(todo[t])
  BY <1>1 DEF StepsOK
<1> DEFINE r == todo[t]
<1>3. /\ Head(r) \in Steps /\ \A i \in DOMAIN Tail(r) : StepRank[Head(r)] < StepRank[Tail(r)[i]]
      /\ Left(t) = {Head(r)} \cup {Tail(r)[i] : i \in DOMAIN Tail(r)}
      /\ Tail(r) \in Seq(Steps)
  BY <1>1, <1>2, HeadFirst DEF Left
<1> QED BY <1>1, <1>3 DEF Ready

\* A step that comes before the one at hand is not left.
LEMMA Passed ==
  ASSUME NEW t \in Threads, NEW s \in Steps, Ready(t, s),
         NEW x \in Steps, StepRank[x] < StepRank[s]
  PROVE  x \notin Left(t)
BY RankIsNat DEF Ready

\* A step that calls no others leaves the rest of the call.
LEMMA Finishes ==
  ASSUME Known, NEW t \in Threads, NEW s, At(t, s), Go(t, <<>>)
  PROVE  Finished(t, s)
<1>1. Ready(t, s) /\ Do(t, <<>>) /\ DOMAIN todo = Threads
  BY AtHand DEF Go, Ready, Functions
<1>2. Left(t)' = Left(t) \ {Head(todo[t])} /\ StepsOK(t)'
  BY <1>1, DoneWith DEF Ready
<1> QED BY <1>1, <1>2 DEF Finished, Ready, Go, Do, Functions

\* cpGetFeatures stores what CPUID reports.
LEMMA DetectKeeps ==
  ASSUME Known, NEW t \in Threads, Detect(t)
  PROVE  Known'
<1>1. At(t, "detect") /\ Go(t, <<>>)
  BY DEF Detect
<1>2. Ready(t, "detect") /\ Finished(t, "detect")
  BY <1>1, AtHand, Finishes
<1>3. Functions' /\ Shared'
  BY <1>2 DEF Ready, Finished, Functions, Shared, Detect, locals
<1>4. Done(t)'
  <2>1. "enableAll" \in Left(t)'
    BY <1>2 DEF Ready, Finished, StepsOK, Apart
  <2> QED BY <1>2, <2>1 DEF Ready, Finished, Done, Detect, locals, Initialising
<1>5. Merged => Consistent(t)'
  BY <1>2 DEF Ready, Finished, Consistent, Detect, locals, Aes
<1> QED BY <1>2, <1>3, <1>4, <1>5, Frame DEF Ready, Finished, Detect, locals

\* cpGetFeatures enables all features, and they were detected before.
LEMMA EnableAllKeeps ==
  ASSUME Known, NEW t \in Threads, EnableAll(t)
  PROVE  Known'
<1>1. At(t, "enableAll") /\ Go(t, <<>>)
  BY DEF EnableAll
<1>2. Ready(t, "enableAll") /\ Finished(t, "enableAll")
  BY <1>1, AtHand, Finishes
<1>3. Functions' /\ Shared'
  BY <1>2 DEF Ready, Finished, Functions, Shared, EnableAll, locals
<1>4. Done(t)'
  <2>1. "detect" \notin Left(t)
    BY <1>2, Ranks, Passed
  <2>2. \/ "readBack" \in Left(t)'
        \/ "choose" \in Left(t)' /\ "set" \notin Left(t)'
    BY <1>2 DEF Ready, Finished, StepsOK, Apart, Initialising
  <2> QED BY <1>2, <2>1, <2>2 DEF Ready, Finished, Done, EnableAll, locals, Initialising
<1>5. Merged => Consistent(t)'
  BY <1>2 DEF Ready, Finished, Consistent, EnableAll, locals, Aes
<1> QED BY <1>2, <1>3, <1>4, <1>5, Frame DEF Ready, Finished, EnableAll, locals

\* cpGetFeatures returns the static, which is what CPUID reports.
LEMMA ReadBackKeeps ==
  ASSUME Known, NEW t \in Threads, ReadBack(t)
  PROVE  Known'
<1>1. At(t, "readBack") /\ Go(t, <<>>)
  BY DEF ReadBack
<1>2. Ready(t, "readBack") /\ Finished(t, "readBack")
  BY <1>1, AtHand, Finishes
<1>3. Functions' /\ Shared'
  BY <1>2 DEF Ready, Finished, Functions, Shared, ReadBack, statics
<1>4. "detect" \notin Left(t) /\ Left(t) \cap Initialising = {}
  BY <1>2, Ranks DEF Ready, StepsOK, Apart
<1>5. cpFeatures = CPU
  BY <1>2, <1>4 DEF Ready, Done
<1>6. arg'[t] = CPU
  BY <1>2, <1>5 DEF Ready, ReadBack, Functions
<1>7. Done(t)'
  BY <1>2, <1>4, <1>6 DEF Ready, Finished, Done, ReadBack, statics, Initialising
<1>8. Merged => Consistent(t)'
  BY <1>2 DEF Ready, Finished, Consistent, ReadBack, statics, Aes
<1> QED BY <1>2, <1>3, <1>7, <1>8, Frame DEF Ready, Finished, Functions, ReadBack, statics

\* All features detected and wanted select the best variant.
LEMMA FeaturesToIdxKeeps ==
  ASSUME Known, NEW t \in Threads, FeaturesToIdx(t)
  PROVE  Known'
<1>1. At(t, "toIdx") /\ Go(t, <<>>)
  BY DEF FeaturesToIdx
<1>2. Ready(t, "toIdx") /\ Finished(t, "toIdx")
  BY <1>1, AtHand, Finishes
<1>3. Functions' /\ Shared'
  BY <1>2 DEF Ready, Finished, Functions, Shared, FeaturesToIdx, statics
<1>4. "detect" \notin Left(t)
  BY <1>2, Ranks, Passed
<1>5. cpFeatures = CPU /\ sel[t] = CPU
  BY <1>2, <1>4 DEF Ready, Done, Initialising
<1>6. sel'[t] = CPU /\ idx'[t] = Best
  BY <1>2, <1>5, BestRung DEF Ready, FeaturesToIdx, Functions, Best
<1>7. Done(t)'
  BY <1>2, <1>6 DEF Ready, Finished, Done, FeaturesToIdx, statics, Initialising
<1>8. Merged => Consistent(t)'
  BY <1>2 DEF Ready, Finished, Consistent, FeaturesToIdx, statics, Aes
<1> QED BY <1>2, <1>3, <1>7, <1>8, Frame DEF Ready, Finished, Functions, FeaturesToIdx, statics

\* The mask of the selected rung and all features is all features.
LEMMA LevelMaskKeeps ==
  ASSUME Known, NEW t \in Threads, LevelMask(t)
  PROVE  Known'
<1>1. At(t, "levelMask") /\ Go(t, <<>>)
  BY DEF LevelMask
<1>2. Ready(t, "levelMask") /\ Finished(t, "levelMask")
  BY <1>1, AtHand, Finishes
<1>3. cpFeaturesMask' = CPU
  BY <1>2 DEF Ready, Done, LevelMask
<1>4. Functions' /\ Shared'
  BY <1>2, <1>3 DEF Ready, Finished, Functions, Shared, LevelMask, locals
<1>5. Done(t)'
  BY <1>2, <1>3 DEF Ready, Finished, Done, LevelMask, locals, Initialising
<1>6. Merged => Consistent(t)'
  BY <1>2 DEF Ready, Finished, Consistent, LevelMask, locals, Aes
<1> QED BY <1>2, <1>3, <1>4, <1>5, <1>6, Frame DEF Ready, Finished, LevelMask, locals

\* The variant published is the best one, and the features are in place.
LEMMA PublishKeeps ==
  ASSUME Known, NEW t \in Threads, Publish(t)
  PROVE  Known'
<1>1. At(t, "publish") /\ Go(t, <<>>)
  BY DEF Publish
<1>2. Ready(t, "publish") /\ Finished(t, "publish")
  BY <1>1, AtHand, Finishes
<1>3. Left(t) \cap {"detect", "enableAll", "toIdx"} = {}
  BY <1>2, Ranks DEF Ready
<1>4. jumpIndex' = Best /\ cpFeatures = CPU /\ cpFeaturesMask = CPU
  BY <1>2, <1>3 DEF Ready, Done, Publish, Initialising
<1>5. Functions' /\ Shared'
  BY <1>2, <1>4 DEF Ready, Finished, Functions, Shared, Publish, locals
<1>6. Done(t)'
  BY <1>2 DEF Ready, Finished, Done, Publish, locals, Initialising
<1>7. Merged => Consistent(t)'
  BY <1>2, <1>4 DEF Ready, Finished, Consistent, Publish, locals, Aes
<1> QED BY <1>2, <1>4, <1>5, <1>6, <1>7, Frame DEF Ready, Finished, Publish, locals

\* The mask stored last is the argument, all features.
LEMMA ChooseKeeps ==
  ASSUME Known, NEW t \in Threads, Choose(t)
  PROVE  Known'
<1>1. At(t, "choose") /\ Go(t, <<>>)
  BY DEF Choose
<1>2. Ready(t, "choose") /\ Finished(t, "choose")
  BY <1>1, AtHand, Finishes
<1>3. cpFeaturesMask' = CPU
  BY <1>2 DEF Ready, Done, Choose
<1>4. Functions' /\ Shared'
  BY <1>2, <1>3 DEF Ready, Finished, Functions, Shared, Choose, locals
<1>5. Done(t)'
  BY <1>2, <1>3 DEF Ready, Finished, Done, Choose, locals, Initialising
<1>6. Merged => Consistent(t)'
  BY <1>2 DEF Ready, Finished, Consistent, Choose, locals, Aes
<1> QED BY <1>2, <1>3, <1>4, <1>5, <1>6, Frame DEF Ready, Finished, Choose, locals

\* What is known after a step s that called others.
Went(t, s, members) ==
  /\ Left(t)' = members \cup (Left(t) \ {s})
  /\ todo'[t] \in Seq(Steps) /\ Increasing(todo'[t]) /\ everSet' = FALSE
  /\ DOMAIN todo' = Threads /\ DOMAIN op' = Threads
  /\ \A u \in Threads \ {t} : todo'[u] = todo[u]

\* A step that calls others leaves them and the rest of the call.
LEMMA Calls ==
  ASSUME Known, NEW t \in Threads, NEW s, At(t, s), NEW steps, NEW members, Go(t, steps),
         Called(steps, members),
         \A y \in members, x \in Left(t) :
           StepRank[s] < StepRank[x] => StepRank[y] < StepRank[x]
  PROVE  Went(t, s, members)
<1>1. Ready(t, s) /\ Do(t, steps) /\ DOMAIN todo = Threads
  BY AtHand DEF Go, Ready, Functions
<1>2. StepsOK(t) /\ todo[t] # <<>> /\ Head(todo[t]) = s
  BY <1>1 DEF Ready
<1>3. /\ Left(t)' = members \cup (Left(t) \ {s})
      /\ todo'[t] \in Seq(Steps) /\ Increasing(todo'[t])
  BY <1>1, <1>2, Continues
<1> QED BY <1>1, <1>3 DEF Went, Ready, Go, Do, Functions

\* ippcpSetCpuFeatures is called with all features: its argument came from ippcpGetCpuFeatures.
LEMMA SetCpuFeaturesKeeps ==
  ASSUME Known, NEW t \in Threads, SetCpuFeatures(t)
  PROVE  Known'
<1> DEFINE members == {"detect", "enableAll"} \cup Initialising
<1>1. At(t, "set")
  BY DEF SetCpuFeatures
<1>2. Ready(t, "set")
  BY <1>1, AtHand
<1>3. /\ Left(t) \cap {"query", "getFeatures", "detect", "enableAll", "readBack"} = {}
      /\ Left(t) \cap Initialising = {}
  <2>1. Left(t) \cap {"query", "getFeatures", "detect", "enableAll", "readBack"} = {}
    BY <1>2, Ranks DEF Ready
  <2>2. Left(t) \cap Initialising = {}
    BY <1>2 DEF Ready, StepsOK, Apart
  <2> QED BY <2>1, <2>2
<1>4. arg[t] = CPU /\ "NOCHECK" \notin arg[t]
  BY <1>2, <1>3, BestRung DEF Ready, Done
<1>5. Go(t, SetSteps) /\ cpFeatures' = cpFeatures
  BY <1>4, SetCalled DEF SetCpuFeatures
<1>6. \A y \in members, x \in Left(t) :
        StepRank["set"] < StepRank[x] => StepRank[y] < StepRank[x]
  <2>1. \A x \in Left(t) : StepRank["set"] < StepRank[x] => StepRank[x] > 10
    BY <1>2, <1>3, Ranks DEF Ready, Initialising
  <2>2. \A y \in members : StepRank[y] \in Nat /\ StepRank[y] <= 10
    BY Ranks DEF Initialising
  <2>3. \A x \in Left(t) : StepRank[x] \in Nat
    BY <1>2, RankIsNat DEF Ready
  <2> QED BY <2>1, <2>2, <2>3
<1>7. Went(t, "set", members)
  BY <1>1, <1>5, <1>6, SetCalled, Calls
<1>8. StepsOK(t)'
  BY <1>2, <1>3, <1>7 DEF Ready, Went, StepsOK, Apart, Initialising
<1>9. sel'[t] = CPU /\ arg'[t] = CPU
  BY <1>2, <1>4 DEF Ready, Functions, SetCpuFeatures
<1>10. Done(t)'
  BY <1>3, <1>7, <1>9 DEF Went, Done, Initialising
<1>11. Functions' /\ Shared'
  BY <1>2, <1>5, <1>7 DEF Ready, Went, Functions, Shared, SetCpuFeatures
<1>12. Merged => Consistent(t)'
  BY <1>2, <1>7 DEF Ready, Went, Consistent, SetCpuFeatures, Aes, Initialising
<1> QED BY <1>2, <1>5, <1>7, <1>8, <1>10, <1>11, <1>12, Frame
        DEF Ready, Went, Functions, SetCpuFeatures

\* ippcpGetCpuFeatures returns the cached features or detects them.
LEMMA GetCpuFeaturesKeeps ==
  ASSUME Known, NEW t \in Threads, GetCpuFeatures(t)
  PROVE  Known'
<1>1. At(t, "getFeatures")
  BY DEF GetCpuFeatures
<1>2. Ready(t, "getFeatures")
  BY <1>1, AtHand
<1>3. /\ Left(t) \cap {"query", "detect", "enableAll", "readBack"} = {}
      /\ Left(t) \cap Initialising = {}
  BY <1>2, Ranks, Passed DEF Ready, StepsOK, Apart
<1>4. CASE cpFeatures # {}
  <2>1. Go(t, <<>>) /\ arg' = [arg EXCEPT ![t] = cpFeatures]
    BY <1>4 DEF GetCpuFeatures
  <2>2. Finished(t, "getFeatures")
    BY <1>1, <2>1, Finishes
  <2>3. arg'[t] = CPU
    BY <1>2, <1>4, <2>1 DEF Ready, Functions, Shared
  <2>4. Done(t)'
    BY <1>2, <1>3, <2>2, <2>3 DEF Ready, Finished, Done, Initialising, GetCpuFeatures, statics
  <2>5. Functions' /\ Shared'
    BY <1>2, <2>1, <2>2 DEF Ready, Finished, Functions, Shared, GetCpuFeatures, statics
  <2>6. Merged => Consistent(t)'
    BY <1>2, <2>2 DEF Ready, Finished, Consistent, GetCpuFeatures, statics, Aes
  <2> QED BY <1>2, <2>1, <2>2, <2>4, <2>5, <2>6, Frame
          DEF Ready, Finished, Functions, GetCpuFeatures, statics
<1>5. CASE cpFeatures = {}
  <2> DEFINE members == {"detect", "enableAll", "readBack"}
  <2>1. Go(t, <<"detect", "enableAll", "readBack">>) /\ arg' = arg
    BY <1>5 DEF GetCpuFeatures
  <2>2. Called(<<"detect", "enableAll", "readBack">>, members)
    <3>1. /\ "detect" \in Steps /\ "enableAll" \in Steps /\ "readBack" \in Steps
          /\ StepRank["detect"] < StepRank["enableAll"]
          /\ StepRank["enableAll"] < StepRank["readBack"]
      BY Ranks
    <3> QED BY <3>1, ThreeCalled
  <2>3. \A y \in members, x \in Left(t) :
          StepRank["getFeatures"] < StepRank[x] => StepRank[y] < StepRank[x]
    <3>1. \A x \in Steps \ ({"query", "getFeatures"} \cup members), y \in members :
            StepRank[y] < StepRank[x]
      BY Ranks
    <3>2. Left(t) \subseteq Steps /\ "query" \notin Left(t) /\ Left(t) \cap members = {}
      BY <1>2, <1>3 DEF Ready
    <3>3. ~(StepRank["getFeatures"] < StepRank["getFeatures"])
      BY Ranks
    <3> QED BY <3>1, <3>2, <3>3
  <2>4. Went(t, "getFeatures", members)
    BY <1>1, <2>1, <2>2, <2>3, Calls
  <2>5. StepsOK(t)'
    BY <1>2, <1>3, <2>4 DEF Ready, Went, StepsOK, Apart, Initialising
  <2>6. Done(t)'
    BY <1>2, <1>3, <2>1, <2>4 DEF Ready, Went, Done, Initialising, GetCpuFeatures
  <2>7. Functions' /\ Shared'
    BY <1>2, <2>1, <2>4 DEF Ready, Went, Functions, Shared, GetCpuFeatures, statics
  <2>8. Merged => Consistent(t)'
    BY <1>2, <2>4 DEF Ready, Went, Consistent, GetCpuFeatures, statics, Aes
  <2> QED BY <1>2, <2>1, <2>4, <2>5, <2>6, <2>7, <2>8, Frame
          DEF Ready, Went, Functions, GetCpuFeatures, statics
<1> QED BY <1>4, <1>5

\* cpGetFeature fills an empty mask.
LEMMA QueryKeeps ==
  ASSUME Known, NEW t \in Threads, Query(t)
  PROVE  Known'
<1>1. At(t, "query")
  BY DEF Query
<1>2. Ready(t, "query")
  BY <1>1, AtHand
<1>3. Left(t) \cap {"getFeatures", "detect", "enableAll", "readBack", "set", "jump"} = {}
      /\ Left(t) \cap Initialising = {}
  BY <1>2 DEF Ready, StepsOK, Apart
<1>4. CASE cpFeaturesMask # {}
  <2>1. Go(t, <<>>)
    BY <1>4 DEF Query
  <2>2. Finished(t, "query")
    BY <1>1, <2>1, Finishes
  <2>3. Done(t)'
    BY <1>2, <1>3, <2>2 DEF Ready, Finished, Done, Initialising, Query, locals
  <2>4. Functions' /\ Shared'
    BY <1>2, <2>2 DEF Ready, Finished, Functions, Shared, Query, statics, locals
  <2>5. Merged => Consistent(t)'
    BY <1>2, <2>2 DEF Ready, Finished, Consistent, Query, statics, locals, Aes
  <2> QED BY <1>2, <2>1, <2>2, <2>3, <2>4, <2>5, Frame
          DEF Ready, Finished, Functions, Query, statics, locals
<1>5. CASE cpFeaturesMask = {}
  <2>1. Go(t, <<"getFeatures">>)
    BY <1>5 DEF Query
  <2>2. Called(<<"getFeatures">>, {"getFeatures"})
    BY OneCalled, Ranks
  <2>3. \A y \in {"getFeatures"}, x \in Left(t) :
          StepRank["query"] < StepRank[x] => StepRank[y] < StepRank[x]
    <3>1. \A x \in Steps \ {"query", "getFeatures"} : StepRank["getFeatures"] < StepRank[x]
      BY Ranks
    <3>2. Left(t) \subseteq Steps /\ "getFeatures" \notin Left(t)
      BY <1>2, <1>3 DEF Ready
    <3>3. ~(StepRank["query"] < StepRank["query"])
      BY Ranks
    <3> QED BY <3>1, <3>2, <3>3
  <2>4. Went(t, "query", {"getFeatures"})
    BY <1>1, <2>1, <2>2, <2>3, Calls
  <2>5. StepsOK(t)'
    BY <1>2, <1>3, <2>4 DEF Ready, Went, StepsOK, Apart, Initialising
  <2>6. Done(t)'
    BY <1>2, <1>3, <2>1, <2>4 DEF Ready, Went, Done, Initialising, Query, locals
  <2>7. Functions' /\ Shared'
    BY <1>2, <2>1, <2>4 DEF Ready, Went, Functions, Shared, Query, statics, locals
  <2>8. Merged => Consistent(t)'
    BY <1>2, <2>4 DEF Ready, Went, Consistent, Query, statics, locals, Aes
  <2> QED BY <1>2, <2>1, <2>4, <2>5, <2>6, <2>7, <2>8, Frame
          DEF Ready, Went, Functions, Query, statics, locals
<1> QED BY <1>4, <1>5

\* ippsAESInit and the cipher functions ask for the features with nothing of an
\* initialisation left, and go on with the answer.
LEMMA AskKeeps ==
  ASSUME Known, NEW t \in Threads, NEW s, NEW ticktock, NEW answer, Ask(t, s, ticktock, answer),
         <<s, answer>> \in {<<"methods", "setMethods">>, <<"keys", "expandKeys">>, <<"ecb", "cipher">>}
  PROVE  Known'
<1>1. At(t, s) /\ s \in Steps /\ answer \in Steps /\ s \in {"methods", "keys", "ecb"}
  BY Ranks DEF Ask
<1>2. Ready(t, s)
  BY <1>1, AtHand
<1>3. /\ Left(t) \cap {"query", "getFeatures", "detect", "enableAll", "readBack", "set", "jump"} = {}
      /\ Left(t) \cap Initialising = {}
  BY <1>1, <1>2, Ranks, Passed DEF Initialising
<1>4. \A x \in Left(t) : StepRank[s] < StepRank[x] => StepRank[answer] < StepRank[x]
  <2>1. answer \notin Left(t)
    BY <1>1, <1>2 DEF Ready, StepsOK, Apart
  <2>2. \A x \in Steps : StepRank[s] < StepRank[x] /\ x # answer => StepRank[answer] < StepRank[x]
    BY <1>1, Ranks
  <2> QED BY <1>2, <2>1, <2>2 DEF Ready
<1> DEFINE members == IF ticktock THEN {"query", answer} ELSE {answer}
           steps == IF ticktock THEN <<"query", answer>> ELSE <<answer>>
<1>5. Called(steps, members)
  <2>1. StepRank["query"] < StepRank[answer] /\ "query" \in Steps
    BY Ranks
  <2>2. Called(<<"query", answer>>, {"query", answer})
    BY <1>1, <2>1, TwoCalled
  <2>3. Called(<<answer>>, {answer})
    BY <1>1, OneCalled
  <2> QED BY <2>2, <2>3
<1>6. \A y \in members, x \in Left(t) : StepRank[s] < StepRank[x] => StepRank[y] < StepRank[x]
  <2>1. \A x \in Left(t) : StepRank[s] < StepRank[x] => StepRank["query"] < StepRank[x]
    <3>1. StepRank["query"] < StepRank[s] /\ StepRank["query"] \in Nat /\ StepRank[s] \in Nat
      BY <1>1, Ranks
    <3> QED BY <1>2, <3>1, RankIsNat DEF Ready
  <2> QED BY <1>4, <2>1
<1>7. Went(t, s, members)
  <2>1. Go(t, steps)
    BY DEF Ask
  <2> HIDE DEF steps, members
  <2> QED BY <1>1, <2>1, <1>5, <1>6, Calls
<1>8. Apart(t)'
  <2>1. /\ s # "methods" => "methods" \notin Left(t) /\ "setMethods" \notin Left(t)
        /\ s = "ecb" => "keys" \notin Left(t) /\ "expandKeys" \notin Left(t)
    BY <1>1, <1>2, Ranks, Passed
  <2>2. Apart(t) /\ s \in Left(t)
    BY <1>2 DEF Ready, StepsOK
  <2>3. \/ Left(t)' = {"query", answer} \cup (Left(t) \ {s})
        \/ Left(t)' = {answer} \cup (Left(t) \ {s})
    BY <1>7 DEF Went
  <2>4. CASE s = "methods"
    <3>1. answer = "setMethods"
      BY <2>4
    <3> QED BY <1>3, <2>2, <2>3, <2>4, <3>1 DEF Apart, Initialising
  <2>5. CASE s = "keys"
    <3>1. answer = "expandKeys"
      BY <2>5
    <3> QED BY <1>3, <2>1, <2>2, <2>3, <2>5, <3>1 DEF Apart, Initialising
  <2>6. CASE s = "ecb"
    <3>1. answer = "cipher"
      BY <2>6
    <3> QED BY <1>3, <2>1, <2>2, <2>3, <2>6, <3>1 DEF Apart, Initialising
  <2> QED BY <1>1, <2>4, <2>5, <2>6
<1>9. Done(t)'
  BY <1>1, <1>2, <1>3, <1>7 DEF Ready, Went, Done, Initialising, Ask, locals
<1>10. Functions' /\ Shared'
  BY <1>2, <1>7 DEF Ready, Went, Functions, Shared, Ask, statics, locals
<1>11. Merged => Consistent(t)'
  BY <1>1, <1>2, <1>3, <1>7 DEF Ready, Went, Consistent, Ask, statics, locals, Aes, StepsOK, Apart
<1>12. StepsOK(t)'
  BY <1>7, <1>8 DEF Went, StepsOK
<1> QED BY <1>2, <1>7, <1>9, <1>10, <1>11, <1>12, Frame
        DEF Ready, Went, Functions, Ask, statics, locals

\* ippsAESInit asks which cipher to use.
LEMMA AskMethodsKeeps ==
  ASSUME Known, NEW t \in Threads, AskMethods(t)
  PROVE  Known'
<1>1. PICK ticktock \in BOOLEAN : Ask(t, "methods", ticktock, "setMethods")
  BY DEF AskMethods, TickTock
<1> QED BY <1>1, AskKeeps

\* ippsAESInit asks how to lay out the keys.
LEMMA AskKeysKeeps ==
  ASSUME Known, NEW t \in Threads, AskKeys(t)
  PROVE  Known'
<1>1. PICK ticktock \in BOOLEAN : Ask(t, "keys", ticktock, "expandKeys")
  BY DEF AskKeys, TickTock
<1> QED BY <1>1, AskKeeps

\* ippsAESEncryptECB asks for vector AES.
LEMMA AskEcbKeeps ==
  ASSUME Known, NEW t \in Threads, AskEcb(t)
  PROVE  Known'
<1>1. PICK ticktock \in BOOLEAN : Ask(t, "ecb", ticktock, "cipher")
  BY DEF AskEcb, TickTock
<1> QED BY <1>1, AskKeeps

\* In a merged library the thread runs the best variant with all features enabled, and
\* whoever asks is told the same.
LEMMA SameLayout ==
  ASSUME Known, NEW t \in Threads, NEW s, Ready(t, s), s \in Aes, Merged
  PROVE  /\ lib[t] = Best /\ Layout(t) = BestLayout /\ cpFeaturesMask = CPU
         /\ "jump" \notin Left(t)
<1>1. "jump" \notin Left(t)
  <2>1. s \in Steps /\ StepRank["jump"] < StepRank[s] /\ "jump" \in Steps
    BY Ranks DEF Aes
  <2> QED BY <2>1, Passed
<1>2. lib[t] = Best /\ jumpIndex = Best
  BY <1>1 DEF Ready, Consistent
<1>3. cpFeaturesMask = CPU
  BY <1>2, BestRung DEF Ready, Shared, Lib
<1> QED BY <1>1, <1>2, <1>3 DEF Layout, TickTock, IsFeatureEnabled, BestLayout

\* The cipher is the one for the best variant with all features.
LEMMA SetMethodsKeeps ==
  ASSUME Known, NEW t \in Threads, SetMethods(t)
  PROVE  Known'
<1>1. At(t, "setMethods") /\ Go(t, <<>>)
  BY DEF SetMethods
<1>2. Ready(t, "setMethods") /\ Finished(t, "setMethods")
  BY <1>1, AtHand, Finishes
<1>3. Functions' /\ Shared'
  BY <1>2 DEF Ready, Finished, Functions, Shared, SetMethods, statics
<1>4. Done(t)'
  BY <1>2 DEF Ready, Finished, Done, SetMethods, statics, Initialising
<1>5. ASSUME Merged PROVE Consistent(t)'
  <2>1. Layout(t) = BestLayout /\ lib[t] = Best
    BY <1>2, <1>5, SameLayout DEF Aes
  <2>2. ctx'[t] = [engine |-> BestLayout, keys |-> "none"]
    BY <1>2, <2>1 DEF Ready, Functions, SetMethods, NoCtx
  <2>3. "keys" \in Left(t)' /\ Left(t)' \cap {"ecb", "cipher"} = {}
    BY <1>2 DEF Ready, Finished, StepsOK, Apart
  <2> QED BY <1>2, <1>5, <2>2, <2>3 DEF Ready, Finished, Consistent, SetMethods, statics, Aes
<1> QED BY <1>2, <1>3, <1>4, <1>5, Frame DEF Ready, Finished, Functions, SetMethods, statics

\* The keys are laid out for the same cipher.
LEMMA ExpandKeysKeeps ==
  ASSUME Known, NEW t \in Threads, ExpandKeys(t)
  PROVE  Known'
<1>1. At(t, "expandKeys") /\ Go(t, <<>>)
  BY DEF ExpandKeys
<1>2. Ready(t, "expandKeys") /\ Finished(t, "expandKeys")
  BY <1>1, AtHand, Finishes
<1>3. Functions' /\ Shared'
  BY <1>2 DEF Ready, Finished, Functions, Shared, ExpandKeys, statics
<1>4. Done(t)'
  BY <1>2 DEF Ready, Finished, Done, ExpandKeys, statics, Initialising
<1>5. ASSUME Merged PROVE Consistent(t)'
  <2>1. Layout(t) = BestLayout /\ lib[t] = Best
    BY <1>2, <1>5, SameLayout DEF Aes
  <2>2. Left(t) \cap {"methods", "setMethods", "keys"} = {}
    BY <1>2, Ranks, Passed
  <2>3. ctx[t] = [engine |-> BestLayout, keys |-> "none"]
    BY <1>2, <1>5, <2>2 DEF Ready, Consistent
  <2>4. ctx'[t] = FullCtx
    BY <1>2, <2>1, <2>3 DEF Ready, Functions, ExpandKeys, FullCtx
  <2> QED BY <1>2, <1>5, <2>2, <2>4 DEF Ready, Finished, Consistent, ExpandKeys, statics, Aes
<1> QED BY <1>2, <1>3, <1>4, <1>5, Frame DEF Ready, Finished, Functions, ExpandKeys, statics

\* The cipher that runs takes keys of that layout, also where the K1 variant takes its own.
LEMMA CipherKeeps ==
  ASSUME Known, NEW t \in Threads, Cipher(t)
  PROVE  Known'
<1>1. At(t, "cipher") /\ Go(t, <<>>)
  BY DEF Cipher
<1>2. Ready(t, "cipher") /\ Finished(t, "cipher")
  BY <1>1, AtHand, Finishes
<1>3. Functions' /\ Shared'
  BY <1>2 DEF Ready, Finished, Functions, Shared, Cipher, statics
<1>4. Done(t)'
  BY <1>2 DEF Ready, Finished, Done, Cipher, statics, Initialising
<1>5. ASSUME Merged PROVE Consistent(t)'
  <2>1. lib[t] = Best /\ cpFeaturesMask = CPU
    BY <1>2, <1>5, SameLayout DEF Aes
  <2>2. ctx[t] = FullCtx
    BY <1>2, <1>5 DEF Ready, Consistent
  <2>3. Engine(t) = BestLayout
    BY <2>1, <2>2, CpuAssumption DEF Engine, IsFeatureEnabled, FullCtx, BestLayout
  <2>4. used'[t] = "right"
    BY <1>2, <2>2, <2>3 DEF Ready, Functions, Cipher, FullCtx
  <2> QED BY <1>2, <1>5, <2>4 DEF Ready, Finished, Consistent, Cipher, statics, Aes
<1> QED BY <1>2, <1>3, <1>4, <1>5, Frame DEF Ready, Finished, Functions, Cipher, statics

\* The stub comes first.
LEMMA StubFirst ==
  ASSUME NEW r, NEW members \in SUBSET Steps, Called(r, members),
         \A y \in members : StepRank["jump"] < StepRank[y]
  PROVE  Called(Stub \o r, (IF Merged THEN {"jump"} ELSE {}) \cup members)
<1> DEFINE jump == IF Merged THEN {"jump"} ELSE {}
<1>1. Called(Stub, jump)
  BY NoneCalled, OneCalled, Ranks DEF Stub
<1>2. \A x \in jump, y \in members : StepRank[x] < StepRank[y]
  OBVIOUS
<1> HIDE DEF jump
<1>3. \A k \in DOMAIN Stub, i \in DOMAIN r : StepRank[Stub[k]] < StepRank[r[i]]
  BY <1>1, <1>2 DEF Called
<1>4. Called(Stub \o r, jump \cup members)
  BY <1>1, <1>3, InFront DEF Called
<1> QED BY <1>4 DEF jump

\* A call starts with nothing done of it, and ECB only with a finished context.
LEMMA CallKeeps ==
  ASSUME Known, NEW t \in Threads, NEW o \in Op, NEW mask, Call(t, o, mask), o # "Set"
  PROVE  Known'
<1>1. /\ todo[t] = <<>> /\ everSet' = FALSE /\ Functions /\ Shared
      /\ StepsOK(t) /\ Done(t) /\ (Merged => Consistent(t))
  BY DEF Known, Call
<1>2. Left(t) = {}
  BY <1>1 DEF Left
<1> DEFINE jump == IF Merged THEN {"jump"} ELSE {}
           members == CASE o = "Init" -> {"getFeatures", "set"}
                        [] o = "GetCpu" -> {"getFeatures"}
                        [] o = "AESInit" -> jump \cup {"methods", "keys"}
                        [] o = "ECB" -> jump \cup {"ecb"}
<1>3. o \in {"Init", "GetCpu", "AESInit", "ECB"}
  BY DEF Op, UserOps
<1>4. Called(Body(o), members)
  <2>1. /\ {"getFeatures", "set", "jump", "methods", "keys", "ecb"} \subseteq Steps
        /\ StepRank["getFeatures"] < StepRank["set"] /\ StepRank["methods"] < StepRank["keys"]
    BY Ranks
  <2>2. CASE o = "Init"
    <3>1. Called(<<"getFeatures", "set">>, {"getFeatures", "set"})
      BY <2>1, TwoCalled
    <3> QED BY <2>2, <3>1 DEF Body
  <2>3. CASE o = "GetCpu"
    <3>1. Called(<<"getFeatures">>, {"getFeatures"})
      BY <2>1, OneCalled
    <3> QED BY <2>3, <3>1 DEF Body
  <2>4. CASE o = "AESInit"
    <3>1. Called(<<"methods", "keys">>, {"methods", "keys"})
      BY <2>1, TwoCalled
    <3>2. \A y \in {"methods", "keys"} : y \in Steps /\ StepRank["jump"] < StepRank[y]
      BY Ranks
    <3>3. Called(Stub \o <<"methods", "keys">>, jump \cup {"methods", "keys"})
      BY <3>1, <3>2, StubFirst
    <3> QED BY <2>4, <3>3 DEF Body
  <2>5. CASE o = "ECB"
    <3>1. Called(<<"ecb">>, {"ecb"})
      BY <2>1, OneCalled
    <3>2. \A y \in {"ecb"} : y \in Steps /\ StepRank["jump"] < StepRank[y]
      BY Ranks
    <3>3. Called(Stub \o <<"ecb">>, jump \cup {"ecb"})
      BY <3>1, <3>2, StubFirst
    <3> QED BY <2>5, <3>3 DEF Body
  <2> QED BY <1>3, <2>2, <2>3, <2>4, <2>5
<1>5. todo'[t] = Body(o) /\ \A u \in Threads \ {t} : todo'[u] = todo[u] /\ arg'[u] = arg[u]
  BY <1>1 DEF Call, Functions
<1>6. Left(t)' = members /\ todo'[t] \in Seq(Steps) /\ Increasing(todo'[t])
  BY <1>4, <1>5 DEF Left, Called
<1>7. StepsOK(t)'
  <2>1. Apart(t)'
    BY <1>3, <1>6 DEF Apart, Initialising
  <2> QED BY <1>6, <2>1 DEF StepsOK
<1>8. Done(t)'
  BY <1>3, <1>6 DEF Done, Initialising
<1>9. ASSUME Merged PROVE Consistent(t)'
  <2>1. used[t] = "right" /\ ctx[t] \in {NoCtx, FullCtx} /\ (o = "ECB" => ctx[t] = FullCtx)
    BY <1>1, <1>2, <1>9 DEF Consistent, Call
  <2>2. ctx' = ctx /\ used' = used
    BY DEF Call
  <2>3. /\ o \in {"AESInit", "ECB"} => "jump" \in Left(t)'
        /\ o \notin {"AESInit", "ECB"} => Left(t)' \cap Aes = {}
        /\ o = "AESInit" => "methods" \in Left(t)' /\ Left(t)' \cap {"ecb", "cipher"} = {}
        /\ o = "ECB" => Left(t)' \cap {"methods", "setMethods", "keys", "expandKeys"} = {}
    BY <1>3, <1>6, <1>9 DEF Aes
  <2> QED BY <1>3, <2>1, <2>2, <2>3 DEF Consistent, Aes
<1>10. Functions' /\ Shared'
  BY <1>1 DEF Functions, Shared, Call, statics
<1> QED BY <1>1, <1>5, <1>7, <1>8, <1>9, <1>10, Frame DEF Call, statics

\* Every step of a call keeps the invariant.
LEMMA StepKeeps ==
  ASSUME Known, NEW t \in Threads, Step(t)
  PROVE  Known'
BY JumpKeeps, GetCpuFeaturesKeeps, DetectKeeps, EnableAllKeeps, ReadBackKeeps, SetCpuFeaturesKeeps,
   FeaturesToIdxKeeps, LevelMaskKeeps, PublishKeeps, ChooseKeeps, QueryKeeps, AskMethodsKeeps,
   SetMethodsKeeps, AskKeysKeeps, ExpandKeysKeeps, AskEcbKeeps, CipherKeeps
   DEF Step

-----------------------------------------------------------------------------
\* The invariant holds before the first call.
LEMMA InitKnown == Init => IInv
<1> SUFFICES ASSUME Init PROVE Known
  BY DEF IInv
<1>1. everSet = FALSE /\ Functions /\ Shared
  BY DEF Init, Functions, Shared
<1>2. ASSUME NEW t \in Threads PROVE StepsOK(t) /\ Done(t) /\ Consistent(t)
  <2>1. todo[t] = <<>> /\ ctx[t] = NoCtx /\ used[t] = "right"
    BY DEF Init
  <2>2. Left(t) = {}
    BY <2>1 DEF Left
  <2> QED BY <2>1, <2>2, NoneCalled DEF StepsOK, Apart, Done, Consistent, Called
<1> QED BY <1>1, <1>2 DEF Known

\* Every step of any thread keeps the invariant.
LEMMA NextKnown == IInv /\ [Next]_vars => IInv'
<1> SUFFICES ASSUME IInv, [Next]_vars PROVE IInv'
  OBVIOUS
<1>1. CASE everSet = TRUE
  <2>1. everSet' = TRUE
    BY <1>1 DEF Next, vars, Call, Step, Jump, GetCpuFeatures, Detect, EnableAll, ReadBack,
       SetCpuFeatures, FeaturesToIdx, LevelMask, Publish, Choose, Query, AskMethods, SetMethods,
       AskKeys, ExpandKeys, AskEcb, Cipher, Ask, Go
  <2> QED BY <2>1 DEF IInv
<1>2. CASE Known
  <2>1. CASE UNCHANGED vars
    <3>1. everSet' = FALSE /\ Functions' /\ Shared'
      BY <1>2, <2>1 DEF vars, Known, Functions, Shared
    <3>2. ASSUME NEW t \in Threads PROVE StepsOK(t)' /\ Done(t)' /\ (Merged => Consistent(t)')
      <4>1. Left(t)' = Left(t) /\ todo' = todo
        BY <2>1 DEF vars, Left
      <4> QED BY <1>2, <2>1, <4>1 DEF vars, Known, StepsOK, Apart, Done, Consistent
    <3>3. Known'
      BY <3>1, <3>2 DEF Known
    <3> QED BY <3>3 DEF IInv
  <2>2. ASSUME NEW t \in Threads, NEW o \in Op \ {"Set"}, Call(t, o, {}) PROVE IInv'
    BY <1>2, <2>2, CallKeeps DEF IInv
  <2>3. ASSUME NEW t \in Threads, NEW mask \in Choices, Call(t, "Set", mask) PROVE IInv'
    BY <1>2, <2>3 DEF IInv, Call
  <2>4. ASSUME NEW t \in Threads, Step(t) PROVE IInv'
    BY <1>2, <2>4, StepKeeps DEF IInv
  <2> QED BY <2>1, <2>2, <2>3, <2>4 DEF Next
<1> QED BY <1>1, <1>2 DEF IInv

\* The inductive invariant holds in every state.
THEOREM Invariance == Spec => []IInv
BY InitKnown, NextKnown, PTL DEF Spec

\* Any number of threads may initialise the library at once, implicitly or not: until a
\* caller chooses features, a thread that gets past the stub finds the features detected, all
\* of them enabled and the first variant of the ladder whose code this CPU can run in full.
THEOREM Published == Spec => []ReadyWhenPublished
<1>1. IInv => ReadyWhenPublished
  <2> SUFFICES ASSUME Known, jumpIndex # "none" PROVE ReadyWhenPublished
    BY DEF IInv, Known, ReadyWhenPublished
  <2>1. cpFeatures = CPU /\ cpFeaturesMask = CPU /\ jumpIndex = Best
    BY DEF Known, Shared
  <2> DEFINE Runs(i) == Rungs[i].mask \cup Rungs[i].os \subseteq CPU
             b == RungOf(CPU, CPU)
  <2>2. b \in DOMAIN Rungs /\ Rungs[b].lib = Best /\ Runs(b)
    BY BestRung DEF Selects, Best
  <2>3. ASSUME NEW j \in 1..(b - 1) PROVE ~Runs(j)
    <3>1. DOMAIN Rungs = 1..9 /\ j \in 1..9
      BY <2>2 DEF Rungs
    <3>2. \E need \in Rungs[j].any : need \subseteq Rungs[j].mask
      BY <3>1, RungTakesWhatItTests
    <3>3. ~Selects(j, CPU, CPU)
      BY BestRung
    <3> QED BY <3>2, <3>3 DEF Selects
  <2> QED BY <2>1, <2>2, <2>3 DEF ReadyWhenPublished
<1> QED BY <1>1, Invariance, PTL

\* In a merged library no text is encrypted by a cipher that expects another layout of the
\* round keys than ippsAESInit gave the context, however the threads' calls interleave.
THEOREM KeysFit == ASSUME Merged PROVE Spec => []CipherFitsKeys
<1>1. IInv => CipherFitsKeys
  BY DEF IInv, Known, Consistent, CipherFitsKeys
<1> QED BY <1>1, Invariance, PTL
-----------------------------------------------------------------------------
(* After a caller has chosen features: the steps of a call that stores     *)
(* them are one of a few sequences, and no other call stores anything.     *)

\* Only t is in the library once features have been chosen.
OneChooses(t) == everSet => \A s \in Threads \ {t} : op[s] = "none"

LibFor(mask) == Rungs[RungOf(mask \ {"NOCHECK"}, cpFeatures)].lib

\* Before a caller has chosen features, a set or init call can only have chosen all.
AllChosen ==
  /\ chosen # {} => chosen = {CPU} /\ jumpIndex # "none"
  /\ \A s \in Threads :
       /\ "choose" \in Left(s) /\ "publish" \notin Left(s) => jumpIndex # "none"
       /\ op[s] = "none" => todo[s] = <<>>

Storing == <<"levelMask", "publish", "choose">>
Selecting == <<"toIdx", "levelMask", "publish", "choose">>
Enabling == <<"enableAll", "toIdx", "levelMask", "publish", "choose">>

Course(t) ==
  \/ todo[t] \in {<<"getFeatures", "set">>, <<"detect", "enableAll", "readBack", "set">>,
                  <<"enableAll", "readBack", "set">>, <<"readBack", "set">>}
  \/ todo[t] = <<"set">> /\ arg[t] # {"NOCHECK"}
  \/ todo[t] = SetSteps /\ sel[t] = arg[t] \ {"NOCHECK"}
  \/ todo[t] \in {Enabling, Selecting} /\ sel[t] = arg[t] \ {"NOCHECK"} /\ cpFeatures # {}
  \/ todo[t] \in {Storing, <<"publish", "choose">>} /\ idx[t] = LibFor(arg[t]) /\ cpFeatures # {}
  \/ todo[t] = <<"choose">> /\ jumpIndex = LibFor(arg[t]) /\ cpFeatures # {}

Deciding(t) == chosen = {} /\ op[t] \in UserOps /\ Course(t)

Quiet == {"jump", "getFeatures", "query"} \cup Aes

Decided(t) ==
  /\ todo[t] \in Seq(Quiet) /\ cpFeatures # {}
  /\ \A mask \in chosen : cpFeaturesMask = mask /\ jumpIndex = LibFor(mask)
  /\ jumpIndex # "none"

OnlyCaller(t) ==
  /\ everSet = TRUE /\ Functions /\ "NOCHECK" \notin cpFeatures
  /\ \A s \in Threads \ {t} : todo[s] = <<>>
  /\ Deciding(t) \/ Decided(t)

ChoiceInv(t) == (Known /\ AllChosen) \/ OnlyCaller(t)

-----------------------------------------------------------------------------
\* The ladder always has a rung.
LEMMA SomeRung ==
  ASSUME NEW wanted, NEW features
  PROVE  Rungs[RungOf(wanted, features)].lib \in Lib
<1>1. DOMAIN Rungs = 1..9 /\ Selects(9, wanted, features)
  <2>1. DOMAIN Rungs = 1..9 /\ Rungs[9].os = {} /\ Rungs[9].any = {{}}
    BY DEF Rungs
  <2> QED BY <2>1 DEF Selects
<1>2. \E i \in 1..9 : /\ Selects(i, wanted, features)
                      /\ \A j \in 1..(i - 1) : ~Selects(j, wanted, features)
  <2> DEFINE P(i) == Selects(i, wanted, features)
  <2>1. P(9)
    BY <1>1
  <2> HIDE DEF P
  <2>2. \E i \in 1..9 : P(i) /\ \A j \in 1..(i - 1) : ~P(j)
    BY <2>1
  <2> QED BY <2>2 DEF P
<1>3. RungOf(wanted, features) \in DOMAIN Rungs
  BY <1>1, <1>2 DEF RungOf
<1>4. \A k \in DOMAIN Rungs : Rungs[k].lib \in Lib
  BY DEF Rungs, Lib
<1> QED BY <1>3, <1>4

\* Each step takes the action of its name.
LEMMA ByName ==
  ASSUME NEW t, Step(t)
  PROVE  /\ todo[t] # <<>>
         /\ Head(todo[t]) = "getFeatures" => GetCpuFeatures(t)
         /\ Head(todo[t]) = "detect" => Detect(t)
         /\ Head(todo[t]) = "enableAll" => EnableAll(t)
         /\ Head(todo[t]) = "readBack" => ReadBack(t)
         /\ Head(todo[t]) = "set" => SetCpuFeatures(t)
         /\ Head(todo[t]) = "toIdx" => FeaturesToIdx(t)
         /\ Head(todo[t]) = "levelMask" => LevelMask(t)
         /\ Head(todo[t]) = "publish" => Publish(t)
         /\ Head(todo[t]) = "choose" => Choose(t)
<1> DEFINE Comes(s) == todo[t] # <<>> /\ Head(todo[t]) = s
<1>1. /\ Jump(t) => Comes("jump")
      /\ GetCpuFeatures(t) => Comes("getFeatures")
      /\ Detect(t) => Comes("detect")
      /\ EnableAll(t) => Comes("enableAll")
      /\ ReadBack(t) => Comes("readBack")
      /\ SetCpuFeatures(t) => Comes("set")
      /\ FeaturesToIdx(t) => Comes("toIdx")
      /\ LevelMask(t) => Comes("levelMask")
      /\ Publish(t) => Comes("publish")
      /\ Choose(t) => Comes("choose")
      /\ Query(t) => Comes("query")
  BY DEF At, Jump, GetCpuFeatures, Detect, EnableAll, ReadBack, SetCpuFeatures, FeaturesToIdx, LevelMask, Publish, Choose, Query
<1>2. /\ AskMethods(t) => Comes("methods")
      /\ SetMethods(t) => Comes("setMethods")
      /\ AskKeys(t) => Comes("keys")
      /\ ExpandKeys(t) => Comes("expandKeys")
      /\ AskEcb(t) => Comes("ecb")
      /\ Cipher(t) => Comes("cipher")
  BY DEF At, Ask, AskMethods, SetMethods, AskKeys, ExpandKeys, AskEcb, Cipher
<1>3. \A s, r : Comes(s) /\ Comes(r) => s = r
  OBVIOUS
<1>4. \A s : Comes(s) => todo[t] # <<>>
  OBVIOUS
<1>5. \A s : todo[t] # <<>> /\ Head(todo[t]) = s => Comes(s)
  OBVIOUS
<1> HIDE DEF Comes
<1>6. \/ Jump(t) \/ GetCpuFeatures(t) \/ Detect(t) \/ EnableAll(t) \/ ReadBack(t)
      \/ SetCpuFeatures(t) \/ FeaturesToIdx(t) \/ LevelMask(t) \/ Publish(t) \/ Choose(t)
      \/ Query(t) \/ AskMethods(t) \/ SetMethods(t) \/ AskKeys(t) \/ ExpandKeys(t)
      \/ AskEcb(t) \/ Cipher(t)
  BY DEF Step
<1>7. todo[t] # <<>>
  BY <1>1, <1>2, <1>4, <1>6
<1> QED BY <1>1, <1>2, <1>3, <1>5, <1>6, <1>7

\* The steps of ippcpSetCpuFeatures one by one.
LEMMA SetTails ==
  /\ Head(SetSteps) = "detect" /\ Tail(SetSteps) = Enabling
  /\ Head(Enabling) = "enableAll" /\ Tail(Enabling) = Selecting
  /\ Head(Selecting) = "toIdx" /\ Tail(Selecting) = Storing
  /\ Head(Storing) = "levelMask" /\ Tail(Storing) = <<"publish", "choose">>
BY DEF SetSteps, Enabling, Selecting, Storing

\* Other ends of a call that stores features.
LEMMA OtherTails ==
  /\ Head(<<"publish", "choose">>) = "publish" /\ Tail(<<"publish", "choose">>) = <<"choose">>
  /\ Head(<<"choose">>) = "choose" /\ Tail(<<"choose">>) = <<>>
  /\ Head(<<"set">>) = "set" /\ Tail(<<"set">>) = <<>>
  /\ Head(<<"readBack", "set">>) = "readBack" /\ Tail(<<"readBack", "set">>) = <<"set">>
  /\ Head(<<"enableAll", "readBack", "set">>) = "enableAll"
  /\ Tail(<<"enableAll", "readBack", "set">>) = <<"readBack", "set">>
  /\ Head(<<"detect", "enableAll", "readBack", "set">>) = "detect"
  /\ Tail(<<"detect", "enableAll", "readBack", "set">>) = <<"enableAll", "readBack", "set">>
  /\ Head(<<"getFeatures", "set">>) = "getFeatures" /\ Tail(<<"getFeatures", "set">>) = <<"set">>
OBVIOUS

\* What a step that calls none leaves of a sequence, and one that calls some leaves of itself.
LEMMA NoneBefore == \A s \in Seq(Steps) : <<>> \o s = s /\ s \o <<>> = s
OBVIOUS

\* All these are sequences of steps.
LEMMA CourseSteps ==
  /\ {SetSteps, Enabling, Selecting, Storing} \subseteq Seq(Steps)
  /\ {<<"publish", "choose">>, <<"choose">>, <<"set">>, <<"readBack", "set">>, <<>>}
       \subseteq Seq(Steps)
  /\ {<<"enableAll", "readBack", "set">>, <<"detect", "enableAll", "readBack", "set">>,
      <<"detect", "enableAll", "readBack">>} \subseteq Seq(Steps)
BY Ranks DEF SetSteps, Enabling, Selecting, Storing

\* cpGetFeatures called before ippcpSetCpuFeatures.
LEMMA DetectFirst ==
  <<"detect", "enableAll", "readBack">> \o <<"set">> = <<"detect", "enableAll", "readBack", "set">>
<1> DEFINE a == <<"detect", "enableAll", "readBack">>
           b == <<"set">>
           c == <<"detect", "enableAll", "readBack", "set">>
<1>1. a \in Seq(Steps) /\ b \in Seq(Steps) /\ c \in Seq(Steps) /\ Len(a) = 3 /\ Len(b) = 1 /\ Len(c) = 4
  BY CourseSteps
<1>2. a[1] = c[1] /\ a[2] = c[2] /\ a[3] = c[3] /\ b[1] = c[4]
  OBVIOUS
<1> HIDE DEF a, b, c
<1>3. /\ a \o b \in Seq(Steps) /\ Len(a \o b) = Len(a) + Len(b)
      /\ \A i \in 1..(Len(a) + Len(b)) : (a \o b)[i] = IF i <= Len(a) THEN a[i] ELSE b[i - Len(a)]
  BY <1>1, Concatenated
<1>4. \A i \in 1..Len(c) : (a \o b)[i] = c[i]
  BY <1>1, <1>2, <1>3
<1>5. a \o b = c
  BY <1>1, <1>3, <1>4, SequencesEqual
<1> QED BY <1>5 DEF a, b, c

-----------------------------------------------------------------------------
\* What the step at hand leaves of t's call and of the others'.
Leaves(t, rest) ==
  /\ todo'[t] = rest /\ everSet' = everSet /\ op' = op
  /\ DOMAIN todo' = Threads /\ \A s \in Threads \ {t} : todo'[s] = todo[s]

\* The steps after one that calls none.
LEMMA Passes ==
  ASSUME NEW t \in Threads, Functions, NEW rest \in Seq(Steps), Tail(todo[t]) = rest, Go(t, <<>>)
  PROVE  Leaves(t, rest)
<1>1. <<>> \o rest = rest
  BY NoneBefore
<1>2. todo' = [todo EXCEPT ![t] = <<>> \o Tail(todo[t])] /\ op' = op /\ everSet' = everSet
  BY DEF Go, Do
<1>3. todo' = [todo EXCEPT ![t] = rest]
  BY <1>1, <1>2
<1> QED BY <1>2, <1>3 DEF Leaves, Functions

\* A set or init call goes on: a caller's choice is not yet in force.
LEMMA DecidingKeeps ==
  ASSUME NEW t \in Threads, OnlyCaller(t), Deciding(t), Step(t), {"NOCHECK"} \notin Choices
  PROVE  OnlyCaller(t)'
<1>1. /\ everSet = TRUE /\ Functions /\ "NOCHECK" \notin cpFeatures /\ chosen = {}
      /\ op[t] \in UserOps /\ \A s \in Threads \ {t} : todo[s] = <<>>
  BY DEF OnlyCaller, Deciding
<1>2. ASSUME NEW rest, Leaves(t, rest), Functions', "NOCHECK" \notin cpFeatures', chosen' = {},
             Course(t)'
      PROVE  OnlyCaller(t)'
  BY <1>1, <1>2 DEF OnlyCaller, Deciding, Leaves
<1>3. CPU # {} /\ "NOCHECK" \notin CPU
  BY BestRung
<1>4. CASE todo[t] = <<"getFeatures", "set">>
  <2>1. GetCpuFeatures(t) /\ Tail(todo[t]) = <<"set">> /\ <<"set">> \in Seq(Steps)
    BY <1>4, ByName, OtherTails, CourseSteps
  <2>2. CASE cpFeatures # {}
    <3>1. Go(t, <<>>) /\ arg' = [arg EXCEPT ![t] = cpFeatures]
      BY <2>1, <2>2 DEF GetCpuFeatures
    <3>2. Leaves(t, <<"set">>)
      BY <1>1, <2>1, <3>1, Passes
    <3>3. todo'[t] = <<"set">> /\ arg'[t] = cpFeatures /\ arg'[t] # {"NOCHECK"}
      BY <1>1, <3>1, <3>2 DEF Leaves, Functions
    <3>4. Course(t)'
      BY <3>3 DEF Course
    <3> QED BY <1>1, <1>2, <2>1, <3>1, <3>2, <3>4 DEF GetCpuFeatures, Functions, Leaves, statics
  <2>3. CASE cpFeatures = {}
    <3> DEFINE rest == <<"detect", "enableAll", "readBack", "set">>
    <3>1. Go(t, <<"detect", "enableAll", "readBack">>) /\ arg' = arg
      BY <2>1, <2>3 DEF GetCpuFeatures
    <3>2. todo' = [todo EXCEPT ![t] = rest] /\ op' = op /\ everSet' = everSet
      BY <2>1, <3>1, DetectFirst DEF Go, Do
    <3>3. Leaves(t, rest)
      BY <1>1, <3>2 DEF Leaves, Functions
    <3>4. Course(t)'
      BY <3>3 DEF Course, Leaves
    <3> QED BY <1>1, <1>2, <2>1, <3>1, <3>3, <3>4 DEF GetCpuFeatures, Functions, Leaves, statics
  <2> QED BY <2>2, <2>3
<1>5. CASE todo[t] = <<"detect", "enableAll", "readBack", "set">>
  <2> DEFINE rest == <<"enableAll", "readBack", "set">>
  <2>1. Detect(t) /\ Tail(todo[t]) = rest /\ rest \in Seq(Steps)
    BY <1>5, ByName, OtherTails, CourseSteps
  <2>2. Leaves(t, rest)
    BY <1>1, <2>1, Passes DEF Detect
  <2>3. Course(t)'
    BY <2>2 DEF Course, Leaves
  <2> QED BY <1>1, <1>2, <1>3, <2>1, <2>2, <2>3 DEF Detect, Functions, Leaves, locals
<1>6. CASE todo[t] = <<"enableAll", "readBack", "set">>
  <2> DEFINE rest == <<"readBack", "set">>
  <2>1. EnableAll(t) /\ Tail(todo[t]) = rest /\ rest \in Seq(Steps)
    BY <1>6, ByName, OtherTails, CourseSteps
  <2>2. Leaves(t, rest)
    BY <1>1, <2>1, Passes DEF EnableAll
  <2>3. Course(t)'
    BY <2>2 DEF Course, Leaves
  <2> QED BY <1>1, <1>2, <2>1, <2>2, <2>3 DEF EnableAll, Functions, Leaves, locals
<1>7. CASE todo[t] = <<"readBack", "set">>
  <2>1. ReadBack(t) /\ Tail(todo[t]) = <<"set">> /\ <<"set">> \in Seq(Steps)
    BY <1>7, ByName, OtherTails, CourseSteps
  <2>2. Leaves(t, <<"set">>)
    BY <1>1, <2>1, Passes DEF ReadBack
  <2>3. arg'[t] = cpFeatures /\ arg'[t] # {"NOCHECK"}
    BY <1>1, <2>1 DEF ReadBack, Functions
  <2>4. Course(t)'
    BY <2>2, <2>3 DEF Course, Leaves
  <2> QED BY <1>1, <1>2, <2>1, <2>2, <2>4 DEF ReadBack, Functions, Leaves, statics
<1>8. CASE todo[t] = <<"set">> /\ arg[t] # {"NOCHECK"}
  <2>1. SetCpuFeatures(t) /\ Tail(todo[t]) = <<>>
    BY <1>8, ByName, OtherTails
  <2>2. sel'[t] = arg'[t] \ {"NOCHECK"} /\ arg' = arg /\ chosen' = {}
    BY <1>1, <2>1 DEF SetCpuFeatures, Functions
  <2>3. CASE "NOCHECK" \in arg[t]
    <3>1. Go(t, Selecting) /\ cpFeatures' = arg[t] \ {"NOCHECK"}
      BY <2>1, <2>3 DEF SetCpuFeatures, Selecting
    <3>2. cpFeatures' # {} /\ "NOCHECK" \notin cpFeatures'
      BY <1>8, <2>3, <3>1
    <3>3. Selecting \o <<>> = Selecting
      BY NoneBefore, CourseSteps
    <3>4. Leaves(t, Selecting)
      BY <1>1, <2>1, <3>1, <3>3 DEF Go, Do, Leaves, Functions
    <3>5. Course(t)'
      BY <2>2, <3>2, <3>4 DEF Course, Leaves
    <3> QED BY <1>1, <1>2, <2>1, <2>2, <3>2, <3>4, <3>5 DEF SetCpuFeatures, Functions, Leaves
  <2>4. CASE "NOCHECK" \notin arg[t]
    <3>1. Go(t, SetSteps) /\ cpFeatures' = cpFeatures
      BY <2>1, <2>4, SetCalled DEF SetCpuFeatures
    <3>2. SetSteps \o <<>> = SetSteps
      BY NoneBefore, CourseSteps
    <3>3. Leaves(t, SetSteps)
      BY <1>1, <2>1, <3>1, <3>2 DEF Go, Do, Leaves, Functions
    <3>4. Course(t)'
      BY <2>2, <3>3 DEF Course, Leaves
    <3> QED BY <1>1, <1>2, <2>1, <2>2, <3>1, <3>3, <3>4 DEF SetCpuFeatures, Functions, Leaves
  <2> QED BY <2>3, <2>4
<1>9. CASE todo[t] = SetSteps /\ sel[t] = arg[t] \ {"NOCHECK"}
  <2>1. Detect(t) /\ Tail(todo[t]) = Enabling /\ Enabling \in Seq(Steps)
    BY <1>9, ByName, SetTails, CourseSteps
  <2>2. Leaves(t, Enabling)
    BY <1>1, <2>1, Passes DEF Detect
  <2>3. Course(t)'
    BY <1>3, <1>9, <2>1, <2>2 DEF Course, Leaves, Detect, locals
  <2> QED BY <1>1, <1>2, <1>3, <2>1, <2>2, <2>3 DEF Detect, Functions, Leaves, locals
<1>10. CASE todo[t] = Enabling /\ sel[t] = arg[t] \ {"NOCHECK"} /\ cpFeatures # {}
  <2>1. EnableAll(t) /\ Tail(todo[t]) = Selecting /\ Selecting \in Seq(Steps)
    BY <1>10, ByName, SetTails, CourseSteps
  <2>2. Leaves(t, Selecting)
    BY <1>1, <2>1, Passes DEF EnableAll
  <2>3. Course(t)'
    BY <1>10, <2>1, <2>2 DEF Course, Leaves, EnableAll, locals
  <2> QED BY <1>1, <1>2, <2>1, <2>2, <2>3 DEF EnableAll, Functions, Leaves, locals
<1>11. CASE todo[t] = Selecting /\ sel[t] = arg[t] \ {"NOCHECK"} /\ cpFeatures # {}
  <2>1. FeaturesToIdx(t) /\ Tail(todo[t]) = Storing /\ Storing \in Seq(Steps)
    BY <1>11, ByName, SetTails, CourseSteps
  <2>2. Leaves(t, Storing)
    BY <1>1, <2>1, Passes DEF FeaturesToIdx
  <2>3. idx'[t] = Rungs[RungOf(sel[t], cpFeatures)].lib /\ cpFeatures' = cpFeatures /\ arg' = arg
    BY <1>1, <2>1 DEF FeaturesToIdx, Functions, statics
  <2>4. idx'[t] = LibFor(arg[t])'
    BY <1>11, <2>3 DEF LibFor
  <2>5. Course(t)'
    BY <1>11, <2>2, <2>3, <2>4 DEF Course, Leaves
  <2> QED BY <1>1, <1>2, <2>1, <2>2, <2>3, <2>5 DEF FeaturesToIdx, Functions, Leaves, statics
<1>12. CASE todo[t] = Storing /\ idx[t] = LibFor(arg[t]) /\ cpFeatures # {}
  <2>1. LevelMask(t) /\ Tail(todo[t]) = <<"publish", "choose">> /\ Tail(todo[t]) \in Seq(Steps)
    BY <1>12, ByName, SetTails, CourseSteps
  <2>2. Leaves(t, <<"publish", "choose">>)
    BY <1>1, <2>1, Passes DEF LevelMask
  <2>3. idx'[t] = LibFor(arg[t])' /\ cpFeatures' # {}
    BY <1>12, <2>1 DEF LibFor, LevelMask, locals
  <2>4. Course(t)'
    BY <2>2, <2>3 DEF Course, Leaves
  <2> QED BY <1>1, <1>2, <2>1, <2>2, <2>4 DEF LevelMask, Functions, Leaves, locals
<1>13. CASE todo[t] = <<"publish", "choose">> /\ idx[t] = LibFor(arg[t]) /\ cpFeatures # {}
  <2>1. Publish(t) /\ Tail(todo[t]) = <<"choose">> /\ Tail(todo[t]) \in Seq(Steps)
    BY <1>13, ByName, OtherTails, CourseSteps
  <2>2. Leaves(t, <<"choose">>)
    BY <1>1, <2>1, Passes DEF Publish
  <2>3. jumpIndex' = LibFor(arg[t])' /\ cpFeatures' # {}
    BY <1>13, <2>1 DEF LibFor, Publish, locals
  <2>4. Course(t)'
    BY <2>2, <2>3 DEF Course, Leaves
  <2> QED BY <1>1, <1>2, <2>1, <2>2, <2>4 DEF Publish, Functions, Leaves, locals
<1>14. CASE todo[t] = <<"choose">> /\ jumpIndex = LibFor(arg[t]) /\ cpFeatures # {}
  <2>1. Choose(t) /\ Tail(todo[t]) = <<>> /\ <<>> \in Seq(Steps)
    BY <1>14, ByName, OtherTails, CourseSteps
  <2>2. Leaves(t, <<>>)
    BY <1>1, <2>1, Passes DEF Choose
  <2>3. /\ cpFeaturesMask' = arg[t] /\ chosen' = {arg[t]} /\ cpFeatures' = cpFeatures
        /\ jumpIndex' = jumpIndex /\ arg' = arg
    BY <1>1, <2>1 DEF Choose, locals
  <2>4. jumpIndex' = LibFor(arg[t])'
    BY <1>14, <2>3 DEF LibFor
  <2>5. LibFor(arg[t])' = Rungs[RungOf(arg[t] \ {"NOCHECK"}, cpFeatures)].lib
    BY <2>3 DEF LibFor
  <2>6. jumpIndex' # "none"
    BY <2>4, <2>5, SomeRung DEF Lib
  <2>7. \A mask \in chosen' : cpFeaturesMask' = mask /\ jumpIndex' = LibFor(mask)'
    BY <2>3, <2>4
  <2>8. Decided(t)'
    BY <1>14, <2>2, <2>3, <2>6, <2>7 DEF Decided, Leaves
  <2> QED BY <1>1, <2>1, <2>2, <2>3, <2>8 DEF OnlyCaller, Choose, Functions, Leaves, locals
<1> QED BY <1>4, <1>5, <1>6, <1>7, <1>8, <1>9, <1>10, <1>11, <1>12, <1>13, <1>14
        DEF Deciding, Course

\* A choice in force stays so: t's calls find a variant published and features stored.
LEMMA DecidedKeeps ==
  ASSUME NEW t \in Threads, OnlyCaller(t), Decided(t), Step(t)
  PROVE  OnlyCaller(t)'
<1>1. /\ everSet = TRUE /\ Functions /\ "NOCHECK" \notin cpFeatures
      /\ \A s \in Threads \ {t} : todo[s] = <<>>
      /\ todo[t] \in Seq(Quiet) /\ cpFeatures # {} /\ jumpIndex # "none"
      /\ \A mask \in chosen : cpFeaturesMask = mask /\ jumpIndex = LibFor(mask)
  BY DEF OnlyCaller, Decided
<1>2. ASSUME NEW steps \in Seq(Quiet), Go(t, steps), UNCHANGED <<statics, chosen>>, Functions'
      PROVE  OnlyCaller(t)'
  <2>1. todo[t] # <<>>
    BY ByName
  <2>2. Tail(todo[t]) \in Seq(Quiet)
    BY <1>1, <2>1
  <2>3. steps \o Tail(todo[t]) \in Seq(Quiet)
    BY <2>2
  <2>4. /\ todo'[t] = steps \o Tail(todo[t]) /\ everSet' = TRUE
        /\ \A s \in Threads \ {t} : todo'[s] = <<>>
    BY <1>1, <1>2 DEF Go, Do, Functions
  <2>5. \A mask : LibFor(mask)' = LibFor(mask)
    BY <1>2 DEF LibFor, statics
  <2>6. Decided(t)'
    BY <1>1, <1>2, <2>3, <2>4, <2>5 DEF Decided, statics
  <2> QED BY <1>1, <1>2, <2>4, <2>6 DEF OnlyCaller, statics
<1>3. <<>> \in Seq(Quiet) /\ <<"getFeatures">> \in Seq(Quiet)
  BY DEF Quiet
<1>4. \A s \in Quiet : <<s>> \in Seq(Quiet) /\ <<"query", s>> \in Seq(Quiet)
  BY DEF Quiet
<1>5. Head(todo[t]) \in Quiet
  BY <1>1, ByName
<1>6. CASE Jump(t)
  <2>1. Go(t, <<>>) /\ UNCHANGED <<statics, chosen>> /\ Functions'
    BY <1>1, <1>6 DEF Jump, Functions, Go, Do
  <2> QED BY <1>2, <1>3, <2>1
<1>7. CASE GetCpuFeatures(t)
  <2>1. Go(t, <<>>) /\ UNCHANGED <<statics, chosen>> /\ Functions'
    BY <1>1, <1>7 DEF GetCpuFeatures, Functions, Go, Do
  <2> QED BY <1>2, <1>3, <2>1
<1>8. CASE Query(t)
  <2>1. PICK steps \in {<<>>, <<"getFeatures">>} : Go(t, steps)
    BY <1>8 DEF Query
  <2>2. UNCHANGED <<statics, chosen>> /\ Functions'
    BY <1>1, <1>8, <2>1 DEF Query, Functions, Go, Do, locals
  <2> QED BY <1>2, <1>3, <2>1, <2>2
<1>9. ASSUME NEW s, NEW ticktock, NEW answer \in Aes, Ask(t, s, ticktock, answer)
      PROVE  OnlyCaller(t)'
  <2>1. answer \in Quiet
    BY DEF Quiet
  <2>2. PICK steps \in {<<answer>>, <<"query", answer>>} : Go(t, steps)
    BY <1>9 DEF Ask
  <2>3. UNCHANGED <<statics, chosen>> /\ Functions'
    BY <1>1, <1>9, <2>2 DEF Ask, Functions, Go, Do, locals
  <2> QED BY <1>2, <1>4, <2>1, <2>2, <2>3
<1>10. CASE AskMethods(t) \/ AskKeys(t) \/ AskEcb(t)
  BY <1>9, <1>10 DEF AskMethods, AskKeys, AskEcb, Aes
<1>11. CASE SetMethods(t)
  <2>1. Go(t, <<>>) /\ UNCHANGED <<statics, chosen>> /\ Functions'
    BY <1>1, <1>11 DEF SetMethods, Functions, Go, Do
  <2> QED BY <1>2, <1>3, <2>1
<1>12. CASE ExpandKeys(t)
  <2>1. Go(t, <<>>) /\ UNCHANGED <<statics, chosen>> /\ Functions'
    BY <1>1, <1>12 DEF ExpandKeys, Functions, Go, Do
  <2> QED BY <1>2, <1>3, <2>1
<1>13. CASE Cipher(t)
  <2>1. Go(t, <<>>) /\ UNCHANGED <<statics, chosen>> /\ Functions'
    BY <1>1, <1>13 DEF Cipher, Functions, Go, Do
  <2> QED BY <1>2, <1>3, <2>1
<1>14. ~(Detect(t) \/ EnableAll(t) \/ ReadBack(t) \/ SetCpuFeatures(t) \/ FeaturesToIdx(t)
         \/ LevelMask(t) \/ Publish(t) \/ Choose(t))
  <2>1. Head(todo[t]) \notin {"detect", "enableAll", "readBack", "set", "toIdx", "levelMask",
                              "publish", "choose"}
    BY <1>5 DEF Quiet, Aes
  <2> QED BY <2>1 DEF At, Detect, EnableAll, ReadBack, SetCpuFeatures, FeaturesToIdx, LevelMask,
                      Publish, Choose
<1> QED BY <1>6, <1>7, <1>8, <1>10, <1>11, <1>12, <1>13, <1>14 DEF Step

\* t calls a function: a set or init call begins to decide, the others leave the choice in force.
LEMMA CallDecides ==
  ASSUME NEW t \in Threads, OnlyCaller(t), NEW o \in Op, NEW mask, Call(t, o, mask),
         mask # {"NOCHECK"}
  PROVE  OnlyCaller(t)'
<1>1. /\ everSet = TRUE /\ Functions /\ "NOCHECK" \notin cpFeatures
      /\ todo[t] = <<>> /\ \A s \in Threads \ {t} : todo[s] = <<>>
  BY DEF OnlyCaller, Call
<1>2. /\ everSet' = TRUE /\ Functions' /\ "NOCHECK" \notin cpFeatures'
      /\ \A s \in Threads \ {t} : todo'[s] = <<>>
      /\ todo'[t] = Body(o) /\ op'[t] = o /\ arg'[t] = mask
  BY <1>1 DEF Call, Functions, statics
<1>3. CASE o \in UserOps
  <2>1. chosen' = {}
    BY <1>3 DEF Call
  <2>2. todo'[t] = <<"getFeatures", "set">> \/ todo'[t] = <<"set">>
    BY <1>2, <1>3 DEF Body, UserOps
  <2>3. Course(t)'
    BY <1>2, <2>2 DEF Course
  <2> QED BY <1>2, <1>3, <2>1, <2>3 DEF OnlyCaller, Deciding
<1>4. CASE o \notin UserOps
  <2>1. Decided(t)
    <3>1. ~Course(t)
      BY <1>1 DEF Course, Call, SetSteps, Enabling, Selecting, Storing
    <3> QED BY <3>1 DEF OnlyCaller, Deciding
  <2>2. UNCHANGED <<statics, chosen>>
    BY <1>4 DEF Call
  <2>3. Stub \o <<"methods", "keys">> \in Seq(Quiet) /\ Stub \o <<"ecb">> \in Seq(Quiet)
    <3>1. Stub \in Seq(Quiet) /\ <<"methods", "keys">> \in Seq(Quiet) /\ <<"ecb">> \in Seq(Quiet)
      BY DEF Stub, Quiet, Aes
    <3> QED BY <3>1
  <2>4. Body(o) \in Seq(Quiet)
    <3>1. o \in {"GetCpu", "AESInit", "ECB"}
      BY <1>4 DEF Op, UserOps
    <3>2. <<"getFeatures">> \in Seq(Quiet)
      BY DEF Quiet
    <3> QED BY <2>3, <3>1, <3>2 DEF Body
  <2>5. \A m : LibFor(m)' = LibFor(m)
    BY <2>2 DEF LibFor, statics
  <2>6. Decided(t)'
    BY <1>2, <2>1, <2>2, <2>4, <2>5 DEF Decided, statics
  <2> QED BY <1>2, <2>6 DEF OnlyCaller
<1> QED BY <1>3, <1>4

-----------------------------------------------------------------------------
\* A step that publishes nothing and leaves nothing of ippcpSetCpuFeatures to be published
\* or chosen.
LEMMA NothingChosen ==
  ASSUME Known, AllChosen, NEW t \in Threads, todo[t] # <<>>, Head(todo[t]) # "publish",
         NEW steps, NEW members, Called(steps, members), members \cap {"publish", "choose"} = {},
         Go(t, steps), chosen' = chosen, jumpIndex' = jumpIndex
  PROVE  AllChosen'
<1>1. DOMAIN todo = Threads /\ todo[t] \in Seq(Steps) /\ Increasing(todo[t])
  BY DEF Known, Functions, StepsOK
<1> DEFINE rest == Tail(todo[t])
<1>2. rest \in Seq(Steps) /\ Left(t) = {Head(todo[t])} \cup {rest[i] : i \in DOMAIN rest}
  BY <1>1, HeadFirst DEF Left
<1>3. todo'[t] = steps \o rest /\ \A s \in Threads \ {t} : todo'[s] = todo[s]
  BY <1>1 DEF Go, Do
<1>9. steps \in Seq(Steps) /\ \A k \in DOMAIN steps : steps[k] \notin {"publish", "choose"}
  BY DEF Called
<1> HIDE DEF rest
<1>4. \A x \in {"publish", "choose"} : x \in Left(t)' <=> \E i \in DOMAIN rest : rest[i] = x
  <2> DEFINE q == steps \o rest
  <2>1. /\ Len(steps) \in Nat /\ Len(rest) \in Nat /\ DOMAIN steps = 1..Len(steps)
        /\ DOMAIN rest = 1..Len(rest) /\ DOMAIN q = 1..(Len(steps) + Len(rest))
        /\ \A i \in DOMAIN q : q[i] = IF i <= Len(steps) THEN steps[i] ELSE rest[i - Len(steps)]
    BY <1>2, <1>9
  <2> HIDE DEF q
  <2>2. \A i \in DOMAIN rest : i + Len(steps) \in DOMAIN q /\ q[i + Len(steps)] = rest[i]
    BY <2>1
  <2>3. \A i \in DOMAIN q : q[i] \in {"publish", "choose"} => \E j \in DOMAIN rest : rest[j] = q[i]
    <3> SUFFICES ASSUME NEW i \in DOMAIN q, q[i] \in {"publish", "choose"}
                 PROVE  \E j \in DOMAIN rest : rest[j] = q[i]
      OBVIOUS
    <3>1. i > Len(steps)
      BY <1>9, <2>1
    <3>2. i - Len(steps) \in DOMAIN rest /\ rest[i - Len(steps)] = q[i]
      BY <2>1, <3>1
    <3> QED BY <3>2
  <2>4. Left(t)' = {q[i] : i \in DOMAIN q}
    BY <1>3 DEF Left, q
  <2> QED BY <2>2, <2>3, <2>4
<1>5. "choose" \in Left(t)' /\ "publish" \notin Left(t)'
        => "choose" \in Left(t) /\ "publish" \notin Left(t)
  BY <1>2, <1>4
<1>6. \A s \in Threads \ {t} : Left(s)' = Left(s)
  BY <1>3 DEF Left
<1>7. op' = op
  BY DEF Go
<1>8. op[t] # "none"
  BY DEF AllChosen
<1> QED BY <1>3, <1>5, <1>6, <1>7, <1>8 DEF AllChosen

\* Before a caller has chosen features, every set or init call that returns has chosen all.
LEMMA StepChoosesAll ==
  ASSUME Known, AllChosen, NEW t \in Threads, Step(t)
  PROVE  AllChosen'
<1>1. todo[t] # <<>> /\ op[t] # "none"
  BY ByName DEF AllChosen
<1>2. ASSUME NEW s, s # "publish", At(t, s), NEW steps, NEW members, Called(steps, members),
             members \cap {"publish", "choose"} = {}, Go(t, steps), UNCHANGED <<chosen, jumpIndex>>
      PROVE  AllChosen'
  BY <1>2, NothingChosen DEF At
<1>3. /\ Called(<<>>, {}) /\ Called(<<"getFeatures">>, {"getFeatures"})
      /\ Called(<<"getFeatures", "set", "jump">>, {"getFeatures", "set", "jump"})
      /\ Called(<<"detect", "enableAll", "readBack">>, {"detect", "enableAll", "readBack"})
  <2>1. /\ {"getFeatures", "set", "jump", "detect", "enableAll", "readBack"} \subseteq Steps
        /\ StepRank["getFeatures"] < StepRank["set"] /\ StepRank["set"] < StepRank["jump"]
        /\ StepRank["detect"] < StepRank["enableAll"]
        /\ StepRank["enableAll"] < StepRank["readBack"]
    BY Ranks
  <2>2. "getFeatures" \in Steps /\ "set" \in Steps /\ "jump" \in Steps
    BY <2>1
  <2>3. "detect" \in Steps /\ "enableAll" \in Steps /\ "readBack" \in Steps
    BY <2>1
  <2>4. Called(<<"getFeatures">>, {"getFeatures"})
    BY <2>2, OneCalled
  <2>5. Called(<<"getFeatures", "set", "jump">>, {"getFeatures", "set", "jump"})
    BY <2>1, <2>2, ThreeCalled
  <2>6. Called(<<"detect", "enableAll", "readBack">>, {"detect", "enableAll", "readBack"})
    BY <2>1, <2>3, ThreeCalled
  <2> QED BY <2>4, <2>5, <2>6, NoneCalled
<1>4. ASSUME NEW s, s # "publish", At(t, s), Go(t, <<>>), UNCHANGED <<chosen, jumpIndex>>
      PROVE  AllChosen'
  BY <1>2, <1>3, <1>4
<1>5. CASE Jump(t)
  BY <1>2, <1>3, <1>4, <1>5 DEF Jump, statics
<1>6. CASE GetCpuFeatures(t)
  BY <1>2, <1>3, <1>4, <1>6 DEF GetCpuFeatures, statics
<1>7. CASE Query(t)
  BY <1>2, <1>3, <1>4, <1>7 DEF Query, statics
<1>8. CASE Detect(t) \/ EnableAll(t) \/ ReadBack(t) \/ FeaturesToIdx(t) \/ LevelMask(t)
  BY <1>4, <1>8 DEF Detect, EnableAll, ReadBack, FeaturesToIdx, LevelMask, statics
<1>9. CASE SetMethods(t) \/ ExpandKeys(t) \/ Cipher(t)
  BY <1>4, <1>9 DEF SetMethods, ExpandKeys, Cipher, statics
<1>10. ASSUME NEW s \in Aes, NEW ticktock, NEW answer \in Aes, Ask(t, s, ticktock, answer)
       PROVE  AllChosen'
  <2>1. Called(<<answer>>, {answer}) /\ Called(<<"query", answer>>, {"query", answer})
    <3>1. answer \in Steps /\ "query" \in Steps /\ StepRank["query"] < StepRank[answer]
      BY Ranks DEF Aes
    <3> QED BY <3>1, OneCalled, TwoCalled
  <2>2. s # "publish" /\ answer \notin {"publish", "choose"}
    BY DEF Aes
  <2>3. /\ At(t, s) /\ UNCHANGED <<chosen, jumpIndex>>
        /\ Go(t, <<answer>>) \/ Go(t, <<"query", answer>>)
    BY <1>10 DEF Ask, statics
  <2> QED BY <1>2, <2>1, <2>2, <2>3
<1>11. CASE AskMethods(t) \/ AskKeys(t) \/ AskEcb(t)
  BY <1>10, <1>11 DEF AskMethods, AskKeys, AskEcb, Aes
<1>12. \A s \in Threads \ {t} : todo'[s] = todo[s] => Left(s)' = Left(s)
  BY DEF Left
<1>13. CASE SetCpuFeatures(t)
  <2>1. At(t, "set") /\ Ready(t, "set")
    BY <1>13, AtHand DEF SetCpuFeatures
  <2>2. Left(t) \cap {"query", "getFeatures", "detect", "enableAll", "readBack"} = {}
    BY <2>1, Ranks, Passed
  <2>3. "NOCHECK" \notin arg[t]
    BY <2>1, <2>2, BestRung DEF Ready, Done
  <2>4. Go(t, SetSteps) /\ UNCHANGED <<chosen, jumpIndex>>
    BY <1>13, <2>3, SetCalled DEF SetCpuFeatures
  <2>5. todo'[t] = SetSteps \o Tail(todo[t]) /\ \A s \in Threads \ {t} : todo'[s] = todo[s]
    BY <2>1, <2>4 DEF Go, Do, Ready, Functions
  <2>6. "publish" \in Left(t)'
    <3>1. SetSteps \in Seq(Steps) /\ Len(SetSteps) = 6 /\ SetSteps[5] = "publish"
      BY CourseSteps DEF SetSteps
    <3>2. Tail(todo[t]) \in Seq(Steps)
      BY <1>1, <2>1 DEF Ready, StepsOK
    <3> DEFINE r == Tail(todo[t])
               b == SetSteps
    <3> HIDE DEF r, b
    <3>3. b \in Seq(Steps) /\ Len(b) = 6 /\ b[5] = "publish" /\ r \in Seq(Steps)
      BY <3>1, <3>2 DEF r, b
    <3>4. /\ b \o r \in Seq(Steps) /\ Len(b \o r) = Len(b) + Len(r)
          /\ \A i \in 1..(Len(b) + Len(r)) : (b \o r)[i] = IF i <= Len(b) THEN b[i] ELSE r[i - Len(b)]
      <4>1. b \in Seq(Steps) /\ r \in Seq(Steps)
        BY <3>3
      <4> QED BY ONLY <4>1, Concatenated
    <3>5. 5 \in 1..Len(b \o r) /\ (b \o r)[5] = "publish"
      <4>1. Len(r) \in Nat
        BY <3>3
      <4> QED BY ONLY <3>3, <3>4, <4>1
    <3>6. DOMAIN (b \o r) = 1..Len(b \o r)
      BY <3>4
    <3>7. 5 \in DOMAIN todo'[t] /\ todo'[t][5] = "publish"
      BY <2>5, <3>5, <3>6 DEF b, r
    <3> QED BY <3>7 DEF Left
  <2> QED BY <1>1, <1>12, <2>4, <2>5, <2>6 DEF AllChosen, Go
<1>14. CASE Publish(t)
  <2>1. At(t, "publish") /\ Ready(t, "publish") /\ Go(t, <<>>)
    BY <1>14, AtHand DEF Publish
  <2>2. "toIdx" \notin Left(t)
    BY <2>1, Ranks, Passed
  <2>3. jumpIndex' = Best /\ chosen' = chosen
    BY <1>14, <2>1, <2>2 DEF Ready, Done, Publish
  <2>4. jumpIndex' # "none"
    BY <2>3, BestRung DEF Lib
  <2>5. \A s \in Threads \ {t} : todo'[s] = todo[s]
    BY <2>1 DEF Go, Do, Ready, Functions
  <2> QED BY <1>1, <1>12, <2>1, <2>3, <2>4, <2>5 DEF AllChosen, Go
<1>15. CASE Choose(t)
  <2>1. At(t, "choose") /\ Ready(t, "choose") /\ Finished(t, "choose") /\ Go(t, <<>>)
    BY <1>15, AtHand, Finishes DEF Choose
  <2>2. "publish" \notin Left(t) /\ "choose" \in Left(t)
    <3>1. "publish" \in Steps /\ "choose" \in Steps /\ StepRank["publish"] < StepRank["choose"]
      BY Ranks
    <3> QED BY <2>1, <3>1, Passed DEF Ready
  <2>3. arg[t] = CPU /\ jumpIndex # "none"
    BY <2>1, <2>2 DEF Ready, Done, AllChosen
  <2>4. chosen' \in {chosen, {CPU}} /\ jumpIndex' = jumpIndex
    BY <1>15, <2>3 DEF Choose
  <2>5. "choose" \notin Left(t)' /\ \A s \in Threads \ {t} : todo'[s] = todo[s]
    BY <2>1 DEF Finished
  <2> QED BY <1>1, <1>12, <2>1, <2>3, <2>4, <2>5 DEF AllChosen, Go
<1> QED BY <1>5, <1>6, <1>7, <1>8, <1>9, <1>11, <1>13, <1>14, <1>15 DEF Step

\* A call without a choice leaves what was chosen.
LEMMA CallChoosesAll ==
  ASSUME Known, AllChosen, NEW t \in Threads, NEW o \in Op \ {"Set"}, Call(t, o, {})
  PROVE  AllChosen'
<1>1. /\ \A s \in Threads \ {t} : todo'[s] = todo[s] /\ op'[s] = op[s]
      /\ todo'[t] = Body(o) /\ op'[t] = o /\ jumpIndex' = jumpIndex /\ chosen' \in {{}, chosen}
  BY DEF Known, Functions, Call, statics
<1>2. "choose" \notin Left(t)'
  <2>1. \A i \in DOMAIN Body(o) : Body(o)[i] # "choose"
    <3>1. CASE o = "Init"
      <4> DEFINE b == <<"getFeatures", "set">>
      <4>1. DOMAIN b = {1, 2} /\ b[1] # "choose" /\ b[2] # "choose"
        OBVIOUS
      <4> HIDE DEF b
      <4>2. \A i \in DOMAIN b : b[i] # "choose"
        BY <4>1
      <4> QED BY <3>1, <4>2 DEF Body, b
    <3>2. CASE o # "Init"
      <4> DEFINE S == Steps \ {"choose"}
      <4>1. /\ Stub \in Seq(S) /\ <<"getFeatures">> \in Seq(S) /\ <<"ecb">> \in Seq(S)
            /\ <<"methods", "keys">> \in Seq(S)
        <5>1. {"jump", "getFeatures", "ecb", "methods", "keys"} \subseteq S
          BY Ranks
        <5> HIDE DEF S
        <5>2. "jump" \in S /\ "getFeatures" \in S /\ "ecb" \in S /\ "methods" \in S /\ "keys" \in S
          BY <5>1
        <5> QED BY <5>2 DEF Stub
      <4>2. \A a, b \in Seq(S) : a \o b \in Seq(S)
        OBVIOUS
      <4>3. Body(o) \in Seq(S)
        BY <3>2, <4>1, <4>2 DEF Body, Op, UserOps
      <4>4. \A q \in Seq(S) : \A i \in DOMAIN q : q[i] \in S
        OBVIOUS
      <4> QED BY <4>3, <4>4
    <3> QED BY <3>1, <3>2
  <2> QED BY <1>1, <2>1 DEF Left
<1>3. \A s \in Threads \ {t} : Left(s)' = Left(s)
  BY <1>1 DEF Left
<1>4. o # "none"
  BY DEF Op, UserOps
<1> QED BY <1>1, <1>2, <1>3, <1>4 DEF AllChosen

-----------------------------------------------------------------------------
\* Every step of a program in which only t may choose features keeps the choice.
LEMMA NextChoice ==
  ASSUME NEW t \in Threads, {"NOCHECK"} \notin Choices
  PROVE  ChoiceInv(t) /\ [Next]_vars /\ OneChooses(t)' => ChoiceInv(t)'
<1> SUFFICES ASSUME ChoiceInv(t), [Next]_vars, OneChooses(t)' PROVE ChoiceInv(t)'
  OBVIOUS
<1>1. CASE UNCHANGED vars
  <2>1. CASE Known /\ AllChosen
    <3>1. Known'
      <4>1. IInv'
        BY <1>1, <2>1, NextKnown DEF IInv
      <4>2. everSet' = FALSE
        BY <1>1, <2>1 DEF Known, vars
      <4> QED BY <4>1, <4>2 DEF IInv
    <3>2. AllChosen'
      BY <1>1, <2>1 DEF AllChosen, Left, vars
    <3> QED BY <3>1, <3>2 DEF ChoiceInv
  <2>2. CASE OnlyCaller(t)
    <3>1. OnlyCaller(t)'
      BY <1>1, <2>2 DEF OnlyCaller, Functions, Deciding, Course, Decided, LibFor, vars
    <3> QED BY <3>1 DEF ChoiceInv
  <2> QED BY <2>1, <2>2 DEF ChoiceInv
<1>2. ASSUME Known, AllChosen, Next PROVE ChoiceInv(t)'
  <2>1. ASSUME NEW s \in Threads, NEW o \in Op \ {"Set"}, Call(s, o, {}) PROVE ChoiceInv(t)'
    BY <1>2, <2>1, CallKeeps, CallChoosesAll DEF ChoiceInv
  <2>2. ASSUME NEW s \in Threads, Step(s) PROVE ChoiceInv(t)'
    BY <1>2, <2>2, StepKeeps, StepChoosesAll DEF ChoiceInv
  <2>3. ASSUME NEW s \in Threads, NEW mask \in Choices, Call(s, "Set", mask) PROVE ChoiceInv(t)'
    <3>1. Functions /\ Shared /\ "NOCHECK" \notin CPU
      BY <1>2, BestRung DEF Known
    <3>2. everSet' = TRUE /\ \A u \in Threads \ {t} : op'[u] = "none"
      BY <2>3 DEF Call, OneChooses
    <3>3. op'[s] = "Set" /\ s = t
      BY <2>3, <3>1, <3>2 DEF Call, Functions
    <3>4. \A u \in Threads \ {t} : todo'[u] = <<>>
      BY <1>2, <2>3, <3>1, <3>2, <3>3 DEF Call, Functions, AllChosen
    <3>5. todo'[t] = <<"set">> /\ arg'[t] = mask /\ arg'[t] # {"NOCHECK"}
      BY <2>3, <3>1, <3>3 DEF Call, Functions, Body
    <3>6. Course(t)'
      BY <3>5 DEF Course
    <3>7. Deciding(t)'
      BY <2>3, <3>3, <3>6 DEF Deciding, Call, UserOps
    <3>8. "NOCHECK" \notin cpFeatures'
      BY <2>3, <3>1 DEF Call, Shared, statics
    <3>9. Functions'
      BY <2>3, <3>1 DEF Call, Functions, statics
    <3> QED BY <3>2, <3>4, <3>7, <3>8, <3>9 DEF ChoiceInv, OnlyCaller
  <2> QED BY <1>2, <2>1, <2>2, <2>3 DEF Next
<1>3. ASSUME OnlyCaller(t), Next PROVE ChoiceInv(t)'
  <2>1. everSet = TRUE /\ Functions /\ \A s \in Threads \ {t} : todo[s] = <<>>
    BY <1>3 DEF OnlyCaller
  <2>2. ASSUME NEW s \in Threads, NEW o \in Op, NEW mask, mask # {"NOCHECK"}, Call(s, o, mask)
        PROVE  ChoiceInv(t)'
    <3>1. op'[s] = o /\ everSet' = TRUE /\ o # "none"
      BY <2>1, <2>2 DEF Call, Functions, Op, UserOps
    <3>2. s = t
      BY <3>1 DEF OneChooses
    <3> QED BY <1>3, <2>2, <3>2, CallDecides DEF ChoiceInv
  <2>3. ASSUME NEW s \in Threads, Step(s) PROVE ChoiceInv(t)'
    <3>1. s = t
      BY <2>1, <2>3, ByName
    <3> QED BY <1>3, <2>3, <3>1, DecidingKeeps, DecidedKeeps DEF ChoiceInv, OnlyCaller
  <2>4. {} # {"NOCHECK"} /\ \A mask \in Choices : mask # {"NOCHECK"}
    OBVIOUS
  <2>5. "Set" \in Op
    BY DEF Op, UserOps
  <2> QED BY <1>3, <2>2, <2>3, <2>4, <2>5 DEF Next
<1> QED BY <1>1, <1>2, <1>3 DEF ChoiceInv

\* However many threads a program has, if features are chosen by one that is the only one to
\* have called the library, then while no set or init call is running the mask and the variant
\* are those of the last choice.  Without the two conditions it is not so: an initialisation
\* begun by another thread may store over the choice (cpinit.c:389), and the choice of no
\* feature looks like a library that is not initialised (cpinit.c:50).
THEOREM ChoiceKept ==
  ASSUME NEW t \in Threads, {"NOCHECK"} \notin Choices
  PROVE  Spec /\ []OneChooses(t) => []UserChoiceKept
<1>1. Init => ChoiceInv(t)
  <2> SUFFICES ASSUME Init PROVE ChoiceInv(t)
    OBVIOUS
  <2>1. Known
    BY InitKnown DEF IInv, Init
  <2>2. AllChosen
    <3>1. \A s \in Threads : Left(s) = {}
      BY DEF Init, Left
    <3> QED BY <3>1 DEF Init, AllChosen
  <2> QED BY <2>1, <2>2 DEF ChoiceInv
<1>2. ChoiceInv(t) => UserChoiceKept
  <2>1. ASSUME Known, AllChosen PROVE UserChoiceKept
    <3> SUFFICES ASSUME NEW mask \in chosen
                 PROVE  /\ cpFeaturesMask = mask
                        /\ jumpIndex = Rungs[RungOf(mask \ {"NOCHECK"}, cpFeatures)].lib
      BY DEF UserChoiceKept
    <3>1. mask = CPU /\ cpFeatures = CPU /\ cpFeaturesMask = CPU /\ jumpIndex = Best
      BY <2>1 DEF Known, AllChosen, Shared
    <3>2. mask \ {"NOCHECK"} = CPU
      BY <3>1, BestRung
    <3> QED BY <3>1, <3>2 DEF Best
  <2>2. ASSUME OnlyCaller(t) PROVE UserChoiceKept
    <3>1. CASE Deciding(t)
      BY <3>1 DEF Deciding, UserChoiceKept
    <3>2. CASE Decided(t)
      BY <3>2 DEF Decided, UserChoiceKept, LibFor
    <3> QED BY <2>2, <3>1, <3>2 DEF OnlyCaller
  <2> QED BY <2>1, <2>2 DEF ChoiceInv
<1>3. ChoiceInv(t) /\ [Next]_vars /\ OneChooses(t)' => ChoiceInv(t)'
  BY NextChoice
<1> QED BY <1>1, <1>2, <1>3, PTL DEF Spec
=============================================================================
