----------------------------- MODULE Dispatcher -----------------------------
(***************************************************************************)
(* CPU dispatching: what cpinit.c and the generated jump stubs do with the *)
(* statics cpFeatures, cpFeaturesMask and ippcpJumpIndexForMergedLibs when *)
(* several threads call the library, and an AES context each that depends  *)
(* on the answers.  Nothing is locked: one step is one access to a static, *)
(* and todo[t] is what thread t still has to do in its present call.       *)
(*                                                                         *)
(* A feature mask is a set.  The groups of features the ladder tests       *)
(* together are one element: "SSE3" also stands for MOVBE, SSSE3 and       *)
(* SSE4.1, "AVX3I" for SHA, VBMI, IFMA, GFNI, VAES and VPCLMUL, and "AES"  *)
(* for AES-NI or AVX2VAES.                                                 *)
(***************************************************************************)
EXTENDS Naturals, Sequences, FiniteSets

CONSTANTS
  Threads,
  CPU,       \* what CPUID reports
  Merged,    \* BOOLEAN: stubs choose the variant, or a 1cpu library
  OneCpu,    \* the variant that a 1cpu library was built for
  Choices,   \* masks a thread may pass to ippcpSetCpuFeatures
  Ops        \* which functions the threads call

Feature == {"MMX", "SSE", "SSE2", "SSE3", "SSE42", "AVX", "AVX2", "AVX3X",
            "AVX3M", "AVX3I", "AES", "OS", "OS512", "NOCHECK"}
Lib == {"M7", "Y8", "L9", "K0", "K1"}
UserOps == {"Init", "Set"}
Op == UserOps \cup {"GetCpu", "AESInit", "ECB"}

ASSUME DispatchAssumption ==
  /\ CPU \subseteq Feature \ {"NOCHECK"} /\ {"MMX", "SSE", "SSE2"} \subseteq CPU
  /\ Choices \subseteq SUBSET Feature /\ Ops \subseteq Op
  /\ Merged \in BOOLEAN /\ OneCpu \in Lib

VARIABLES
  cpFeatures, cpFeaturesMask, jumpIndex,   \* the statics
  todo, op,          \* per thread: the steps left of its call, the function called
  arg, sel, idx,     \* per thread: locals cpuFeatures (two of them) and index
  lib, status,       \* per thread: the variant it runs in; what the set call returned
  ctx, used,         \* per thread: its AES context; how ECB used the last one
  chosen,            \* history: the mask of the last set or init call, if it has returned
  everSet            \* history: whether some caller has chosen features

vars == <<cpFeatures, cpFeaturesMask, jumpIndex, todo, op, arg, sel, idx,
          lib, status, ctx, used, chosen, everSet>>
locals == <<arg, sel, idx, lib, status, ctx, used>>
statics == <<cpFeatures, cpFeaturesMask, jumpIndex>>

-----------------------------------------------------------------------------
\* A rung of the ladder: any one of the sets of features and what the OS must
\* have enabled select the library; mask is what its code takes for granted.
SSE42_MSK == {"MMX", "SSE", "SSE2", "SSE3", "SSE42"}
AVX2_MSK == SSE42_MSK \cup {"AVX", "AVX2"}
Rungs ==
  << [any |-> {{"AVX3X", "AVX3I"}}, os |-> {"OS512"}, lib |-> "K1",
      mask |-> AVX2_MSK \cup {"AVX3X", "AVX3I"}],
     [any |-> {{"AVX3X"}}, os |-> {"OS512"}, lib |-> "K0", mask |-> AVX2_MSK \cup {"AVX3X"}],
     [any |-> {{"AVX3M"}}, os |-> {"OS512"}, lib |-> "L9", mask |-> AVX2_MSK \cup {"AVX3M"}],
     [any |-> {{"AVX2"}}, os |-> {"OS"}, lib |-> "L9", mask |-> AVX2_MSK],
     [any |-> {{"SSE42"}, {"AVX"}}, os |-> {}, lib |-> "Y8", mask |-> SSE42_MSK],
     [any |-> {{"SSE3"}}, os |-> {}, lib |-> "M7", mask |-> {"MMX", "SSE", "SSE2", "SSE3"}],
     [any |-> {{"SSE2"}}, os |-> {}, lib |-> "M7", mask |-> {"MMX", "SSE", "SSE2"}],
     [any |-> {{"SSE"}}, os |-> {}, lib |-> "M7", mask |-> {"MMX", "SSE"}],
     [any |-> {{}}, os |-> {}, lib |-> "M7", mask |-> {"MMX"}] >>

Selects(i, wanted, features) ==
  /\ Rungs[i].os \subseteq features
  /\ \E need \in Rungs[i].any : need \subseteq wanted

\* Mutant: a later rung wins.
RungOf_Mutant(wanted, features) ==
  IF \A i \in 1..7 : ~Selects(i, wanted, features) THEN Len(Rungs)
  ELSE CHOOSE i \in 1..7 :
         Selects(i, wanted, features) /\ \A j \in (i + 1)..7 : ~Selects(j, wanted, features)

\* owncpFeaturesToIdx: the first rung that holds.
RungOf(wanted, features) ==
  CHOOSE i \in DOMAIN Rungs :
    Selects(i, wanted, features) /\ \A j \in 1..(i - 1) : ~Selects(j, wanted, features)

\* A processor that has what a rung tests has what the rung's code takes for granted,
\* and one with vector AES has AES.
ASSUME CpuAssumption ==
  /\ \A i \in DOMAIN Rungs : Selects(i, CPU, CPU) => Rungs[i].mask \subseteq CPU
  /\ "AVX3I" \in CPU => "AES" \in CPU

StatusOf(i, wanted) == IF i >= 8 THEN "NotSupportedCpu"
                       ELSE IF Rungs[i].mask \subseteq wanted THEN "NoErr"
                       ELSE "FeaturesCombination"

-----------------------------------------------------------------------------
NoCtx == [engine |-> "none", keys |-> "none"]

Init ==
  /\ cpFeatures = {} /\ cpFeaturesMask = {} /\ jumpIndex = "none"
  /\ todo = [t \in Threads |-> <<>>] /\ op = [t \in Threads |-> "none"]
  /\ arg = [t \in Threads |-> {}] /\ sel = [t \in Threads |-> {}]
  /\ idx = [t \in Threads |-> "none"]
  /\ lib = [t \in Threads |-> OneCpu] /\ status = [t \in Threads |-> "NoErr"]
  /\ ctx = [t \in Threads |-> NoCtx] /\ used = [t \in Threads |-> "right"]
  /\ chosen = {} /\ everSet = FALSE

\* The steps of a call.  A dispatched function starts at its stub.
Stub == IF Merged THEN <<"jump">> ELSE <<>>
Body(o) == CASE o = "Init" -> <<"getFeatures", "set">>
             [] o = "Set" -> <<"set">>
             [] o = "GetCpu" -> <<"getFeatures">>
             [] o = "AESInit" -> Stub \o <<"methods", "keys">>
             [] o = "ECB" -> Stub \o <<"ecb">>

\* A thread calls a function of the library.
Call(t, o, mask) ==
  /\ todo[t] = <<>> /\ o \in Ops
  /\ o = "ECB" => ctx[t] # NoCtx
  /\ todo' = [todo EXCEPT ![t] = Body(o)] /\ op' = [op EXCEPT ![t] = o]
  /\ arg' = [arg EXCEPT ![t] = mask]
  /\ chosen' = IF o \in UserOps THEN {} ELSE chosen
  /\ everSet' = (everSet \/ o = "Set")
  /\ UNCHANGED <<statics, sel, idx, lib, status, ctx, used>>

At(t, s) == todo[t] # <<>> /\ Head(todo[t]) = s
\* Replace the step at hand by the steps it calls.
Do(t, steps) == todo' = [todo EXCEPT ![t] = steps \o Tail(@)]
Go(t, steps) == Do(t, steps) /\ UNCHANGED <<op, everSet>>

\* The stub: the index selects an entry of the table, entry -1 calls ippcpSafeInit,
\* which runs ippcpInit, and the stub starts again.
Jump(t) ==
  /\ At(t, "jump")
  /\ IF jumpIndex = "none"
     THEN Go(t, <<"getFeatures", "set", "jump">>) /\ UNCHANGED lib
     ELSE Go(t, <<>>) /\ lib' = [lib EXCEPT ![t] = jumpIndex]
  /\ UNCHANGED <<statics, arg, sel, idx, status, ctx, used, chosen>>

\* ippcpGetCpuFeatures: the cached features if there are any.
GetCpuFeatures(t) ==
  /\ At(t, "getFeatures")
  /\ IF cpFeatures # {} THEN Go(t, <<>>) /\ arg' = [arg EXCEPT ![t] = cpFeatures]
     ELSE Go(t, <<"detect", "enableAll", "readBack">>) /\ UNCHANGED arg
  /\ UNCHANGED <<statics, sel, idx, lib, status, ctx, used, chosen>>

\* cpGetFeatures: three accesses, in this order.
Detect(t) ==
  /\ At(t, "detect") /\ cpFeatures' = CPU
  /\ Go(t, <<>>) /\ UNCHANGED <<cpFeaturesMask, jumpIndex, locals, chosen>>

\* Mutant: the mask is cleared while the features are read.
EnableAll_Mutant(t) ==
  /\ At(t, "enableAll") /\ cpFeaturesMask' = {}
  /\ Go(t, <<>>) /\ UNCHANGED <<cpFeatures, jumpIndex, locals, chosen>>

EnableAll(t) ==
  /\ At(t, "enableAll") /\ cpFeaturesMask' = CPU
  /\ Go(t, <<>>) /\ UNCHANGED <<cpFeatures, jumpIndex, locals, chosen>>
ReadBack(t) ==
  /\ At(t, "readBack") /\ arg' = [arg EXCEPT ![t] = cpFeatures]
  /\ Go(t, <<>>) /\ UNCHANGED <<statics, sel, idx, lib, status, ctx, used, chosen>>

\* ippcpSetCpuFeatures: with NOCHECK the features are the caller's, otherwise CPUID's.
SetCpuFeatures(t) ==
  /\ At(t, "set") /\ sel' = [sel EXCEPT ![t] = arg[t] \ {"NOCHECK"}]
  /\ LET rest == <<"toIdx", "levelMask", "publish", "choose">> IN
     IF "NOCHECK" \in arg[t]
     THEN cpFeatures' = arg[t] \ {"NOCHECK"} /\ Go(t, rest)
     ELSE UNCHANGED cpFeatures /\ Go(t, <<"detect", "enableAll">> \o rest)
  /\ UNCHANGED <<cpFeaturesMask, jumpIndex, arg, idx, lib, status, ctx, used, chosen>>

FeaturesToIdx(t) ==
  /\ At(t, "toIdx")
  /\ LET i == RungOf(sel[t], cpFeatures) IN
     /\ sel' = [sel EXCEPT ![t] = @ \cup Rungs[i].mask]
     /\ idx' = [idx EXCEPT ![t] = Rungs[i].lib]
     /\ status' = [status EXCEPT ![t] = StatusOf(i, sel[t])]
  /\ Go(t, <<>>) /\ UNCHANGED <<statics, arg, lib, ctx, used, chosen>>
LevelMask(t) ==
  /\ At(t, "levelMask") /\ cpFeaturesMask' = sel[t]
  /\ Go(t, <<>>) /\ UNCHANGED <<cpFeatures, jumpIndex, locals, chosen>>

\* Mutant: the index is not stored.
Publish_Mutant(t) ==
  At(t, "publish") /\ Go(t, <<>>) /\ UNCHANGED <<statics, locals, chosen>>

Publish(t) ==
  /\ At(t, "publish") /\ jumpIndex' = idx[t]
  /\ Go(t, <<>>) /\ UNCHANGED <<cpFeatures, cpFeaturesMask, locals, chosen>>

\* Mutant: the chosen mask is not stored.
Choose_Mutant(t) ==
  /\ At(t, "choose") /\ UNCHANGED cpFeaturesMask
  /\ chosen' = IF op[t] \in UserOps THEN {arg[t]} ELSE chosen
  /\ Go(t, <<>>) /\ UNCHANGED <<cpFeatures, jumpIndex, locals>>

Choose(t) ==
  /\ At(t, "choose") /\ cpFeaturesMask' = arg[t]
  /\ chosen' = IF op[t] \in UserOps THEN {arg[t]} ELSE chosen
  /\ Go(t, <<>>) /\ UNCHANGED <<cpFeatures, jumpIndex, locals>>

\* cpGetFeature: an empty mask is filled first, then the mask is read again.
Query(t) ==
  /\ At(t, "query")
  /\ Go(t, IF cpFeaturesMask = {} THEN <<"getFeatures">> ELSE <<>>)
  /\ UNCHANGED <<statics, locals, chosen>>
IsFeatureEnabled(feature) == feature \in cpFeaturesMask

\* ippsAESInit asks twice: which cipher to use, then how to lay out its keys.
Ask(t, s, ticktock, answer) ==
  /\ At(t, s) /\ Go(t, IF ticktock THEN <<"query", answer>> ELSE <<answer>>)
  /\ UNCHANGED <<statics, locals, chosen>>
TickTock(t) == lib[t] # "M7"
AskMethods(t) == Ask(t, "methods", TickTock(t), "setMethods")
AskKeys(t) == Ask(t, "keys", TickTock(t), "expandKeys")

Layout(t) == IF TickTock(t)
             THEN IF IsFeatureEnabled("AES") THEN "native" ELSE "composite"
             ELSE "compact"
SetMethods(t) ==
  /\ At(t, "setMethods") /\ ctx' = [ctx EXCEPT ![t] = [NoCtx EXCEPT !.engine = Layout(t)]]
  /\ Go(t, <<>>) /\ UNCHANGED <<statics, arg, sel, idx, lib, status, used, chosen>>
ExpandKeys(t) ==
  /\ At(t, "expandKeys") /\ ctx' = [ctx EXCEPT ![t].keys = Layout(t)]
  /\ Go(t, <<>>) /\ UNCHANGED <<statics, arg, sel, idx, lib, status, used, chosen>>

\* ippsAESEncryptECB: the K1 variant asks for VAES, the others use the context's cipher.
AskEcb(t) == Ask(t, "ecb", lib[t] = "K1", "cipher")
Engine(t) == IF lib[t] = "K1" /\ IsFeatureEnabled("AVX3I") THEN "native" ELSE ctx[t].engine
Cipher(t) ==
  /\ At(t, "cipher")
  /\ used' = [used EXCEPT ![t] = IF Engine(t) = ctx[t].keys THEN "right" ELSE "wrong"]
  /\ Go(t, <<>>) /\ UNCHANGED <<statics, arg, sel, idx, lib, status, ctx, chosen>>

-----------------------------------------------------------------------------
\* The call of t goes on.
Step(t) ==
  \/ Jump(t) \/ GetCpuFeatures(t) \/ Detect(t) \/ EnableAll(t) \/ ReadBack(t)
  \/ SetCpuFeatures(t) \/ FeaturesToIdx(t) \/ LevelMask(t) \/ Publish(t) \/ Choose(t)
  \/ Query(t) \/ AskMethods(t) \/ SetMethods(t) \/ AskKeys(t) \/ ExpandKeys(t)
  \/ AskEcb(t) \/ Cipher(t)

Next == \E t \in Threads :
          \/ \E o \in Op \ {"Set"} : Call(t, o, {})
          \/ \E mask \in Choices : Call(t, "Set", mask)
          \/ Step(t)

Spec == Init /\ [][Next]_vars
\* A thread inside a call keeps running; whether it makes another is its own affair.
FairSpec == Spec /\ \A t \in Threads : WF_vars(Step(t))
-----------------------------------------------------------------------------
\* However many threads initialise the library at once, implicitly or not, a
\* thread that gets past the stub finds the features detected, all of them
\* enabled, and the first variant of the ladder whose code the CPU can run in
\* full; initialising again disturbs none.  It is so until a caller chooses features.
ReadyWhenPublished ==
  jumpIndex # "none" /\ ~everSet =>
    LET Runs(i) == Rungs[i].mask \cup Rungs[i].os \subseteq CPU
    IN  /\ cpFeatures = CPU /\ cpFeaturesMask = CPU
        /\ \E i \in DOMAIN Rungs :
             Rungs[i].lib = jumpIndex /\ Runs(i) /\ \A j \in 1..(i - 1) : ~Runs(j)

\* No text is encrypted by a cipher that expects another layout of the round
\* keys than ippsAESInit gave the context, though both functions ask for the
\* features at different times (pcpaes_internal_func.c, pcpaesminitca.c), as long as
\* no caller changes them.
CipherFitsKeys == everSet \/ \A t \in Threads : used[t] = "right"

\* While no set or init call is running the mask and the variant are those of
\* the last one, whatever calls the other threads make.
UserChoiceKept ==
  (\A t \in Threads : op[t] \in UserOps => todo[t] = <<>>) =>
    \A mask \in chosen :
      /\ cpFeaturesMask = mask
      /\ jumpIndex = Rungs[RungOf(mask \ {"NOCHECK"}, cpFeatures)].lib

\* Every call returns: initialising inside the stub does not go round for ever.
CallsReturn == \A t \in Threads : todo[t] # <<>> ~> todo[t] = <<>>
=============================================================================
