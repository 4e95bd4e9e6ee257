--------------------------- MODULE HotSwapProofs ---------------------------
(***************************************************************************)
(* Hot swaps for any models, GPU and requests: types; the memory of one    *)
(* swap between two models, whose reading of the GPU ages; what a swap     *)
(* reports where everything fits; and, where only one model fits, the      *)
(* service that any number of swaps give, with the steps of the refinement *)
(* of Service.                                                             *)
(***************************************************************************)
EXTENDS HotSwap, SumProofs

-----------------------------------------------------------------------------
(***************************************************************************)
(* What the paths of transitions, and the steps built from them, come to.  *)
(***************************************************************************)
Loadable == {"IDLE", "SLEEPING"}
Releasable == {"ACTIVE", "DRAINING"}
Releasing == {"SLEEP_OLD", "UNLOAD_OLD"}

\* One transition of a path.
LEMMA ThenIs ==
  ASSUME NEW done, NEW to
  PROVE  LET legal == done.legal /\ to \in TRANSITIONS[done.state]
         IN /\ Then(done, to).legal <=> legal
            /\ Then(done, to).state = IF legal THEN to ELSE done.state
BY DEF Then, IsValidTransition

LEMMA AtIs == ASSUME NEW from PROVE At(from).legal /\ At(from).state = from
BY DEF At

LEMMA Table ==
  /\ TRANSITIONS["IDLE"] = {"LOADING"}
  /\ TRANSITIONS["LOADING"] = {"ACTIVE", "ERROR"}
  /\ TRANSITIONS["ACTIVE"] = {"DRAINING", "SLEEPING", "ERROR"}
  /\ TRANSITIONS["DRAINING"] = {"SLEEPING", "ERROR"}
  /\ TRANSITIONS["SLEEPING"] = {"LOADING", "UNLOADING", "ERROR"}
  /\ TRANSITIONS["UNLOADING"] = {"IDLE", "ERROR"}
  /\ TRANSITIONS["ERROR"] = {"IDLE"}
BY DEF TRANSITIONS

LEMMA LoadPathIs ==
  ASSUME NEW from \in ModelState
  PROVE  /\ LoadPath(from).legal <=> from \in Loadable
         /\ LoadPath(from).state = IF from \in Loadable THEN "ACTIVE" ELSE from
<1>. DEFINE d == Then(At(from), "LOADING")
<1>1. /\ d.legal <=> from \in Loadable
      /\ d.state = IF from \in Loadable THEN "LOADING" ELSE from
  BY AtIs, ThenIs, Table DEF ModelState, Loadable
<1>. HIDE DEF d
<1>2. LoadPath(from) = Then(d, "ACTIVE")
  BY DEF LoadPath, d
<1>. QED
  BY <1>1, <1>2, ThenIs, Table DEF Loadable

LEMMA SleepPathIs ==
  ASSUME NEW from \in ModelState
  PROVE  /\ SleepPath(from).legal <=> from \in Releasable
         /\ SleepPath(from).state = IF from \in Releasable THEN "SLEEPING" ELSE from
BY AtIs, ThenIs, Table DEF ModelState, Releasable, SleepPath

LEMMA UnloadPathIs ==
  ASSUME NEW from \in ModelState
  PROVE  UnloadPath(from).state = IF from = "ACTIVE" THEN "IDLE" ELSE from
<1>. DEFINE d1 == Then(At(from), "DRAINING")
            d2 == Then(d1, "SLEEPING")
            d3 == Then(d2, "UNLOADING")
<1>1. /\ d1.legal <=> from = "ACTIVE"
      /\ d1.state = IF from = "ACTIVE" THEN "DRAINING" ELSE from
  BY AtIs, ThenIs, Table DEF ModelState
<1>. HIDE DEF d1
<1>2. /\ d2.legal <=> from = "ACTIVE"
      /\ d2.state = IF from = "ACTIVE" THEN "SLEEPING" ELSE from
  BY <1>1, ThenIs, Table
<1>. HIDE DEF d2
<1>3. /\ d3.legal <=> from = "ACTIVE"
      /\ d3.state = IF from = "ACTIVE" THEN "UNLOADING" ELSE from
  BY <1>2, ThenIs, Table
<1>. HIDE DEF d3
<1>4. UnloadPath(from) = Then(d3, "IDLE")
  BY DEF UnloadPath, d3, d2, d1
<1>. QED
  BY <1>3, <1>4, ThenIs, Table

\* Where a strategy leaves the old model.
Rest(strategy) == IF strategy = "UNLOAD_OLD" THEN "IDLE" ELSE "SLEEPING"

LEMMA ReleasePathIs ==
  ASSUME NEW from \in ModelState, NEW strategy \in Releasing
  PROVE  /\ ReleasePath(strategy, from).legal <=> from \in Releasable
         /\ ReleasePath(strategy, from).state
              = IF from \in Releasable THEN Rest(strategy) ELSE from
<1>. DEFINE d1 == SleepPath(from)
            d2 == Then(d1, "UNLOADING")
<1>1. /\ d1.legal <=> from \in Releasable
      /\ d1.state = IF from \in Releasable THEN "SLEEPING" ELSE from
  BY SleepPathIs
<1>2. CASE strategy # "UNLOAD_OLD"
  BY <1>1, <1>2 DEF ReleasePath, Rest
<1>. HIDE DEF d1
<1>3. /\ d2.legal <=> from \in Releasable
      /\ d2.state = IF from \in Releasable THEN "UNLOADING" ELSE from
  BY <1>1, ThenIs, Table
<1>. HIDE DEF d2
<1>4. CASE strategy = "UNLOAD_OLD"
  <2>1. ReleasePath(strategy, from) = Then(d2, "IDLE")
    BY <1>4 DEF ReleasePath, d2, d1
  <2>. QED
    BY <1>3, <1>4, <2>1, ThenIs, Table DEF Rest
<1>. QED
  BY <1>2, <1>4

Put(s, to) == swap' = [swap EXCEPT ![s] = to]
Done(zero, cut) == [pc |-> "done", zero_downtime |-> zero, cut |-> cut]
Retiring(s) == [pc |-> "retiring", old |-> swap[s].old, new |-> swap[s].new]

\* LoadNew, for the models' states st.
Loads(s, st, cut) ==
  LET old == swap[s].old
      new == swap[s].new
      up == [st EXCEPT ![new] = "ACTIVE"]
  IN \/ st[new] \notin Loadable /\ state' = st /\ Put(s, Failed)
     \/ st[new] \in Loadable /\ st[old] # "ACTIVE" /\ state' = up /\ Put(s, Done(TRUE, cut))
     \/ /\ st[new] \in Loadable /\ st[old] = "ACTIVE"
        /\ state' = [up EXCEPT ![old] = "SLEEPING"] /\ Put(s, Done(TRUE, cut))
     \/ /\ st[new] \in Loadable /\ st[old] = "ACTIVE"
        /\ state' = [up EXCEPT ![old] = "DRAINING"] /\ Put(s, Retiring(s))

LEMMA LoadNewLoads ==
  ASSUME NEW s, swap[s].old \in Models, swap[s].new \in Models,
         NEW st \in [Models -> ModelState], NEW cut,
         LoadNew(s, st, cut)
  PROVE  Loads(s, st, cut)
<1>. DEFINE old == swap[s].old
            new == swap[s].new
<1>1. /\ LoadPath(st[new]).legal <=> st[new] \in Loadable
      /\ LoadPath(st[new]).state = IF st[new] \in Loadable THEN "ACTIVE" ELSE st[new]
  BY LoadPathIs
<1>2. st[new] \notin Loadable => [st EXCEPT ![new] = st[new]] = st
  OBVIOUS
<1>3. CASE st[new] \notin Loadable
  <2>1. state' = st /\ Put(s, Failed)
    BY <1>1, <1>2, <1>3 DEF LoadNew, End, Complete, Put
  <2>. QED
    BY <1>3, <2>1 DEF Loads
<1>4. CASE st[new] \in Loadable
  <2>1. LoadPath(st[new]).legal /\ LoadPath(st[new]).state = "ACTIVE"
    BY <1>1, <1>4
  <2>. QED
    BY <1>4, <2>1 DEF LoadNew, Loads, End, Complete, Put, Done, Retiring
<1>. QED
  BY <1>3, <1>4

\* Release: old cannot be released any more, or it is at rest and new is loaded.
Releases(s, strategy, from, cut) ==
  LET old == swap[s].old
      new == swap[s].new
      st == [state EXCEPT ![old] = Rest(strategy)]
  IN \/ from \notin Releasable /\ state' = [state EXCEPT ![old] = from] /\ Put(s, Failed)
     \/ /\ from \in Releasable
        /\ \/ st[new] \notin Loadable /\ state' = st /\ Put(s, Failed)
           \/ /\ st[new] \in Loadable
              /\ state' = [st EXCEPT ![new] = "ACTIVE"] /\ Put(s, Done(TRUE, cut))

LEMMA ReleaseReleases ==
  ASSUME state \in [Models -> ModelState],
         NEW s, swap[s].old \in Models, swap[s].new \in Models,
         NEW strategy \in Releasing, NEW from \in ModelState, NEW cut,
         Release(s, strategy, from, cut)
  PROVE  Releases(s, strategy, from, cut)
<1>. DEFINE old == swap[s].old
            new == swap[s].new
            st == [state EXCEPT ![old] = Rest(strategy)]
<1>1. /\ ReleasePath(strategy, from).legal <=> from \in Releasable
      /\ ReleasePath(strategy, from).state
           = IF from \in Releasable THEN Rest(strategy) ELSE from
  BY ReleasePathIs
<1>2. CASE from \notin Releasable
  BY <1>1, <1>2 DEF Release, Releases, End, Put
<1>3. CASE from \in Releasable
  <2>1. LoadNew(s, st, cut)
    BY <1>1, <1>3 DEF Release
  <2>2. st \in [Models -> ModelState] /\ st[old] # "ACTIVE"
    BY DEF ModelState, Rest
  <2>3. Loads(s, st, cut)
    <3>. HIDE DEF st
    <3>. QED
      BY <2>1, <2>2, LoadNewLoads
  <2>. QED
    BY <1>3, <2>2, <2>3 DEF Loads, Releases
<1>. QED
  BY <1>2, <1>3

LEMMA StrategyTyped ==
  ASSUME NEW s
  PROVE  Strategy(s) \in Strategies
BY DEF Strategy, CanLoad, Decision, Strategies
-----------------------------------------------------------------------------
(***************************************************************************)
(* Memory.                                                                 *)
(***************************************************************************)

\* What a model holds in state st.
Holds(st, m) ==
  IF st = "SLEEPING" THEN Profile[m].weight
  ELSE IF IsOnGpu(st) THEN Total(Profile[m])
  ELSE 0

LEMMA HoldsTyped ==
  ASSUME NEW m \in Models, NEW st
  PROVE  /\ Profile[m].weight \in Nat /\ Profile[m].kv \in Nat /\ Total(Profile[m]) \in Nat
         /\ Holds(st, m) \in Nat /\ Holds(st, m) <= Total(Profile[m])
<1>1. Profile[m].weight \in Nat /\ Profile[m].kv \in Nat
  BY HotSwapAssumption
<1>. QED
  BY <1>1 DEF Holds, Total

Amount(st) == [m \in Models |-> Holds(st[m], m)]

LEMMA UsedIs == Used = foreign + SumOver(Amount(state), Models)
BY DEF Used, CurrentMemory, Amount, Holds

LEMMA UsedTyped ==
  ASSUME foreign \in Foreign
  PROVE  foreign \in Nat /\ SumOver(Amount(state), Models) \in Nat /\ Used \in Nat
<1>1. \A m \in Models : Amount(state)[m] \in Nat
  BY HoldsTyped DEF Amount
<1>2. SumOver(Amount(state), Models) \in Nat
  BY <1>1, HotSwapAssumption, SumNat
<1>. QED
  BY <1>2, UsedIs, HotSwapAssumption
-----------------------------------------------------------------------------
(***************************************************************************)
(* Types.                                                                  *)
(***************************************************************************)
LEMMA SwapFields ==
  ASSUME NEW x \in SwapState
  PROVE  /\ x.pc \in {"reading", "read", "releasing", "retiring"} =>
              x.old \in Models /\ x.new \in Models
         /\ x.pc = "read" => x.used \in Nat
         /\ x.pc = "releasing" => x.strategy \in Releasing
<1>1. CASE x \in {Idle, Failed}
  BY <1>1 DEF Idle, Failed
<1>2. CASE x \notin {Idle, Failed}
  BY <1>2 DEF SwapState, Releasing
<1>. QED
  BY <1>1, <1>2

LEMMA SwapStates ==
  /\ Idle \in SwapState /\ Failed \in SwapState
  /\ \A zero, cut \in BOOLEAN : Done(zero, cut) \in SwapState
  /\ \A s : swap[s].old \in Models /\ swap[s].new \in Models => Retiring(s) \in SwapState
BY DEF SwapState, Done, Retiring

LEMMA LoadsTyped ==
  ASSUME HotSwapTypeOK, NEW s \in Swaps, swap[s].old \in Models, swap[s].new \in Models,
         NEW st \in [Models -> ModelState], NEW cut \in BOOLEAN, Loads(s, st, cut)
  PROVE  state' \in [Models -> ModelState] /\ swap' \in [Swaps -> SwapState]
<1>1. state' \in [Models -> ModelState]
  BY DEF Loads, ModelState
<1>2. \E to \in SwapState : Put(s, to)
  BY SwapStates DEF Loads
<1>. QED
  BY <1>1, <1>2 DEF Put, HotSwapTypeOK

LEMMA ReleasesTyped ==
  ASSUME HotSwapTypeOK, NEW s \in Swaps, swap[s].old \in Models, swap[s].new \in Models,
         NEW strategy \in Releasing, NEW from \in ModelState, NEW cut \in BOOLEAN,
         Releases(s, strategy, from, cut)
  PROVE  state' \in [Models -> ModelState] /\ swap' \in [Swaps -> SwapState]
<1>1. state' \in [Models -> ModelState]
  BY DEF Releases, ModelState, HotSwapTypeOK, Rest
<1>2. \E to \in SwapState : Put(s, to)
  BY SwapStates DEF Releases
<1>. QED
  BY <1>1, <1>2 DEF Put, HotSwapTypeOK

\* Decide, case by case.
Decides(s) ==
  \/ state' = state /\ Put(s, Failed)
  \/ Strategy(s) = "DIRECT" /\ Loads(s, state, FALSE)
  \/ /\ Strategy(s) \in Releasing /\ state[swap[s].old] \in Releasable
     /\ Releases(s, Strategy(s), "DRAINING", FALSE)
  \/ /\ Strategy(s) \in Releasing /\ state[swap[s].old] \in Releasable
     /\ state' = [state EXCEPT ![swap[s].old] = "DRAINING"]
     /\ Put(s, [pc |-> "releasing", old |-> swap[s].old, new |-> swap[s].new,
                strategy |-> Strategy(s)])

LEMMA DecideDecides ==
  ASSUME HotSwapTypeOK, NEW s \in Swaps, Decide(s)
  PROVE  /\ swap[s].pc = "read" /\ swap[s].old \in Models /\ swap[s].new \in Models
         /\ Decides(s) /\ UNCHANGED <<pending, foreign>>
<1>1. swap[s].pc = "read" /\ swap[s].old \in Models /\ swap[s].new \in Models
  BY SwapFields DEF Decide, HotSwapTypeOK
<1>2. UNCHANGED <<pending, foreign>>
  BY DEF Decide
<1>3. state \in [Models -> ModelState] /\ "DRAINING" \in ModelState
  BY DEF HotSwapTypeOK, ModelState
<1>. DEFINE strategy == Strategy(s)
            old == swap[s].old
<1>4. \/ strategy = "INSUFFICIENT" /\ End(s, state, Failed)
      \/ strategy = "DIRECT" /\ LoadNew(s, state, FALSE)
      \/ /\ strategy \in {"SLEEP_OLD", "UNLOAD_OLD"}
         /\ \/ state[old] \notin {"ACTIVE", "DRAINING"} /\ End(s, state, Failed)
            \/ /\ state[old] \in {"ACTIVE", "DRAINING"}
               /\ Release(s, strategy, "DRAINING", FALSE)
            \/ /\ state[old] \in {"ACTIVE", "DRAINING"}
               /\ End(s, [state EXCEPT ![old] = "DRAINING"],
                      [pc |-> "releasing", old |-> old, new |-> swap[s].new,
                       strategy |-> strategy])
  BY DEF Decide
<1>. HIDE DEF strategy
<1>5. CASE End(s, state, Failed)
  BY <1>1, <1>2, <1>5 DEF End, Decides, Put
<1>6. CASE strategy = "DIRECT" /\ LoadNew(s, state, FALSE)
  <2>1. Loads(s, state, FALSE)
    BY <1>1, <1>3, <1>6, LoadNewLoads
  <2>. QED
    BY <1>1, <1>2, <1>6, <2>1 DEF Decides, strategy
<1>7. CASE /\ strategy \in Releasing /\ state[old] \in Releasable
           /\ Release(s, strategy, "DRAINING", FALSE)
  <2>1. Releases(s, strategy, "DRAINING", FALSE)
    BY <1>1, <1>3, <1>7, ReleaseReleases
  <2>. QED
    BY <1>1, <1>2, <1>7, <2>1 DEF Decides, strategy
<1>8. CASE /\ strategy \in Releasing /\ state[old] \in Releasable
           /\ End(s, [state EXCEPT ![old] = "DRAINING"],
                  [pc |-> "releasing", old |-> old, new |-> swap[s].new,
                   strategy |-> strategy])
  BY <1>1, <1>2, <1>8 DEF End, Decides, Put, strategy
<1>. QED
  BY <1>1, <1>2, <1>4, <1>5, <1>6, <1>7, <1>8 DEF Releasing, Releasable

\* Resume, case by case.
Resumes(s, cut) ==
  \/ /\ swap[s].pc = "releasing"
     /\ Releases(s, swap[s].strategy, state[swap[s].old], cut)
  \/ /\ swap[s].pc = "retiring" /\ state[swap[s].old] \in Releasable
     /\ state' = [state EXCEPT ![swap[s].old] = "SLEEPING"] /\ Put(s, Done(~cut, cut))
  \/ swap[s].pc = "retiring" /\ state' = state /\ Put(s, Failed)

LEMMA ResumeResumes ==
  ASSUME HotSwapTypeOK, NEW s \in Swaps, NEW cut \in BOOLEAN, Resume(s, cut)
  PROVE  /\ swap[s].pc \in {"releasing", "retiring"}
         /\ swap[s].old \in Models /\ swap[s].new \in Models
         /\ swap[s].pc = "releasing" => swap[s].strategy \in Releasing
         /\ Resumes(s, cut)
<1>. DEFINE old == swap[s].old
<1>1. swap[s].pc \in {"releasing", "retiring"}
  BY DEF Resume
<1>2. /\ old \in Models /\ swap[s].new \in Models
      /\ swap[s].pc = "releasing" => swap[s].strategy \in Releasing
  BY <1>1, SwapFields DEF HotSwapTypeOK
<1>3. state \in [Models -> ModelState] /\ state[old] \in ModelState
  BY <1>2 DEF HotSwapTypeOK
<1>4. /\ SleepPath(state[old]).legal <=> state[old] \in Releasable
      /\ SleepPath(state[old]).state = IF state[old] \in Releasable THEN "SLEEPING" ELSE state[old]
  BY <1>3, SleepPathIs
<1>5. CASE swap[s].pc = "releasing"
  <2>1. Release(s, swap[s].strategy, state[old], cut)
    BY <1>5 DEF Resume
  <2>2. Releases(s, swap[s].strategy, state[old], cut)
    BY <1>2, <1>3, <1>5, <2>1, ReleaseReleases
  <2>. QED
    BY <1>1, <1>2, <1>5, <2>2 DEF Resumes
<1>6. CASE swap[s].pc = "retiring" /\ state[old] \in Releasable
  <2>1. SleepPath(state[old]).legal /\ SleepPath(state[old]).state = "SLEEPING"
    BY <1>4, <1>6
  <2>2. /\ state' = [state EXCEPT ![old] = "SLEEPING"]
        /\ swap' = [swap EXCEPT ![s] = [pc |-> "done", zero_downtime |-> ~cut, cut |-> cut]]
    BY <1>6, <2>1 DEF Resume, Complete, End, ZeroDowntime
  <2>. QED
    BY <1>1, <1>2, <1>6, <2>2 DEF Resumes, Put, Done
<1>7. CASE swap[s].pc = "retiring" /\ state[old] \notin Releasable
  <2>1. ~SleepPath(state[old]).legal /\ SleepPath(state[old]).state = state[old]
    BY <1>4, <1>7
  <2>2. [state EXCEPT ![old] = state[old]] = state
    BY <1>3
  <2>3. state' = state /\ swap' = [swap EXCEPT ![s] = Failed]
    BY <1>7, <2>1, <2>2 DEF Resume, Complete, End
  <2>. QED
    BY <1>1, <1>2, <1>7, <2>3 DEF Resumes, Put
<1>. QED
  BY <1>1, <1>5, <1>6, <1>7

\* Drained and TimeOut, in the terms of Resumes.
LEMMA DrainEnds ==
  ASSUME HotSwapTypeOK, NEW s \in Swaps, Drained(s) \/ TimeOut(s)
  PROVE  \E cut \in BOOLEAN :
           /\ swap[s].pc \in {"releasing", "retiring"}
           /\ swap[s].old \in Models /\ swap[s].new \in Models
           /\ swap[s].pc = "releasing" => swap[s].strategy \in Releasing
           /\ Resumes(s, cut)
           /\ pending' = IF cut THEN [pending EXCEPT ![swap[s].old] = 0] ELSE pending
           /\ foreign' = foreign
<1>1. CASE Drained(s)
  <2>1. Resume(s, FALSE) /\ pending' = pending /\ foreign' = foreign
    BY <1>1 DEF Drained
  <2>. QED
    BY <2>1, ResumeResumes
<1>2. CASE TimeOut(s)
  <2>1. /\ Resume(s, TRUE) /\ pending' = [pending EXCEPT ![swap[s].old] = 0]
        /\ foreign' = foreign
    BY <1>2 DEF TimeOut
  <2>. QED
    BY <2>1, ResumeResumes
<1>. QED
  BY <1>1, <1>2

\* What an operator's call makes of a model.
LEMMA Operates ==
  ASSUME HotSwapTypeOK, NEW m \in Models, Operate(m)
  PROVE  /\ UNCHANGED <<pending, swap, foreign>>
         /\ \/ /\ "load" \in Calls[m]
               /\ state' = [state EXCEPT ![m] = IF @ \in Loadable THEN "ACTIVE" ELSE @]
            \/ state' = [state EXCEPT ![m] = IF @ \in Releasable THEN "SLEEPING" ELSE @]
               /\ "sleep" \in Calls[m]
            \/ state' = [state EXCEPT ![m] = IF @ = "ACTIVE" THEN "IDLE" ELSE @]
               /\ "unload" \in Calls[m]
<1>1. state[m] \in ModelState
  BY DEF HotSwapTypeOK
<1>2. /\ LoadPath(state[m]).state = IF state[m] \in Loadable THEN "ACTIVE" ELSE state[m]
      /\ SleepPath(state[m]).state = IF state[m] \in Releasable THEN "SLEEPING" ELSE state[m]
      /\ UnloadPath(state[m]).state = IF state[m] = "ACTIVE" THEN "IDLE" ELSE state[m]
  BY <1>1, LoadPathIs, SleepPathIs, UnloadPathIs
<1>. QED
  BY <1>2 DEF Operate
LEMMA TypeInit == Init => HotSwapTypeOK
<1>. SUFFICES ASSUME Init PROVE HotSwapTypeOK
  OBVIOUS
<1>1. state \in [Models -> ModelState] /\ foreign \in Foreign
  BY HotSwapAssumption DEF Init
<1>2. pending \in [Models -> 0..MaxPending]
  BY HotSwapAssumption DEF Init
<1>3. swap \in [Swaps -> SwapState]
  BY SwapStates DEF Init
<1>. QED
  BY <1>1, <1>2, <1>3 DEF HotSwapTypeOK

LEMMA TypeStep == HotSwapTypeOK /\ [Next]_vars => HotSwapTypeOK'
<1>. SUFFICES ASSUME HotSwapTypeOK, [Next]_vars PROVE HotSwapTypeOK'
  OBVIOUS
<1>1. ASSUME NEW s \in Swaps, NEW old \in Models, NEW new \in Models, Begin(s, old, new)
      PROVE  HotSwapTypeOK'
  <2>1. [pc |-> "reading", old |-> old, new |-> new] \in SwapState
    BY DEF SwapState
  <2>. QED
    BY <1>1, <2>1 DEF Begin, HotSwapTypeOK
<1>2. ASSUME NEW s \in Swaps, ReadGpu(s)
      PROVE  HotSwapTypeOK'
  <2>1. swap[s].old \in Models /\ swap[s].new \in Models /\ Used \in Nat
    BY <1>2, SwapFields, UsedTyped DEF ReadGpu, HotSwapTypeOK
  <2>2. [pc |-> "read", old |-> swap[s].old, new |-> swap[s].new, used |-> Used] \in SwapState
    BY <2>1 DEF SwapState
  <2>. QED
    BY <1>2, <2>2 DEF ReadGpu, HotSwapTypeOK
<1>3. ASSUME NEW s \in Swaps, Decide(s)
      PROVE  HotSwapTypeOK'
  <2>1. /\ swap[s].old \in Models /\ swap[s].new \in Models
        /\ Decides(s) /\ UNCHANGED <<pending, foreign>>
    BY <1>3, DecideDecides
  <2>2. state \in [Models -> ModelState] /\ swap \in [Swaps -> SwapState]
    BY DEF HotSwapTypeOK
  <2>3. FALSE \in BOOLEAN /\ "DRAINING" \in ModelState
    BY DEF ModelState
  <2>4. state' \in [Models -> ModelState] /\ swap' \in [Swaps -> SwapState]
    <3>1. CASE state' = state /\ Put(s, Failed)
      BY <2>2, <3>1, SwapStates DEF Put
    <3>2. CASE Strategy(s) = "DIRECT" /\ Loads(s, state, FALSE)
      BY <2>1, <2>2, <2>3, <3>2, LoadsTyped
    <3>3. CASE Strategy(s) \in Releasing /\ Releases(s, Strategy(s), "DRAINING", FALSE)
      BY <2>1, <2>2, <2>3, <3>3, ReleasesTyped
    <3>4. CASE /\ Strategy(s) \in Releasing
               /\ state' = [state EXCEPT ![swap[s].old] = "DRAINING"]
               /\ Put(s, [pc |-> "releasing", old |-> swap[s].old, new |-> swap[s].new,
                          strategy |-> Strategy(s)])
      <4>1. [pc |-> "releasing", old |-> swap[s].old, new |-> swap[s].new,
             strategy |-> Strategy(s)] \in SwapState
        BY <2>1, <3>4 DEF SwapState, Releasing
      <4>. QED
        BY <2>2, <2>3, <3>4, <4>1 DEF Put
    <3>. QED
      BY <2>1, <3>1, <3>2, <3>3, <3>4 DEF Decides
  <2>. QED
    BY <2>1, <2>4 DEF HotSwapTypeOK
<1>4. ASSUME NEW s \in Swaps, Drained(s) \/ TimeOut(s)
      PROVE  HotSwapTypeOK'
  <2>1. PICK cut \in BOOLEAN :
           /\ swap[s].pc \in {"releasing", "retiring"}
           /\ swap[s].old \in Models /\ swap[s].new \in Models
           /\ swap[s].pc = "releasing" => swap[s].strategy \in Releasing
           /\ Resumes(s, cut)
           /\ pending' = IF cut THEN [pending EXCEPT ![swap[s].old] = 0] ELSE pending
           /\ foreign' = foreign
    BY <1>4, DrainEnds
  <2>2. /\ state \in [Models -> ModelState] /\ swap \in [Swaps -> SwapState]
        /\ state[swap[s].old] \in ModelState
    BY <2>1 DEF HotSwapTypeOK
  <2>3. pending' \in [Models -> 0..MaxPending]
    <3>1. 0 \in 0..MaxPending
      BY HotSwapAssumption
    <3>. QED
      BY <2>1, <3>1 DEF HotSwapTypeOK
  <2>4. state' \in [Models -> ModelState] /\ swap' \in [Swaps -> SwapState]
    <3>1. CASE swap[s].pc = "releasing" /\ Releases(s, swap[s].strategy, state[swap[s].old], cut)
      BY <2>1, <2>2, <3>1, ReleasesTyped
    <3>2. CASE state' = [state EXCEPT ![swap[s].old] = "SLEEPING"] /\ Put(s, Done(~cut, cut))
      <4>1. Done(~cut, cut) \in SwapState
        BY SwapStates
      <4>. QED
        BY <2>2, <3>2, <4>1 DEF Put, ModelState
    <3>3. CASE state' = state /\ Put(s, Failed)
      BY <2>2, <3>3, SwapStates DEF Put
    <3>. QED
      BY <2>1, <3>1, <3>2, <3>3 DEF Resumes
  <2>. QED
    BY <2>1, <2>3, <2>4 DEF HotSwapTypeOK
<1>5. ASSUME NEW s \in Swaps, Return(s)
      PROVE  HotSwapTypeOK'
  BY <1>5, SwapStates DEF Return, HotSwapTypeOK
<1>6. ASSUME NEW m \in Models, Admit(m)
      PROVE  HotSwapTypeOK'
  <2>1. pending[m] + 1 \in 0..MaxPending
    BY <1>6, HotSwapAssumption DEF Admit, HotSwapTypeOK
  <2>. QED
    BY <1>6, <2>1 DEF Admit, HotSwapTypeOK
<1>7. ASSUME NEW m \in Models, Finish(m)
      PROVE  HotSwapTypeOK'
  <2>1. Decremented(pending[m]) \in 0..MaxPending
    BY HotSwapAssumption DEF Decremented, HotSwapTypeOK
  <2>. QED
    BY <1>7, <2>1 DEF Finish, HotSwapTypeOK
<1>8. ASSUME NEW m \in Models, Operate(m)
      PROVE  HotSwapTypeOK'
  BY <1>8, Operates DEF HotSwapTypeOK, ModelState
<1>9. ASSUME NEW s \in Swaps, ReadFails(s)
      PROVE  HotSwapTypeOK'
  BY <1>9, SwapStates DEF ReadFails, HotSwapTypeOK
<1>10. CASE UNCHANGED vars
  BY <1>10 DEF vars, HotSwapTypeOK
<1>. QED
  BY <1>1, <1>2, <1>3, <1>4, <1>5, <1>6, <1>7, <1>8, <1>9, <1>10 DEF Next, Progress

\* A swap's state is always one of hot_swap's, whatever models, requests and
\* operators do meanwhile.
THEOREM HotSwapTyped == Spec => []HotSwapTypeOK
BY TypeInit, TypeStep, PTL DEF Spec
-----------------------------------------------------------------------------
(***************************************************************************)
(* One swap at a time, and operators that stop models but load none.       *)
(***************************************************************************)
OneSwap == \A s, t \in Swaps : s = t
NoLoads == \A m \in Models : "load" \notin Calls[m]
TwoModels == \A x, y, z \in Models : x = y \/ y = z \/ x = z

Pending(s) == swap[s].pc \in {"reading", "read", "releasing"}

\* The new model is where hot_swap has found it until hot_swap loads it.
NewWaits == \A s \in Swaps : Pending(s) => swap[s].old # swap[s].new /\ state[swap[s].new] = "IDLE"

LEMMA PutElsewhere ==
  ASSUME HotSwapTypeOK, OneSwap, NEW s \in Swaps, NEW to, Put(s, to)
  PROVE  \A t \in Swaps : t = s /\ swap'[t] = to
BY DEF OneSwap, Put, HotSwapTypeOK

LEMMA NewWaitsStep ==
  ASSUME OneSwap, NoLoads, HotSwapTypeOK, NewWaits, [Next]_vars
  PROVE  NewWaits'
<1>. USE DEF NewWaits, Pending
<1>1. ASSUME NEW s \in Swaps, NEW old \in Models, NEW new \in Models, Begin(s, old, new)
      PROVE  NewWaits'
  <2>1. Put(s, [pc |-> "reading", old |-> old, new |-> new])
    BY <1>1 DEF Begin, Put
  <2>2. \A t \in Swaps : swap'[t] = [pc |-> "reading", old |-> old, new |-> new]
    BY <2>1, PutElsewhere
  <2>. QED
    BY <1>1, <2>2 DEF Begin
<1>2. ASSUME NEW s \in Swaps, ReadGpu(s)
      PROVE  NewWaits'
  <2>1. Put(s, [pc |-> "read", old |-> swap[s].old, new |-> swap[s].new, used |-> Used])
    BY <1>2 DEF ReadGpu, Put
  <2>2. \A t \in Swaps : /\ t = s
                         /\ swap'[t] = [pc |-> "read", old |-> swap[s].old,
                                        new |-> swap[s].new, used |-> Used]
    BY <2>1, PutElsewhere
  <2>. QED
    BY <1>2, <2>2 DEF ReadGpu
<1>3. ASSUME NEW s \in Swaps, NEW to, Put(s, to), to.pc \notin {"reading", "read", "releasing"}
      PROVE  NewWaits'
  BY <1>3, PutElsewhere
<1>4. /\ Failed.pc \notin {"reading", "read", "releasing"}
      /\ Idle.pc \notin {"reading", "read", "releasing"}
      /\ \A zero, cut \in BOOLEAN : Done(zero, cut).pc \notin {"reading", "read", "releasing"}
      /\ \A s : Retiring(s).pc \notin {"reading", "read", "releasing"}
  BY DEF Failed, Idle, Done, Retiring
<1>5. ASSUME NEW s \in Swaps, NEW st, NEW cut \in BOOLEAN, Loads(s, st, cut)
      PROVE  NewWaits'
  BY <1>3, <1>4, <1>5 DEF Loads
<1>6. ASSUME NEW s \in Swaps, NEW strategy, NEW from, NEW cut \in BOOLEAN,
             Releases(s, strategy, from, cut)
      PROVE  NewWaits'
  BY <1>3, <1>4, <1>6 DEF Releases
<1>7. ASSUME NEW s \in Swaps, Decide(s)
      PROVE  NewWaits'
  <2>1. /\ swap[s].pc = "read" /\ swap[s].old \in Models /\ swap[s].new \in Models
        /\ Decides(s)
    BY <1>7, DecideDecides
  <2>2. CASE Put(s, Failed)
    BY <1>3, <1>4, <2>2
  <2>3. CASE /\ state' = [state EXCEPT ![swap[s].old] = "DRAINING"]
             /\ Put(s, [pc |-> "releasing", old |-> swap[s].old, new |-> swap[s].new,
                        strategy |-> Strategy(s)])
    <3>1. \A t \in Swaps :
            /\ t = s
            /\ swap'[t] = [pc |-> "releasing", old |-> swap[s].old, new |-> swap[s].new,
                           strategy |-> Strategy(s)]
      BY <2>3, PutElsewhere
    <3>2. state'[swap[s].new] = state[swap[s].new] /\ swap[s].old # swap[s].new
      BY <2>1, <2>3 DEF HotSwapTypeOK
    <3>3. state[swap[s].new] = "IDLE"
      BY <2>1
    <3>. QED
      BY <3>1, <3>2, <3>3
  <2>. QED
    BY <1>5, <1>6, <2>1, <2>2, <2>3 DEF Decides
<1>8. ASSUME NEW s \in Swaps, Drained(s) \/ TimeOut(s)
      PROVE  NewWaits'
  <2>1. PICK cut \in BOOLEAN : Resumes(s, cut)
    BY <1>8, DrainEnds
  <2>2. (~cut) \in BOOLEAN
    OBVIOUS
  <2>. QED
    BY <1>3, <1>4, <1>6, <2>1, <2>2 DEF Resumes
<1>9. ASSUME NEW s \in Swaps, Return(s)
      PROVE  NewWaits'
  <2>1. Put(s, Idle)
    BY <1>9 DEF Return, Put
  <2>. QED
    BY <1>3, <1>4, <2>1
<1>10. ASSUME NEW m \in Models, Operate(m)
       PROVE  NewWaits'
  <2>1. /\ UNCHANGED swap
        /\ \/ state' = [state EXCEPT ![m] = IF @ \in Releasable THEN "SLEEPING" ELSE @]
           \/ state' = [state EXCEPT ![m] = IF @ = "ACTIVE" THEN "IDLE" ELSE @]
    BY <1>10, Operates DEF NoLoads
  <2>2. \A n \in Models : state[n] = "IDLE" => state'[n] = "IDLE"
    BY <2>1 DEF HotSwapTypeOK, Releasable
  <2>3. \A s \in Swaps : Pending(s) => swap[s].new \in Models
    BY SwapFields DEF HotSwapTypeOK
  <2>. QED
    BY <2>1, <2>2, <2>3
<1>11. ASSUME NEW s \in Swaps, ReadFails(s)
       PROVE  NewWaits'
  <2>1. Put(s, Failed)
    BY <1>11 DEF ReadFails, Put
  <2>. QED
    BY <1>3, <1>4, <2>1
<1>12. CASE state' = state /\ swap' = swap
  BY <1>12
<1>. QED
  BY <1>1, <1>2, <1>7, <1>8, <1>9, <1>10, <1>11, <1>12
     DEF Next, Progress, Admit, Finish, vars
-----------------------------------------------------------------------------
(***************************************************************************)
(* What can_load's answer says of the reading.                             *)
(***************************************************************************)
Reading(s) == [total |-> TotalMemory, used |-> swap[s].used]
Required(s) == Total(Profile[swap[s].new])
SumKvOnGpu == SumOver([m \in OnGpu |-> Profile[m].kv], OnGpu)
SumAllOnGpu == SumOver([m \in OnGpu |-> Total(Profile[m])], OnGpu)

LEMMA CanLoadMeans ==
  ASSUME NEW gpu, NEW required \in Nat, NEW kv \in Nat, NEW all \in Nat,
         FreeMemory(gpu) \in Nat,
         NEW strategy, strategy = CanLoad(gpu, required, kv, all).strategy
  PROVE  /\ FreeMemory(gpu) >= required <=> strategy = "DIRECT"
         /\ strategy = "SLEEP_OLD" => FreeMemory(gpu) + kv >= required
         /\ strategy = "UNLOAD_OLD" => FreeMemory(gpu) + all >= required
<1>. DEFINE free == FreeMemory(gpu)
<1>. HIDE DEF free
<1>1. free \in Nat
  BY DEF free
<1>2. CASE free >= required
  <2>1. strategy = "DIRECT"
    BY <1>1, <1>2 DEF CanLoad, Decision, free
  <2>. QED
    BY <1>2, <2>1 DEF free
<1>3. CASE free < required /\ free + kv >= required
  <2>1. strategy = "SLEEP_OLD"
    BY <1>1, <1>3 DEF CanLoad, Decision, free
  <2>. QED
    BY <1>1, <1>3, <2>1 DEF free
<1>4. CASE free < required /\ free + kv < required /\ free + all >= required
  <2>1. strategy = "UNLOAD_OLD"
    BY <1>1, <1>4 DEF CanLoad, Decision, free
  <2>. QED
    BY <1>1, <1>4, <2>1 DEF free
<1>5. CASE free < required /\ free + kv < required /\ free + all < required
  <2>1. strategy = "INSUFFICIENT"
    BY <1>1, <1>5 DEF CanLoad, Decision, free
  <2>. QED
    BY <1>1, <1>5, <2>1 DEF free
<1>. QED
  BY <1>1, <1>2, <1>3, <1>4, <1>5

LEMMA StrategyMeans ==
  ASSUME HotSwapTypeOK, NEW s \in Swaps, swap[s].pc = "read"
  PROVE  LET free == FreeMemory(Reading(s))
         IN /\ free \in Nat /\ SumKvOnGpu \in Nat /\ SumAllOnGpu \in Nat /\ Required(s) \in Nat
            /\ free = 0 \/ free = TotalMemory - swap[s].used
            /\ free >= TotalMemory - swap[s].used
            /\ free >= Required(s) <=> Strategy(s) = "DIRECT"
            /\ Strategy(s) = "SLEEP_OLD" => free + SumKvOnGpu >= Required(s)
            /\ Strategy(s) = "UNLOAD_OLD" => free + SumAllOnGpu >= Required(s)
<1>. DEFINE kvs == [m \in OnGpu |-> Profile[m].kv]
            alls == [m \in OnGpu |-> Total(Profile[m])]
<1>1. swap[s].used \in Nat /\ swap[s].new \in Models
  BY SwapFields DEF HotSwapTypeOK
<1>2. LET free == FreeMemory(Reading(s))
      IN /\ free \in Nat
         /\ free = 0 \/ free = TotalMemory - swap[s].used
         /\ free >= TotalMemory - swap[s].used
  BY <1>1, HotSwapAssumption DEF FreeMemory, Reading
<1>3. Required(s) \in Nat
  BY <1>1, HoldsTyped DEF Required
<1>4. IsFiniteSet(OnGpu) /\ OnGpu \in SUBSET Models
  BY HotSwapAssumption, FS_Subset DEF OnGpu
<1>5. (\A m \in OnGpu : kvs[m] \in Nat) /\ (\A m \in OnGpu : alls[m] \in Nat)
  BY <1>4, HoldsTyped
<1>. HIDE DEF kvs, alls
<1>6. SumKvOnGpu \in Nat /\ SumAllOnGpu \in Nat
  BY <1>4, <1>5, SumNat DEF SumKvOnGpu, SumAllOnGpu, kvs, alls
<1>7. Strategy(s) = CanLoad(Reading(s), Required(s), SumKvOnGpu, SumAllOnGpu).strategy
  BY DEF Strategy, Reading, Required, SumKvOnGpu, SumAllOnGpu
<1>. QED
  BY <1>2, <1>3, <1>6, <1>7, CanLoadMeans

\* Models that hold no more than before, together hold no more.
LEMMA UsedShrinks ==
  ASSUME HotSwapTypeOK, foreign' = foreign, \A m \in Models : Holds(state'[m], m) <= Holds(state[m], m)
  PROVE  Used' <= Used /\ Used \in Nat /\ Used' \in Nat
<1>. DEFINE f == Amount(state)
            g == Amount(state')
<1>1. \A m \in Models : g[m] \in Int /\ f[m] \in Int /\ g[m] <= f[m]
  BY HoldsTyped DEF Amount
<1>2. (\A m \in Models : g[m] \in Nat) /\ (\A m \in Models : f[m] \in Nat)
  BY HoldsTyped DEF Amount
<1>3. Used = foreign + SumOver(f, Models) /\ Used' = foreign' + SumOver(g, Models)
  BY DEF Used, CurrentMemory, Amount, Holds
<1>4. foreign \in Nat
  BY HotSwapAssumption DEF HotSwapTypeOK
<1>. HIDE DEF f, g
<1>5. SumOver(g, Models) <= SumOver(f, Models)
  BY <1>1, HotSwapAssumption, SumMonotonic
<1>6. SumOver(g, Models) \in Nat /\ SumOver(f, Models) \in Nat
  BY <1>2, HotSwapAssumption, SumNat
<1>. QED
  BY <1>3, <1>4, <1>5, <1>6

\* The GPU's use by two models.
LEMMA TwoAmounts ==
  ASSUME TwoModels, NEW x \in Models, NEW y \in Models, x # y, NEW st
  PROVE  SumOver(Amount(st), Models) = Holds(st[x], x) + Holds(st[y], y)
<1>. DEFINE f == Amount(st)
<1>1. Models = {x} \cup {y}
  BY DEF TwoModels
<1>2. f[x] = Holds(st[x], x) /\ f[y] = Holds(st[y], y) /\ f[x] \in Int /\ f[y] \in Int
  BY HoldsTyped DEF Amount
<1>. HIDE DEF f
<1>3. SumOver(f, {x} \cup {y}) = f[y] + SumOver(f, {x})
  <2>1. IsFiniteSet({x}) /\ y \notin {x} /\ \A z \in {x} \cup {y} : f[z] \in Int
    BY <1>2, FS_Singleton
  <2>. QED
    BY <2>1, SumAdd
<1>4. SumOver(f, {x}) = f[x]
  BY <1>2, SumSingle
<1>5. SumOver(f, Models) = f[y] + f[x]
  BY <1>1, <1>3, <1>4, Zenon
<1>6. f[y] + f[x] = f[x] + f[y]
  BY <1>2
<1>. QED
  BY <1>2, <1>5, <1>6 DEF f

LEMMA TwoUsed ==
  ASSUME HotSwapTypeOK, foreign' = foreign, TwoModels, NEW x \in Models, NEW y \in Models, x # y
  PROVE  /\ Used = foreign + Holds(state[x], x) + Holds(state[y], y)
         /\ Used' = foreign' + Holds(state'[x], x) + Holds(state'[y], y)
<1>1. Used = foreign + SumOver(Amount(state), Models)
      /\ Used' = foreign' + SumOver(Amount(state'), Models)
  BY DEF Used, CurrentMemory, Amount, Holds
<1>2. /\ SumOver(Amount(state), Models) = Holds(state[x], x) + Holds(state[y], y)
      /\ SumOver(Amount(state'), Models) = Holds(state'[x], x) + Holds(state'[y], y)
  BY TwoAmounts
<1>3. /\ foreign \in Nat
      /\ Holds(state[x], x) \in Nat /\ Holds(state[y], y) \in Nat
      /\ Holds(state'[x], x) \in Nat /\ Holds(state'[y], y) \in Nat
  BY HotSwapAssumption, HoldsTyped DEF HotSwapTypeOK
<1>. QED
  BY <1>1, <1>2, <1>3

LEMMA TwoOnGpu ==
  ASSUME HotSwapTypeOK, TwoModels, NEW old \in Models, NEW new \in Models, old # new,
         state[new] = "IDLE", state[old] \in Releasable
  PROVE  /\ SumKvOnGpu = Profile[old].kv /\ SumAllOnGpu = Total(Profile[old])
         /\ Holds(state[old], old) = Total(Profile[old]) /\ Holds(state[new], new) = 0
<1>1. OnGpu = {old}
  BY DEF OnGpu, IsOnGpu, TwoModels, Releasable
<1>. DEFINE kvs == [m \in {old} |-> Profile[m].kv]
            alls == [m \in {old} |-> Total(Profile[m])]
<1>2. /\ kvs[old] = Profile[old].kv /\ alls[old] = Total(Profile[old])
      /\ kvs[old] \in Int /\ alls[old] \in Int
  BY HoldsTyped
<1>. HIDE DEF kvs, alls
<1>3. SumOver(kvs, {old}) = Profile[old].kv /\ SumOver(alls, {old}) = Total(Profile[old])
  BY <1>2, SumSingle
<1>4. SumKvOnGpu = SumOver(kvs, {old}) /\ SumAllOnGpu = SumOver(alls, {old})
  BY <1>1 DEF SumKvOnGpu, SumAllOnGpu, kvs, alls
<1>5. Holds(state[old], old) = Total(Profile[old]) /\ Holds(state[new], new) = 0
  BY DEF Holds, IsOnGpu, Releasable
<1>. QED
  BY <1>3, <1>4, <1>5

(***************************************************************************)
(* The memory of one swap between two models.  A reading never understates *)
(* what is in use, as models only leave the GPU after it; and a drain is   *)
(* waited for only where there is room for the new model beside what the   *)
(* strategy leaves of the old one.                                         *)
(***************************************************************************)
Kept(strategy, m) == IF strategy = "SLEEP_OLD" THEN Profile[m].weight ELSE 0

Room ==
  /\ Used <= TotalMemory
  /\ \A s \in Swaps : swap[s].pc = "read" => Used <= swap[s].used
  /\ \A s \in Swaps : swap[s].pc = "releasing" =>
       foreign + Kept(swap[s].strategy, swap[s].old) + Total(Profile[swap[s].new]) <= TotalMemory

MemoryInv == HotSwapTypeOK /\ NewWaits /\ Room

\* A swap that goes on to nothing it has to remember, on a GPU that is not full.
LEMMA RoomAtEnd ==
  ASSUME HotSwapTypeOK, OneSwap, NEW s \in Swaps, NEW to, Put(s, to),
         to.pc \notin {"read", "releasing"}, (Used <= TotalMemory)'
  PROVE  Room'
BY PutElsewhere DEF Room

LEMMA PcsOf ==
  /\ Failed.pc \notin {"read", "releasing"} /\ Idle.pc \notin {"read", "releasing"}
  /\ \A zero, cut \in BOOLEAN : Done(zero, cut).pc \notin {"read", "releasing"}
  /\ \A s : Retiring(s).pc \notin {"read", "releasing"}
BY DEF Failed, Idle, Done, Retiring

LEMMA LoadsRoom ==
  ASSUME OneSwap, TwoModels, MemoryInv, NEW s \in Swaps, foreign' = foreign,
         Pending(s), swap[s].old \in Models, swap[s].new \in Models,
         NEW st \in [Models -> ModelState], NEW cut \in BOOLEAN,
         st[swap[s].new] = "IDLE",
         foreign + Holds(st[swap[s].old], swap[s].old) + Total(Profile[swap[s].new])
           <= TotalMemory,
         Loads(s, st, cut)
  PROVE  Room'
<1>. DEFINE old == swap[s].old
            new == swap[s].new
<1>1. old # new /\ old \in Models /\ new \in Models
  BY DEF MemoryInv, NewWaits
<1>2. Used' = foreign' + Holds(state'[old], old) + Holds(state'[new], new)
  BY <1>1, TwoUsed DEF MemoryInv
<1>3. state'[new] = "ACTIVE" /\ state'[old] \in {st[old], "SLEEPING", "DRAINING"}
      /\ (state'[old] = st[old] \/ st[old] = "ACTIVE")
  BY <1>1 DEF Loads, Loadable
<1>4. Holds(state'[new], new) = Total(Profile[new])
  BY <1>3 DEF Holds, IsOnGpu
<1>5. Holds(state'[old], old) <= Holds(st[old], old)
  <2>1. CASE state'[old] = st[old]
    BY <1>1, <2>1, HoldsTyped
  <2>2. CASE st[old] = "ACTIVE"
    <3>1. Holds(st[old], old) = Total(Profile[old])
      BY <2>2 DEF Holds, IsOnGpu
    <3>. QED
      BY <1>1, <3>1, HoldsTyped
  <2>. QED
    BY <1>3, <2>1, <2>2
<1>6. /\ foreign \in Nat /\ Holds(state'[old], old) \in Nat /\ Holds(st[old], old) \in Nat
      /\ Total(Profile[new]) \in Nat
  BY <1>1, HotSwapAssumption, HoldsTyped DEF MemoryInv, HotSwapTypeOK
<1>7. (Used <= TotalMemory)'
  <2>1. foreign + Holds(st[old], old) + Total(Profile[new]) <= TotalMemory
    OBVIOUS
  <2>2. foreign + Holds(state'[old], old) + Total(Profile[new]) <= TotalMemory
    <3>. HIDE DEF old, new
    <3>. QED
      BY <1>5, <1>6, <2>1, HotSwapAssumption
  <2>. QED
    BY <1>2, <1>4, <2>2
<1>8. \E to : Put(s, to) /\ to.pc \notin {"read", "releasing"}
  BY PcsOf DEF Loads
<1>. QED
  BY <1>7, <1>8, RoomAtEnd DEF MemoryInv

LEMMA ReleasesRoom ==
  ASSUME OneSwap, TwoModels, MemoryInv, NEW s \in Swaps, foreign' = foreign,
         Pending(s), swap[s].old \in Models, swap[s].new \in Models,
         NEW strategy \in Releasing, NEW from \in ModelState, NEW cut \in BOOLEAN,
         from \in Releasable \/ from = state[swap[s].old],
         foreign + Kept(strategy, swap[s].old) + Total(Profile[swap[s].new]) <= TotalMemory,
         Releases(s, strategy, from, cut)
  PROVE  Room'
<1>. DEFINE old == swap[s].old
            new == swap[s].new
<1>1. old # new /\ state[new] = "IDLE" /\ old \in Models /\ new \in Models
  BY DEF MemoryInv, NewWaits
<1>2. state \in [Models -> ModelState]
  BY DEF MemoryInv, HotSwapTypeOK
<1>3. CASE from \notin Releasable
  <2>1. state' = state /\ Put(s, Failed)
    BY <1>2, <1>3 DEF Releases
  <2>2. Used' = Used
    BY <2>1 DEF Used, CurrentMemory
  <2>3. (Used <= TotalMemory)'
    BY <2>2 DEF MemoryInv, Room
  <2>. QED
    BY <2>1, <2>3, PcsOf, RoomAtEnd DEF MemoryInv
<1>4. CASE from \in Releasable
  <2>. DEFINE st == [state EXCEPT ![old] = Rest(strategy)]
  <2>1. st[new] = "IDLE"
    BY <1>1, <1>2
  <2>2. Put(s, Done(TRUE, cut)) /\ state' = [st EXCEPT ![new] = "ACTIVE"]
    BY <1>4, <2>1 DEF Releases, Loadable
  <2>3. state'[new] = "ACTIVE" /\ state'[old] = Rest(strategy)
    BY <1>1, <1>2, <2>2
  <2>4. Used' = foreign' + Holds(state'[old], old) + Holds(state'[new], new)
    BY <1>1, TwoUsed DEF MemoryInv
  <2>5. Holds(state'[new], new) = Total(Profile[new])
    BY <2>3 DEF Holds, IsOnGpu
  <2>6. Holds(state'[old], old) = Kept(strategy, old)
    BY <2>3 DEF Holds, IsOnGpu, Kept, Rest, Releasing
  <2>7. (Used <= TotalMemory)'
    BY <2>4, <2>5, <2>6
  <2>. QED
    BY <2>2, <2>7, PcsOf, RoomAtEnd DEF MemoryInv
<1>. QED
  BY <1>3, <1>4
\* can_load's answer, carried out on the old model, leaves room for the new one.
LEMMA StrategyRoom ==
  ASSUME TwoModels, MemoryInv, NEW s \in Swaps, swap[s].pc = "read",
         swap[s].old \in Models, swap[s].new \in Models
  PROVE  /\ Strategy(s) = "DIRECT" => Used + Total(Profile[swap[s].new]) <= TotalMemory
         /\ Strategy(s) \in Releasing /\ state[swap[s].old] \in Releasable =>
              foreign + Kept(Strategy(s), swap[s].old) + Total(Profile[swap[s].new])
                <= TotalMemory
<1>. DEFINE old == swap[s].old
            new == swap[s].new
            free == FreeMemory(Reading(s))
            required == Required(s)
<1>1. old # new /\ state[new] = "IDLE" /\ old \in Models /\ new \in Models
  BY DEF MemoryInv, NewWaits, Pending
<1>2. /\ free \in Nat /\ required \in Nat
      /\ free = 0 \/ free = TotalMemory - swap[s].used
      /\ free >= required <=> Strategy(s) = "DIRECT"
      /\ Strategy(s) = "SLEEP_OLD" => free + SumKvOnGpu >= required
      /\ Strategy(s) = "UNLOAD_OLD" => free + SumAllOnGpu >= required
  BY StrategyMeans DEF MemoryInv
<1>3. Used <= swap[s].used /\ Used <= TotalMemory /\ Used \in Nat /\ swap[s].used \in Nat
      /\ TotalMemory \in Nat /\ foreign \in Nat
  BY SwapFields, UsedTyped, HotSwapAssumption DEF MemoryInv, Room, HotSwapTypeOK
<1>4. required = Total(Profile[new])
  BY DEF Required
<1>. HIDE DEF free, required
<1>5. Strategy(s) = "DIRECT" => Used + Total(Profile[new]) <= TotalMemory
  BY <1>2, <1>3, <1>4
<1>6. ASSUME Strategy(s) \in Releasing, state[old] \in Releasable
      PROVE  foreign + Kept(Strategy(s), old) + Total(Profile[new]) <= TotalMemory
  <2>1. /\ SumKvOnGpu = Profile[old].kv /\ SumAllOnGpu = Total(Profile[old])
        /\ Holds(state[old], old) = Total(Profile[old]) /\ Holds(state[new], new) = 0
    BY <1>1, <1>6, TwoOnGpu DEF MemoryInv
  <2>2. SumOver(Amount(state), Models) = Total(Profile[old]) + 0
    BY <1>1, <2>1, TwoAmounts
  <2>3. Total(Profile[old]) \in Nat /\ Profile[old].kv \in Nat /\ Profile[old].weight \in Nat
        /\ Total(Profile[old]) = Profile[old].weight + Profile[old].kv
    BY <1>1, HoldsTyped DEF Total
  <2>4. Used = foreign + Total(Profile[old])
    BY <1>3, <2>2, <2>3, UsedIs
  <2>5. CASE Strategy(s) = "SLEEP_OLD"
    <3>1. foreign + Profile[old].weight + required <= TotalMemory
      <4>. HIDE DEF old, new
      <4>. QED
        BY <1>2, <1>3, <2>1, <2>3, <2>4, <2>5
    <3>. QED
      BY <1>4, <2>5, <3>1 DEF Kept
  <2>6. CASE Strategy(s) = "UNLOAD_OLD"
    <3>1. foreign + 0 + required <= TotalMemory
      <4>. HIDE DEF old, new
      <4>. QED
        BY <1>2, <1>3, <2>1, <2>3, <2>4, <2>6
    <3>. QED
      BY <1>4, <2>6, <3>1 DEF Kept
  <2>. QED
    BY <1>6, <2>5, <2>6 DEF Releasing
<1>. QED
  BY <1>5, <1>6

LEMMA RoomStep ==
  ASSUME OneSwap, NoLoads, TwoModels, MemoryInv, [Next]_vars
  PROVE  Room'
<1>0. HotSwapTypeOK /\ Used <= TotalMemory
  BY DEF MemoryInv, Room
<1>1. ASSUME NEW s \in Swaps, NEW old \in Models, NEW new \in Models, Begin(s, old, new)
      PROVE  Room'
  <2>1. Put(s, [pc |-> "reading", old |-> old, new |-> new])
    BY <1>1 DEF Begin, Put
  <2>2. Used' = Used
    BY <1>1 DEF Begin, Used, CurrentMemory
  <2>3. [pc |-> "reading", old |-> old, new |-> new].pc \notin {"read", "releasing"}
    OBVIOUS
  <2>. QED
    BY <1>0, <2>1, <2>2, <2>3, RoomAtEnd
<1>2. ASSUME NEW s \in Swaps, ReadGpu(s)
      PROVE  Room'
  <2>1. \A t \in Swaps : swap'[t] = [pc |-> "read", old |-> swap[s].old,
                                     new |-> swap[s].new, used |-> Used]
    BY <1>0, <1>2, PutElsewhere DEF ReadGpu, Put
  <2>2. Used' = Used /\ Used \in Nat
    BY <1>0, <1>2, UsedTyped DEF ReadGpu, Used, CurrentMemory, HotSwapTypeOK
  <2>. QED
    BY <1>0, <2>1, <2>2 DEF Room
<1>3. ASSUME NEW s \in Swaps, Decide(s)
      PROVE  Room'
  <2>. DEFINE old == swap[s].old
              new == swap[s].new
  <2>1. /\ swap[s].pc = "read" /\ old \in Models /\ new \in Models
        /\ Decides(s) /\ pending' = pending /\ foreign' = foreign
    BY <1>0, <1>3, DecideDecides
  <2>2. old # new /\ state[new] = "IDLE" /\ Pending(s) /\ state \in [Models -> ModelState]
        /\ "DRAINING" \in ModelState /\ "DRAINING" \in Releasable
    BY <2>1 DEF MemoryInv, NewWaits, Pending, HotSwapTypeOK, ModelState, Releasable
  <2>3. CASE state' = state /\ Put(s, Failed)
    <3>1. Used' = Used
      BY <2>1, <2>3 DEF Used, CurrentMemory
    <3>. QED
      BY <1>0, <2>3, <3>1, PcsOf, RoomAtEnd
  <2>4. CASE Strategy(s) = "DIRECT" /\ Loads(s, state, FALSE)
    <3>1. Used + Total(Profile[new]) <= TotalMemory
      BY <2>1, <2>4, StrategyRoom
    <3>2. Used = foreign + Holds(state[old], old)
      <4>1. Holds(state[new], new) = 0
        BY <2>2 DEF Holds, IsOnGpu
      <4>2. foreign \in Nat /\ Holds(state[old], old) \in Nat
        BY <1>0, <2>1, HotSwapAssumption, HoldsTyped DEF HotSwapTypeOK
      <4>3. Used = foreign + Holds(state[old], old) + Holds(state[new], new)
        BY <1>0, <2>1, <2>2, TwoUsed
      <4>. QED
        BY <4>1, <4>2, <4>3
    <3>3. foreign + Holds(state[old], old) + Total(Profile[new]) <= TotalMemory
      BY <3>1, <3>2
    <3>. QED
      BY <2>1, <2>2, <2>4, <3>3, LoadsRoom
  <2>5. CASE /\ Strategy(s) \in Releasing /\ state[old] \in Releasable
             /\ Releases(s, Strategy(s), "DRAINING", FALSE)
    <3>1. foreign + Kept(Strategy(s), old) + Total(Profile[new]) <= TotalMemory
      BY <2>1, <2>5, StrategyRoom
    <3>. QED
      BY <2>1, <2>2, <2>5, <3>1, ReleasesRoom
  <2>6. CASE /\ Strategy(s) \in Releasing /\ state[old] \in Releasable
             /\ state' = [state EXCEPT ![old] = "DRAINING"]
             /\ Put(s, [pc |-> "releasing", old |-> old, new |-> new,
                        strategy |-> Strategy(s)])
    <3>1. foreign + Kept(Strategy(s), old) + Total(Profile[new]) <= TotalMemory
      BY <2>1, <2>6, StrategyRoom
    <3>2. \A t \in Swaps : swap'[t] = [pc |-> "releasing", old |-> old, new |-> new,
                                       strategy |-> Strategy(s)]
      BY <1>0, <2>6, PutElsewhere
    <3>3. \A m \in Models : Holds(state'[m], m) <= Holds(state[m], m)
      <4>1. \A m \in Models : Holds(state'[m], m) = Holds(state[m], m)
        BY <2>2, <2>6 DEF Holds, IsOnGpu, Releasable
      <4>. QED
        BY <4>1, HoldsTyped
    <3>4. Used' <= Used /\ Used \in Nat /\ Used' \in Nat
      BY <1>0, <2>1, <3>3, UsedShrinks
    <3>5. (Used <= TotalMemory)'
      BY <1>0, <3>4, HotSwapAssumption
    <3>. QED
      BY <2>1, <3>1, <3>2, <3>5 DEF Room
  <2>. QED
    BY <2>1, <2>3, <2>4, <2>5, <2>6 DEF Decides
<1>4. ASSUME NEW s \in Swaps, Drained(s) \/ TimeOut(s)
      PROVE  Room'
  <2>. DEFINE old == swap[s].old
              new == swap[s].new
  <2>1. PICK cut \in BOOLEAN :
           /\ swap[s].pc \in {"releasing", "retiring"}
           /\ old \in Models /\ new \in Models
           /\ swap[s].pc = "releasing" => swap[s].strategy \in Releasing
           /\ Resumes(s, cut)
           /\ foreign' = foreign
    BY <1>0, <1>4, DrainEnds
  <2>2. CASE swap[s].pc = "releasing" /\ Releases(s, swap[s].strategy, state[old], cut)
    <3>1. foreign + Kept(swap[s].strategy, old) + Total(Profile[new]) <= TotalMemory
      BY <2>2 DEF MemoryInv, Room
    <3>2. Pending(s) /\ state[old] \in ModelState
      BY <1>0, <2>1, <2>2 DEF Pending, HotSwapTypeOK
    <3>. QED
      BY <2>1, <2>2, <3>1, <3>2, ReleasesRoom
  <2>3. CASE /\ state[old] \in Releasable
             /\ state' = [state EXCEPT ![old] = "SLEEPING"] /\ Put(s, Done(~cut, cut))
    <3>1. \A m \in Models : Holds(state'[m], m) <= Holds(state[m], m)
      <4>1. ASSUME NEW m \in Models, m # old
            PROVE  Holds(state'[m], m) <= Holds(state[m], m)
        <5>1. state'[m] = state[m]
          BY <1>0, <2>3, <4>1 DEF HotSwapTypeOK
        <5>. QED
          BY <5>1, HoldsTyped
      <4>2. Holds(state'[old], old) <= Holds(state[old], old)
        <5>1. Holds(state[old], old) = Total(Profile[old])
          BY <2>3 DEF Holds, IsOnGpu, Releasable
        <5>. QED
          BY <2>1, <5>1, HoldsTyped
      <4>. QED
        BY <4>1, <4>2
    <3>2. (Used <= TotalMemory)'
      BY <1>0, <2>1, <3>1, UsedShrinks, HotSwapAssumption
    <3>. QED
      BY <1>0, <2>3, <3>2, PcsOf, RoomAtEnd
  <2>4. CASE state' = state /\ Put(s, Failed)
    <3>1. Used' = Used
      BY <2>1, <2>4 DEF Used, CurrentMemory
    <3>. QED
      BY <1>0, <2>4, <3>1, PcsOf, RoomAtEnd
  <2>. QED
    BY <2>1, <2>2, <2>3, <2>4 DEF Resumes
<1>5. ASSUME NEW s \in Swaps, Return(s)
      PROVE  Room'
  <2>1. Put(s, Idle) /\ Used' = Used
    BY <1>5 DEF Return, Put, Used, CurrentMemory
  <2>. QED
    BY <1>0, <2>1, PcsOf, RoomAtEnd
<1>6. ASSUME NEW m \in Models, Operate(m)
      PROVE  Room'
  <2>1. /\ UNCHANGED <<swap, foreign>>
        /\ \/ state' = [state EXCEPT ![m] = IF @ \in Releasable THEN "SLEEPING" ELSE @]
           \/ state' = [state EXCEPT ![m] = IF @ = "ACTIVE" THEN "IDLE" ELSE @]
    BY <1>0, <1>6, Operates DEF NoLoads
  <2>2. \A n \in Models : Holds(state'[n], n) <= Holds(state[n], n)
    <3>. SUFFICES ASSUME NEW n \in Models
                  PROVE  Holds(state'[n], n) <= Holds(state[n], n)
      OBVIOUS
    <3>1. state'[n] = state[n] \/ state[n] \in Releasable
      BY <1>0, <2>1 DEF HotSwapTypeOK, Releasable
    <3>2. CASE state'[n] = state[n]
      BY <3>2, HoldsTyped
    <3>3. CASE state[n] \in Releasable
      <4>1. Holds(state[n], n) = Total(Profile[n])
        BY <3>3 DEF Holds, IsOnGpu, Releasable
      <4>. QED
        BY <4>1, HoldsTyped
    <3>. QED
      BY <3>1, <3>2, <3>3
  <2>3. Used' <= Used /\ Used \in Nat /\ Used' \in Nat
    BY <1>0, <2>1, <2>2, UsedShrinks
  <2>4. \A s \in Swaps : swap[s].pc = "read" => swap[s].used \in Nat
    BY <1>0, SwapFields DEF HotSwapTypeOK
  <2>. QED
    BY <2>1, <2>3, <2>4, HotSwapAssumption DEF Room, MemoryInv
<1>7. ASSUME NEW s \in Swaps, ReadFails(s)
      PROVE  Room'
  <2>1. Put(s, Failed) /\ Failed.pc \notin {"read", "releasing"}
    BY <1>7 DEF ReadFails, Put, Failed
  <2>2. Used' = Used
    BY <1>7 DEF ReadFails, Used, CurrentMemory
  <2>. QED
    BY <1>0, <2>1, <2>2, RoomAtEnd
<1>8. CASE state' = state /\ swap' = swap /\ foreign' = foreign
  BY <1>8 DEF Room, MemoryInv, Used, CurrentMemory
<1>. QED
  BY <1>1, <1>2, <1>3, <1>4, <1>5, <1>6, <1>7, <1>8 DEF Next, Progress, Admit, Finish, vars

\* Two models, one swap at a time and operators that only stop models: whatever the
\* sizes, the requests and the moment at which the reading was taken, no load runs
\* out of memory.
THEOREM SwapOfTwoFits ==
  ASSUME OneSwap, NoLoads, TwoModels
  PROVE  Spec => []NeverOutOfMemory
<1>1. Init => MemoryInv
  <2>. SUFFICES ASSUME Init PROVE MemoryInv
    OBVIOUS
  <2>1. \A s \in Swaps : swap[s].pc = "idle"
    BY DEF Init, Idle
  <2>2. NewWaits /\ Room
    BY <2>1 DEF Init, NewWaits, Pending, Room
  <2>. QED
    BY <2>2, TypeInit DEF MemoryInv
<1>2. MemoryInv /\ [Next]_vars => MemoryInv'
  BY TypeStep, NewWaitsStep, RoomStep DEF MemoryInv
<1>3. MemoryInv => NeverOutOfMemory
  BY DEF MemoryInv, Room, NeverOutOfMemory
<1>. QED
  BY <1>1, <1>2, <1>3, PTL DEF Spec
-----------------------------------------------------------------------------
(***************************************************************************)
(* What one swap reports on a GPU that holds all models at once: its       *)
(* reading leaves room for the new model, so it never releases the old one *)
(* first and only the drain of a retiring model can give up on requests.   *)
(***************************************************************************)
Whole == [m \in Models |-> Total(Profile[m])]
Fits == foreign + SumOver(Whole, Models) <= TotalMemory

Calm(x) ==
  /\ x.pc = "read" => x.used + Total(Profile[x.new]) <= TotalMemory
  /\ x.pc # "releasing"
  /\ x.pc = "done" /\ x.zero_downtime => ~x.cut

CalmInv == HotSwapTypeOK /\ NewWaits /\ (Fits => \A s \in Swaps : Calm(swap[s]))

\* A model that is off the GPU leaves room for itself.
LEMMA RoomForIdle ==
  ASSUME foreign \in Foreign, Fits, NEW new \in Models, state[new] = "IDLE"
  PROVE  Used \in Nat /\ Used + Total(Profile[new]) <= TotalMemory
<1>. DEFINE f == Amount(state)
            g == Whole
            R == Models \ {new}
<1>1. /\ \A m \in Models : f[m] \in Int /\ g[m] \in Int /\ f[m] <= g[m]
      /\ g[new] = Total(Profile[new]) /\ f[new] = 0
  BY HoldsTyped DEF Amount, Whole, Holds, IsOnGpu
<1>2. IsFiniteSet(Models) /\ IsFiniteSet(R)
  BY HotSwapAssumption, FS_Subset
<1>3. Used = foreign + SumOver(f, Models) /\ foreign \in Nat /\ Used \in Nat
  BY UsedIs, UsedTyped
<1>4. foreign + SumOver(g, Models) <= TotalMemory /\ TotalMemory \in Nat
  BY HotSwapAssumption DEF Fits
<1>. HIDE DEF f, g
<1>5. (\A m \in Models : f[m] \in Int) /\ (\A m \in Models : g[m] \in Int)
  BY <1>1
<1>6. /\ SumOver(f, Models) = f[new] + SumOver(f, R)
      /\ SumOver(g, Models) = g[new] + SumOver(g, R)
  <2>1. SumOver(f, Models) = f[new] + SumOver(f, Models \ {new})
    BY <1>2, <1>5, SumRemove
  <2>2. SumOver(g, Models) = g[new] + SumOver(g, Models \ {new})
    BY <1>2, <1>5, SumRemove
  <2>. QED
    BY <2>1, <2>2
<1>7. SumOver(f, R) <= SumOver(g, R)
  <2>1. \A m \in R : f[m] \in Int /\ g[m] \in Int /\ f[m] <= g[m]
    BY <1>1
  <2>. HIDE DEF R
  <2>. QED
    BY <1>2, <2>1, SumMonotonic
<1>8. SumOver(f, R) \in Int /\ SumOver(g, R) \in Int
  <2>1. (\A m \in R : f[m] \in Int) /\ (\A m \in R : g[m] \in Int)
    BY <1>1
  <2>. HIDE DEF R
  <2>. QED
    BY <1>2, <2>1, SumInt
<1>9. f[new] = 0 /\ g[new] = Total(Profile[new]) /\ g[new] \in Int
  BY <1>1
<1>. HIDE DEF R
<1>10. \A used, c, a, b, t, x, y, z \in Int :
         used = c + a /\ c + b <= t /\ a = 0 + x /\ b = z + y /\ x <= y => used + z <= t
  OBVIOUS
<1>. QED
  BY <1>3, <1>4, <1>6, <1>7, <1>8, <1>9

LEMMA CalmPut ==
  ASSUME HotSwapTypeOK, OneSwap, foreign' = foreign, NEW s \in Swaps, NEW to, Put(s, to),
         Fits => Calm(to)
  PROVE  (Fits => \A t \in Swaps : Calm(swap[t]))'
<1>1. \A t \in Swaps : swap'[t] = to
  BY PutElsewhere
<1>2. Fits' <=> Fits
  BY DEF Fits
<1>. QED
  BY <1>1, <1>2 DEF Calm

LEMMA CalmOf ==
  /\ Calm(Failed) /\ Calm(Idle)
  /\ Calm(Done(TRUE, FALSE)) /\ \A cut \in BOOLEAN : Calm(Done(~cut, cut))
  /\ \A s : Calm(Retiring(s))
  /\ \A old, new : Calm([pc |-> "reading", old |-> old, new |-> new])
BY DEF Calm, Failed, Idle, Done, Retiring

LEMMA CalmStep ==
  ASSUME OneSwap, NoLoads, CalmInv, [Next]_vars
  PROVE  (Fits => \A s \in Swaps : Calm(swap[s]))'
<1>. DEFINE Goal == (Fits => \A s \in Swaps : Calm(swap[s]))'
<1>0. HotSwapTypeOK /\ NewWaits
  BY DEF CalmInv
<1>1. ASSUME NEW s \in Swaps, NEW old \in Models, NEW new \in Models, Begin(s, old, new)
      PROVE  Goal
  <2>1. Put(s, [pc |-> "reading", old |-> old, new |-> new]) /\ foreign' = foreign
    BY <1>1 DEF Begin, Put
  <2>2. Calm([pc |-> "reading", old |-> old, new |-> new])
    BY CalmOf
  <2>. QED
    BY <1>0, <2>1, <2>2, CalmPut
<1>2. ASSUME NEW s \in Swaps, ReadGpu(s)
      PROVE  Goal
  <2>. DEFINE to == [pc |-> "read", old |-> swap[s].old, new |-> swap[s].new, used |-> Used]
  <2>1. Put(s, to) /\ foreign' = foreign /\ swap[s].pc = "reading"
    BY <1>2 DEF ReadGpu, Put
  <2>2. swap[s].new \in Models /\ state[swap[s].new] = "IDLE" /\ foreign \in Foreign
    BY <1>0, <2>1, SwapFields DEF NewWaits, Pending, HotSwapTypeOK
  <2>3. Fits => Calm(to)
    BY <2>2, RoomForIdle DEF Calm
  <2>. HIDE DEF to
  <2>. QED
    BY <1>0, <2>1, <2>3, CalmPut
<1>3. ASSUME NEW s \in Swaps, Decide(s)
      PROVE  Goal
  <2>1. /\ swap[s].pc = "read" /\ swap[s].new \in Models /\ Decides(s) /\ foreign' = foreign
    BY <1>0, <1>3, DecideDecides
  <2>2. Fits' <=> Fits
    BY <2>1 DEF Fits
  <2>3. ASSUME Fits PROVE Strategy(s) = "DIRECT"
    <3>1. swap[s].used + Total(Profile[swap[s].new]) <= TotalMemory
      BY <2>1, <2>3 DEF CalmInv, Calm
    <3>. DEFINE free == FreeMemory(Reading(s))
    <3>2. /\ free \in Nat /\ free >= TotalMemory - swap[s].used
          /\ free >= Required(s) <=> Strategy(s) = "DIRECT"
      BY <1>0, <2>1, StrategyMeans
    <3>3. Required(s) \in Nat /\ Required(s) = Total(Profile[swap[s].new])
      BY <2>1, HoldsTyped DEF Required
    <3>4. swap[s].used \in Nat
      BY <1>0, <2>1, SwapFields DEF HotSwapTypeOK
    <3>. HIDE DEF free
    <3>. QED
      BY <3>1, <3>2, <3>3, <3>4, HotSwapAssumption
  <2>4. CASE Put(s, Failed)
    BY <1>0, <2>1, <2>4, CalmOf, CalmPut
  <2>5. CASE Loads(s, state, FALSE)
    <3>1. \E to : Put(s, to) /\ Calm(to)
      BY <2>5, CalmOf DEF Loads
    <3>. QED
      BY <1>0, <2>1, <3>1, CalmPut
  <2>6. CASE Strategy(s) # "DIRECT"
    BY <2>2, <2>3, <2>6
  <2>. QED
    BY <2>1, <2>4, <2>5, <2>6 DEF Decides, Releasing
<1>4. ASSUME NEW s \in Swaps, Drained(s) \/ TimeOut(s)
      PROVE  Goal
  <2>1. PICK cut \in BOOLEAN : /\ swap[s].pc \in {"releasing", "retiring"}
                               /\ Resumes(s, cut) /\ foreign' = foreign
    BY <1>0, <1>4, DrainEnds
  <2>2. Fits' <=> Fits
    BY <2>1 DEF Fits
  <2>3. CASE swap[s].pc = "releasing"
    <3>1. ~Fits
      BY <2>3 DEF CalmInv, Calm
    <3>. QED
      BY <2>2, <3>1
  <2>4. CASE swap[s].pc = "retiring"
    <3>1. \E to : Put(s, to) /\ Calm(to)
      BY <2>1, <2>4, CalmOf DEF Resumes
    <3>. QED
      BY <1>0, <2>1, <3>1, CalmPut
  <2>. QED
    BY <2>1, <2>3, <2>4
<1>5. ASSUME NEW s \in Swaps, Return(s)
      PROVE  Goal
  <2>1. Put(s, Idle) /\ foreign' = foreign
    BY <1>5 DEF Return, Put
  <2>. QED
    BY <1>0, <2>1, CalmOf, CalmPut
<1>6. ASSUME NEW s \in Swaps, ReadFails(s)
      PROVE  Goal
  <2>1. Put(s, Failed) /\ foreign' = foreign
    BY <1>6 DEF ReadFails, Put
  <2>. QED
    BY <1>0, <2>1, CalmOf, CalmPut
<1>7. CASE swap' = swap /\ foreign' = foreign
  <2>1. Fits' <=> Fits
    BY <1>7 DEF Fits
  <2>. QED
    BY <1>7, <2>1 DEF CalmInv, Calm
<1>. QED
  BY <1>1, <1>2, <1>3, <1>4, <1>5, <1>6, <1>7
     DEF Next, Progress, Admit, Finish, Operate, vars

\* One swap at a time, operators that only stop models and any number of models: where
\* all of them fit, a swap that returns zero_downtime = True has given up on no request.
THEOREM DirectIsZeroDowntime ==
  ASSUME OneSwap, NoLoads
  PROVE  Spec => []DirectZeroDowntimeIsTrue
<1>1. Init => CalmInv
  <2>. SUFFICES ASSUME Init PROVE CalmInv
    OBVIOUS
  <2>1. \A s \in Swaps : swap[s] = Idle /\ swap[s].pc = "idle"
    BY DEF Init, Idle
  <2>2. NewWaits /\ \A s \in Swaps : Calm(swap[s])
    BY <2>1, CalmOf DEF NewWaits, Pending
  <2>. QED
    BY <2>2, TypeInit DEF CalmInv
<1>2. CalmInv /\ [Next]_vars => CalmInv'
  BY TypeStep, NewWaitsStep, CalmStep DEF CalmInv
<1>3. CalmInv => DirectZeroDowntimeIsTrue
  BY DEF CalmInv, Calm, Fits, Whole, DirectZeroDowntimeIsTrue
<1>. QED
  BY <1>1, <1>2, <1>3, PTL DEF Spec
-----------------------------------------------------------------------------
(***************************************************************************)
(* Service on a GPU that holds one model: any number of swaps and models,  *)
(* and operators that load models but stop none.  A model that is neither  *)
(* serving nor draining has been released by a swap that fails only if its *)
(* new model holds the GPU, or that loads it; a draining one is waited for *)
(* by a swap in the gap.                                                   *)
(***************************************************************************)
OnlyLoads == \A m \in Models : Calls[m] \subseteq {"load"}
OneFits ==
  \A f \in Foreign : \A m, n \in Models :
    f + Total(Profile[m]) + Total(Profile[n]) > TotalMemory
\* No model is in the middle of a transition, or in error, when the service starts.
StartsInService ==
  \A st \in Initially : /\ \A m \in Models : st[m] \in {"IDLE", "ACTIVE", "SLEEPING"}
                        /\ \E m \in Models : st[m] = "ACTIVE"

Settled == \A m \in Models : state[m] \in Loadable \cup Releasable
Held == \E m \in Models : state[m] \in Releasable
DrainedFor == \A m \in Models : state[m] = "DRAINING" =>
                \E s \in Swaps : swap[s].pc = "releasing" /\ swap[s].old = m

\* A swap that waits replaces another model, and has read a GPU that one model fills.
Full(x) ==
  /\ x.pc # "retiring"
  /\ x.pc \in {"reading", "read", "releasing"} => x.old # x.new
  /\ x.pc = "read" => \E m \in Models : foreign + Total(Profile[m]) <= x.used

GapInv ==
  /\ HotSwapTypeOK /\ foreign <= TotalMemory
  /\ Settled /\ Held /\ DrainedFor
  /\ \A s \in Swaps : Full(swap[s])

\* can_load never answers DIRECT for a full GPU.
LEMMA NeverDirect ==
  ASSUME OneFits, HotSwapTypeOK, foreign <= TotalMemory,
         NEW s \in Swaps, swap[s].pc = "read", Full(swap[s])
  PROVE  Strategy(s) # "DIRECT"
<1>. DEFINE new == swap[s].new
            free == FreeMemory(Reading(s))
<1>1. PICK m \in Models : foreign + Total(Profile[m]) <= swap[s].used
  BY DEF Full
<1>2. new \in Models /\ swap[s].used \in Nat
  BY SwapFields DEF HotSwapTypeOK
<1>3. /\ free \in Nat /\ (free = 0 \/ free = TotalMemory - swap[s].used)
      /\ free >= Required(s) <=> Strategy(s) = "DIRECT"
  BY StrategyMeans
<1>4. /\ Required(s) = Total(Profile[new]) /\ Total(Profile[new]) \in Nat
      /\ Total(Profile[m]) \in Nat /\ foreign \in Nat /\ TotalMemory \in Nat
  BY <1>2, HoldsTyped, HotSwapAssumption DEF Required, HotSwapTypeOK
<1>5. /\ foreign + Total(Profile[m]) + Total(Profile[new]) > TotalMemory
      /\ foreign + Total(Profile[new]) + Total(Profile[new]) > TotalMemory
  BY <1>2 DEF OneFits, HotSwapTypeOK
<1>. HIDE DEF new, free
<1>6. \A f, t, u, r, x, y \in Int :
        /\ f + x <= u /\ f + x + y > t /\ f + y + y > t /\ f <= t
        /\ r = 0 \/ r = t - u
        => ~(r >= y)
  OBVIOUS
<1>. QED
  BY <1>1, <1>2, <1>3, <1>4, <1>5, <1>6

\* A model on the GPU is in use there.
LEMMA HeldIsUsed ==
  ASSUME HotSwapTypeOK, NEW m \in Models, state[m] \in Releasable
  PROVE  foreign + Total(Profile[m]) <= Used
<1>. DEFINE f == Amount(state)
<1>1. \A n \in Models : f[n] \in Nat
  BY HoldsTyped DEF Amount
<1>2. f[m] = Total(Profile[m])
  BY DEF Amount, Holds, IsOnGpu, Releasable
<1>3. Used = foreign + SumOver(f, Models) /\ foreign \in Nat
  BY UsedIs, UsedTyped DEF HotSwapTypeOK
<1>. HIDE DEF f
<1>4. {m} \in SUBSET Models /\ f[m] \in Int
  BY <1>1
<1>5. SumOver(f, {m}) <= SumOver(f, Models)
  BY <1>1, <1>4, HotSwapAssumption, SumSubset
<1>6. SumOver(f, {m}) = f[m]
  BY <1>4, SumSingle
<1>7. SumOver(f, Models) \in Nat
  BY <1>1, HotSwapAssumption, SumNat
<1>. QED
  BY <1>2, <1>3, <1>4, <1>5, <1>6, <1>7

(***************************************************************************)
(* What a step of HotSwap is on such a GPU.                                *)
(***************************************************************************)
Begins(s) ==
  \E old, new \in Models :
    /\ swap[s].pc = "idle" /\ state[old] = "ACTIVE" /\ state[new] = "IDLE" /\ state' = state
    /\ Put(s, [pc |-> "reading", old |-> old, new |-> new])
Reads(s) ==
  /\ swap[s].pc = "reading" /\ state' = state
  /\ Put(s, [pc |-> "read", old |-> swap[s].old, new |-> swap[s].new, used |-> Used])
Waits(s) ==
  /\ swap[s].pc = "read" /\ state[swap[s].old] \in Releasable
  /\ state' = [state EXCEPT ![swap[s].old] = "DRAINING"]
  /\ \E strategy \in Releasing :
       Put(s, [pc |-> "releasing", old |-> swap[s].old, new |-> swap[s].new,
               strategy |-> strategy])
GivesUp(s) ==
  /\ swap[s].pc \in {"reading", "read", "releasing"}
  /\ \/ /\ state' = state
        /\ swap[s].pc # "releasing" \/ state[swap[s].old] \notin Releasable
     \/ /\ state[swap[s].new] \in Releasable
        /\ \E rest \in Loadable : state' = [state EXCEPT ![swap[s].old] = rest]
  /\ Put(s, Failed)
Replaces(s) ==
  /\ swap[s].pc \in {"read", "releasing"} /\ state[swap[s].new] \in Loadable
  /\ \E rest \in Loadable :
       state' = [state EXCEPT ![swap[s].old] = rest, ![swap[s].new] = "ACTIVE"]
  /\ \E cut \in BOOLEAN : Put(s, Done(TRUE, cut))
Returns(s) == swap[s].pc \in {"done", "failed"} /\ state' = state /\ Put(s, Idle)
Wakes ==
  /\ \E m \in Models : state' = [state EXCEPT ![m] = IF @ \in Loadable THEN "ACTIVE" ELSE @]
  /\ swap' = swap
Rests == state' = state /\ swap' = swap

Moves ==
  /\ foreign' = foreign
  /\ \/ \E s \in Swaps : \/ Begins(s) \/ Reads(s) \/ Waits(s)
                         \/ GivesUp(s) \/ Replaces(s) \/ Returns(s)
     \/ Wakes \/ Rests

LEMMA ReleasesMoves ==
  ASSUME GapInv, NEW s \in Swaps, swap[s].pc \in {"read", "releasing"},
         swap[s].old \in Models, swap[s].new \in Models,
         NEW strategy \in Releasing, NEW from, NEW cut \in BOOLEAN,
         from = state[swap[s].old] \/ (from \in Releasable /\ state[swap[s].old] \in Releasable),
         Releases(s, strategy, from, cut)
  PROVE  GivesUp(s) \/ Replaces(s)
<1>. DEFINE old == swap[s].old
            new == swap[s].new
            st == [state EXCEPT ![old] = Rest(strategy)]
<1>1. state \in [Models -> ModelState] /\ old # new /\ state[new] \in Loadable \cup Releasable
  BY DEF GapInv, HotSwapTypeOK, Full, Settled
<1>2. st[new] = state[new] /\ Rest(strategy) \in Loadable
  BY <1>1 DEF Rest, Loadable
<1>3. CASE from \notin Releasable
  <2>1. state' = state
    BY <1>1, <1>3 DEF Releases
  <2>. QED
    BY <1>3, <2>1 DEF Releases, GivesUp
<1>4. CASE from \in Releasable /\ st[new] \notin Loadable
  <2>1. state' = st /\ Put(s, Failed)
    BY <1>4 DEF Releases
  <2>. QED
    BY <1>1, <1>2, <1>4, <2>1 DEF GivesUp
<1>5. CASE from \in Releasable /\ st[new] \in Loadable
  <2>1. state' = [st EXCEPT ![new] = "ACTIVE"] /\ Put(s, Done(TRUE, cut))
    BY <1>5 DEF Releases
  <2>. QED
    BY <1>2, <1>5, <2>1 DEF Replaces
<1>. QED
  BY <1>3, <1>4, <1>5

LEMMA NextMoves ==
  ASSUME OnlyLoads, OneFits, GapInv, [Next]_vars
  PROVE  Moves
<1>0. HotSwapTypeOK /\ foreign <= TotalMemory
  BY DEF GapInv
<1>1. ASSUME NEW s \in Swaps, NEW old \in Models, NEW new \in Models, Begin(s, old, new)
      PROVE  Moves
  <2>1. swap[s].pc = "idle"
    BY <1>1 DEF Begin, Idle
  <2>2. Begins(s) /\ foreign' = foreign
    BY <1>1, <2>1 DEF Begin, Begins, Put
  <2>. QED
    BY <2>2 DEF Moves
<1>2. ASSUME NEW s \in Swaps, ReadGpu(s)
      PROVE  Moves
  BY <1>2 DEF ReadGpu, Reads, Put, Moves
<1>3. ASSUME NEW s \in Swaps, Decide(s)
      PROVE  Moves
  <2>1. /\ swap[s].pc = "read" /\ swap[s].old \in Models /\ swap[s].new \in Models
        /\ Decides(s) /\ foreign' = foreign
    BY <1>0, <1>3, DecideDecides
  <2>2. Strategy(s) # "DIRECT"
    BY <1>0, <2>1, NeverDirect DEF GapInv
  <2>3. CASE state' = state /\ Put(s, Failed)
    BY <2>1, <2>3 DEF GivesUp, Moves
  <2>4. CASE /\ Strategy(s) \in Releasing /\ state[swap[s].old] \in Releasable
             /\ Releases(s, Strategy(s), "DRAINING", FALSE)
    <3>1. "DRAINING" \in Releasable /\ FALSE \in BOOLEAN
      BY DEF Releasable
    <3>2. GivesUp(s) \/ Replaces(s)
      BY <2>1, <2>4, <3>1, ReleasesMoves
    <3>. QED
      BY <2>1, <3>2 DEF Moves
  <2>5. CASE /\ Strategy(s) \in Releasing /\ state[swap[s].old] \in Releasable
             /\ state' = [state EXCEPT ![swap[s].old] = "DRAINING"]
             /\ Put(s, [pc |-> "releasing", old |-> swap[s].old, new |-> swap[s].new,
                        strategy |-> Strategy(s)])
    <3>1. Waits(s)
      BY <2>1, <2>5 DEF Waits
    <3>. QED
      BY <2>1, <3>1 DEF Moves
  <2>. QED
    BY <2>1, <2>2, <2>3, <2>4, <2>5 DEF Decides
<1>4. ASSUME NEW s \in Swaps, Drained(s) \/ TimeOut(s)
      PROVE  Moves
  <2>1. PICK cut \in BOOLEAN :
           /\ swap[s].pc \in {"releasing", "retiring"}
           /\ swap[s].old \in Models /\ swap[s].new \in Models
           /\ swap[s].pc = "releasing" => swap[s].strategy \in Releasing
           /\ Resumes(s, cut) /\ foreign' = foreign
    BY <1>0, <1>4, DrainEnds
  <2>2. /\ swap[s].pc = "releasing" /\ swap[s].strategy \in Releasing
        /\ Releases(s, swap[s].strategy, state[swap[s].old], cut)
    BY <2>1 DEF GapInv, Full, Resumes
  <2>3. GivesUp(s) \/ Replaces(s)
    <3>. DEFINE from == state[swap[s].old]
    <3>1. from = state[swap[s].old] /\ Releases(s, swap[s].strategy, from, cut)
      BY <2>2
    <3>. HIDE DEF from
    <3>. QED
      BY <2>1, <2>2, <3>1, ReleasesMoves
  <2>. QED
    BY <2>1, <2>3 DEF Moves
<1>5. ASSUME NEW s \in Swaps, Return(s)
      PROVE  Moves
  BY <1>5 DEF Return, Returns, Put, Moves
<1>6. ASSUME NEW m \in Models, Operate(m)
      PROVE  Moves
  <2>1. "sleep" \notin Calls[m] /\ "unload" \notin Calls[m]
    BY DEF OnlyLoads
  <2>2. Wakes /\ foreign' = foreign
    BY <1>0, <1>6, <2>1, Operates DEF Wakes
  <2>. QED
    BY <2>2 DEF Moves
<1>7. ASSUME NEW s \in Swaps, ReadFails(s)
      PROVE  Moves
  BY <1>7 DEF ReadFails, GivesUp, Put, Moves
<1>8. CASE state' = state /\ swap' = swap /\ foreign' = foreign
  BY <1>8 DEF Rests, Moves
<1>. QED
  BY <1>1, <1>2, <1>3, <1>4, <1>5, <1>6, <1>7, <1>8 DEF Next, Progress, Admit, Finish, vars

\* A swap's own step leaves the others where they are.
LEMMA Others ==
  ASSUME HotSwapTypeOK, NEW s \in Swaps, NEW to, Put(s, to)
  PROVE  swap'[s] = to /\ \A t \in Swaps : t # s => swap'[t] = swap[t]
BY DEF Put, HotSwapTypeOK

LEMMA FullPut ==
  ASSUME GapInv, foreign' = foreign, NEW s \in Swaps, NEW to, Put(s, to), Full(to)
  PROVE  (\A t \in Swaps : Full(swap[t]))'
<1>1. swap'[s] = to /\ \A t \in Swaps : t # s => swap'[t] = swap[t]
  BY Others DEF GapInv
<1>. QED
  BY <1>1 DEF GapInv, Full

LEMMA FullOf ==
  /\ Full(Failed) /\ Full(Idle)
  /\ \A zero, cut \in BOOLEAN : Full(Done(zero, cut))
BY DEF Full, Failed, Idle, Done

LEMMA GapStep ==
  ASSUME OnlyLoads, OneFits, GapInv, [Next]_vars
  PROVE  GapInv'
<1>0. HotSwapTypeOK /\ HotSwapTypeOK' /\ Moves
  BY TypeStep, NextMoves DEF GapInv
<1>1. foreign' = foreign /\ (foreign <= TotalMemory)'
  BY <1>0 DEF GapInv, Moves
<1>. DEFINE Rest4 == /\ Settled' /\ Held' /\ DrainedFor'
                     /\ (\A s \in Swaps : Full(swap[s]))'
<1>2. ASSUME NEW s \in Swaps, NEW to, Put(s, to), Full(to), state' = state,
             swap[s].pc # "releasing"
      PROVE  Rest4
  <2>1. DrainedFor'
    BY <1>0, <1>2, Others DEF GapInv, DrainedFor
  <2>. QED
    BY <1>1, <1>2, <2>1, FullPut DEF GapInv, Settled, Held
<1>3. ASSUME NEW s \in Swaps, Begins(s)
      PROVE  Rest4
  <2>1. PICK old \in Models, new \in Models :
          /\ swap[s].pc = "idle" /\ state[old] = "ACTIVE" /\ state[new] = "IDLE"
          /\ state' = state
          /\ Put(s, [pc |-> "reading", old |-> old, new |-> new])
    BY <1>3 DEF Begins
  <2>2. Full([pc |-> "reading", old |-> old, new |-> new])
    BY <2>1 DEF Full
  <2>. QED
    BY <1>2, <2>1, <2>2
<1>4. ASSUME NEW s \in Swaps, Reads(s)
      PROVE  Rest4
  <2>1. PICK m \in Models : state[m] \in Releasable
    BY DEF GapInv, Held
  <2>2. foreign + Total(Profile[m]) <= Used
    BY <1>0, <2>1, HeldIsUsed
  <2>3. Full([pc |-> "read", old |-> swap[s].old, new |-> swap[s].new, used |-> Used])
    BY <1>4, <2>2 DEF Full, Reads, GapInv
  <2>. QED
    BY <1>2, <1>4, <2>3 DEF Reads
<1>5. ASSUME NEW s \in Swaps, Waits(s)
      PROVE  Rest4
  <2>1. PICK strategy \in Releasing :
          Put(s, [pc |-> "releasing", old |-> swap[s].old, new |-> swap[s].new,
                  strategy |-> strategy])
    BY <1>5 DEF Waits
  <2>2. Full([pc |-> "releasing", old |-> swap[s].old, new |-> swap[s].new,
              strategy |-> strategy])
    BY <1>5 DEF Waits, Full, GapInv
  <2>3. swap[s].old \in Models
    BY <1>0, <1>5, SwapFields DEF Waits, HotSwapTypeOK
  <2>4. Settled' /\ Held'
    BY <1>0, <1>5, <2>3 DEF Waits, GapInv, Settled, Held, Releasable, HotSwapTypeOK
  <2>5. DrainedFor'
    BY <1>0, <1>5, <2>1, <2>3, Others DEF Waits, GapInv, DrainedFor, HotSwapTypeOK
  <2>. QED
    BY <1>1, <2>1, <2>2, <2>4, <2>5, FullPut
<1>6. ASSUME NEW s \in Swaps, GivesUp(s)
      PROVE  Rest4
  <2>. DEFINE old == swap[s].old
              new == swap[s].new
  <2>1. /\ old \in Models /\ new \in Models /\ old # new
        /\ state \in [Models -> ModelState] /\ "IDLE" \in ModelState /\ "SLEEPING" \in ModelState
    BY <1>0, <1>6, SwapFields DEF GivesUp, HotSwapTypeOK, ModelState, GapInv, Full
  <2>2. Put(s, Failed) /\ Full(Failed)
    BY <1>6, FullOf DEF GivesUp
  <2>3. CASE state' = state /\ swap[s].pc # "releasing"
    BY <1>2, <2>2, <2>3
  <2>4. CASE state' = state /\ state[old] \notin Releasable
    <3>1. DrainedFor'
      BY <1>0, <2>2, <2>4, Others DEF GapInv, DrainedFor, Releasable
    <3>. QED
      BY <1>1, <2>2, <2>4, <3>1, FullPut DEF GapInv, Settled, Held
  <2>5. ASSUME state[new] \in Releasable, NEW rest \in Loadable,
               state' = [state EXCEPT ![old] = rest]
        PROVE  Rest4
    <3>1. /\ state'[old] = rest /\ rest # "DRAINING"
          /\ \A m \in Models : m # old => state'[m] = state[m]
      BY <2>1, <2>5 DEF Loadable
    <3>2. Settled' /\ Held'
      BY <2>1, <2>5, <3>1 DEF GapInv, Settled, Held
    <3>3. DrainedFor'
      BY <1>0, <2>2, <3>1, Others DEF GapInv, DrainedFor
    <3>. QED
      BY <1>1, <2>2, <3>2, <3>3, FullPut
  <2>. QED
    BY <1>6, <2>3, <2>4, <2>5 DEF GivesUp
<1>7. ASSUME NEW s \in Swaps, Replaces(s)
      PROVE  Rest4
  <2>. DEFINE old == swap[s].old
              new == swap[s].new
  <2>1. PICK rest \in Loadable, cut \in BOOLEAN :
          /\ state' = [state EXCEPT ![old] = rest, ![new] = "ACTIVE"]
          /\ Put(s, Done(TRUE, cut))
    BY <1>7 DEF Replaces
  <2>2. /\ old \in Models /\ new \in Models /\ old # new
        /\ state \in [Models -> ModelState] /\ Full(Done(TRUE, cut))
    BY <1>0, <1>7, SwapFields, FullOf DEF Replaces, HotSwapTypeOK, GapInv, Full
  <2>3. /\ state'[old] = rest /\ rest # "DRAINING" /\ state'[new] = "ACTIVE"
        /\ \A m \in Models : m # old /\ m # new => state'[m] = state[m]
    BY <2>1, <2>2 DEF Loadable
  <2>4. Settled' /\ Held'
    BY <2>2, <2>3 DEF GapInv, Settled, Held, Releasable
  <2>5. DrainedFor'
    <3>1. \A m \in Models : state'[m] = "DRAINING" => m # old /\ state[m] = "DRAINING"
      BY <2>3
    <3>2. swap'[s] = Done(TRUE, cut) /\ \A t \in Swaps : t # s => swap'[t] = swap[t]
      BY <1>0, <2>1, Others
    <3>. QED
      BY <3>1, <3>2 DEF GapInv, DrainedFor
  <2>. QED
    BY <1>1, <2>1, <2>2, <2>4, <2>5, FullPut
<1>8. ASSUME NEW s \in Swaps, Returns(s)
      PROVE  Rest4
  BY <1>2, <1>8, FullOf DEF Returns
<1>9. ASSUME Wakes
      PROVE  Rest4
  <2>1. PICK m \in Models : state' = [state EXCEPT ![m] = IF @ \in Loadable THEN "ACTIVE" ELSE @]
    BY <1>9 DEF Wakes
  <2>2. \A n \in Models : state'[n] = state[n] \/ state'[n] = "ACTIVE"
    BY <1>0, <2>1 DEF HotSwapTypeOK
  <2>3. Settled' /\ Held'
    BY <2>2 DEF GapInv, Settled, Held, Releasable
  <2>4. DrainedFor'
    BY <1>9, <2>2 DEF Wakes, GapInv, DrainedFor
  <2>. QED
    BY <1>1, <1>9, <2>3, <2>4 DEF Wakes, GapInv, Full
<1>10. ASSUME Rests
       PROVE  Rest4
  BY <1>1, <1>10 DEF Rests, GapInv, Settled, Held, DrainedFor, Full
<1>11. Rest4
  BY <1>0, <1>3, <1>4, <1>5, <1>6, <1>7, <1>8, <1>9, <1>10 DEF Moves
<1>. QED
  BY <1>0, <1>1, <1>11 DEF GapInv

LEMMA GapInit == ASSUME StartsInService PROVE Init => GapInv
<1>. SUFFICES ASSUME Init PROVE GapInv
  OBVIOUS
<1>1. HotSwapTypeOK /\ Used <= TotalMemory
  BY TypeInit DEF Init
<1>2. foreign <= TotalMemory
  BY <1>1, UsedIs, UsedTyped, HotSwapAssumption DEF HotSwapTypeOK
<1>3. Settled /\ Held /\ DrainedFor
  BY DEF Init, StartsInService, Settled, Held, DrainedFor, Loadable, Releasable
<1>4. \A s \in Swaps : Full(swap[s])
  BY FullOf DEF Init
<1>. QED
  BY <1>1, <1>2, <1>3, <1>4 DEF GapInv

LEMMA AlwaysGapInv == ASSUME OnlyLoads, OneFits, StartsInService PROVE Spec => []GapInv
<1>1. GapInv /\ [Next]_vars => GapInv'
  BY GapStep
<1>. QED
  BY <1>1, GapInit, PTL DEF Spec

LEMMA InGap == ASSUME GapInv PROVE GapIsASwap
<1>1. PICK m \in Models : state[m] \in Releasable
  BY DEF GapInv, Held
<1>. QED
  BY <1>1 DEF GapInv, DrainedFor, GapIsASwap, Serving, CanServe, Releasable

\* Where the GPU holds one model, nothing serves only while a swap is between
\* releasing its old model and loading its new one.
THEOREM GapIsBetween ==
  ASSUME OnlyLoads, OneFits, StartsInService
  PROVE  Spec => []GapIsASwap
<1>1. GapInv => GapIsASwap
  BY InGap
<1>. QED
  BY <1>1, AlwaysGapInv, PTL
-----------------------------------------------------------------------------
(***************************************************************************)
(* The refinement of Service, step by step.  A swap's first two phases are *)
(* one of Service's, and what it reads and reports is not told apart.      *)
(***************************************************************************)
Phased == [s \in Swaps |-> Phase(swap[s].pc)]

LEMMA PhaseIs ==
  /\ Phase("reading") = "deciding" /\ Phase("read") = "deciding" /\ Phase("releasing") = "gap"
  /\ Phase("idle") = "idle" /\ Phase("done") = "done" /\ Phase("failed") = "failed"
BY DEF Phase

LEMMA PhasePut ==
  ASSUME HotSwapTypeOK, NEW s \in Swaps, NEW to, Put(s, to)
  PROVE  Phased' = [Phased EXCEPT ![s] = Phase(to.pc)]
<1>1. swap'[s] = to /\ \A t \in Swaps : t # s => swap'[t] = swap[t]
  BY Others
<1>. QED
  BY <1>1 DEF Phased

\* A step of swap s that Service's Go describes.
LEMMA Goes ==
  ASSUME HotSwapTypeOK, NEW s \in Swaps, NEW to, Put(s, to),
         NEW from, Phase(swap[s].pc) \in from, NEW phase, phase = Phase(to.pc)
  PROVE  ServiceOf!Go(s, from, phase)
<1>1. Phased' = [Phased EXCEPT ![s] = Phase(to.pc)]
  BY PhasePut
<1>2. Phased[s] = Phase(swap[s].pc)
  BY DEF Phased
<1>. QED
  BY <1>1, <1>2 DEF ServiceOf!Go, Phased

LEMMA Staying == state' = state => Serving' = Serving
BY DEF Serving

LEMMA ServiceStep ==
  ASSUME OnlyLoads, OneFits, GapInv, GapInv', [Next]_vars
  PROVE  [ServiceOf!Next]_(ServiceOf!vars)
<1>0. HotSwapTypeOK /\ Moves /\ state \in [Models -> ModelState]
  BY NextMoves DEF GapInv, HotSwapTypeOK
<1>1. ServiceOf!InService'
  <2>1. PICK m \in Models : state'[m] \in Releasable
    BY DEF GapInv, Held
  <2>2. CASE state'[m] = "ACTIVE"
    BY <2>1, <2>2 DEF ServiceOf!InService, Serving, CanServe
  <2>3. CASE state'[m] = "DRAINING"
    <3>1. PICK s \in Swaps : swap'[s].pc = "releasing"
      BY <2>1, <2>3 DEF GapInv, DrainedFor
    <3>2. Phased'[s] = "gap"
      BY <3>1, PhaseIs DEF Phased
    <3>. QED
      BY <3>2 DEF ServiceOf!InService, Phased
  <2>. QED
    BY <2>1, <2>2, <2>3 DEF Releasable
<1>2. ASSUME NEW s \in Swaps, Begins(s)
      PROVE  ServiceOf!Call(s)
  <2>1. PICK old \in Models, new \in Models :
          /\ swap[s].pc = "idle" /\ state' = state
          /\ Put(s, [pc |-> "reading", old |-> old, new |-> new])
    BY <1>2 DEF Begins
  <2>2. ServiceOf!Go(s, {"idle"}, "deciding")
    BY <1>0, <2>1, PhaseIs, Goes
  <2>. QED
    BY <2>1, <2>2, Staying DEF ServiceOf!Call
<1>3. ASSUME NEW s \in Swaps, Reads(s)
      PROVE  UNCHANGED ServiceOf!vars
  <2>. DEFINE to == [pc |-> "read", old |-> swap[s].old, new |-> swap[s].new, used |-> Used]
  <2>1. swap[s].pc = "reading" /\ Put(s, to) /\ state' = state
    BY <1>3 DEF Reads
  <2>2. Phase(to.pc) = Phase(swap[s].pc)
    BY <2>1, PhaseIs
  <2>. HIDE DEF to
  <2>3. Phased' = [Phased EXCEPT ![s] = Phase(to.pc)]
    BY <1>0, <2>1, PhasePut
  <2>4. Phased' = Phased
    BY <2>2, <2>3 DEF Phased
  <2>. QED
    BY <2>1, <2>4, Staying DEF ServiceOf!vars, Phased
<1>4. ASSUME NEW s \in Swaps, Waits(s)
      PROVE  ServiceOf!Release(s)
  <2>1. PICK strategy \in Releasing :
          Put(s, [pc |-> "releasing", old |-> swap[s].old, new |-> swap[s].new,
                  strategy |-> strategy])
    BY <1>4 DEF Waits
  <2>2. ServiceOf!Go(s, {"deciding"}, "gap")
    BY <1>0, <1>4, <2>1, PhaseIs, Goes DEF Waits
  <2>3. \A m \in Models : state'[m] # "ACTIVE" \/ state[m] = "ACTIVE"
    BY <1>0, <1>4 DEF Waits
  <2>4. \A m \in Models : state'[m] = state[m] \/ m = swap[s].old
    BY <1>0, <1>4 DEF Waits
  <2>. QED
    BY <2>2, <2>3, <2>4
       DEF ServiceOf!Release, ServiceOf!Starting, ServiceOf!Stopping, ServiceOf!AtMostOne,
           Serving, CanServe
<1>5. ASSUME NEW s \in Swaps, GivesUp(s)
      PROVE  ServiceOf!Fail(s)
  <2>1. Phase(swap[s].pc) \in {"deciding", "gap", "retiring"} /\ Phase(Failed.pc) = "failed"
    BY <1>5, PhaseIs DEF GivesUp, Failed
  <2>2. ServiceOf!Go(s, {"deciding", "gap", "retiring"}, "failed")
    BY <1>0, <1>5, <2>1, Goes DEF GivesUp
  <2>3. \A m \in Models : state'[m] # "ACTIVE" \/ state[m] = "ACTIVE"
    BY <1>0, <1>5 DEF GivesUp, Loadable
  <2>4. \A m \in Models : state'[m] = state[m] \/ m = swap[s].old
    BY <1>0, <1>5 DEF GivesUp
  <2>. QED
    BY <2>2, <2>3, <2>4
       DEF ServiceOf!Fail, ServiceOf!Starting, ServiceOf!Stopping, ServiceOf!AtMostOne,
           Serving, CanServe
<1>6. ASSUME NEW s \in Swaps, Replaces(s)
      PROVE  ServiceOf!Load(s)
  <2>. DEFINE old == swap[s].old
              new == swap[s].new
  <2>1. PICK cut \in BOOLEAN : Put(s, Done(TRUE, cut))
    BY <1>6 DEF Replaces
  <2>2. /\ Phase(swap[s].pc) \in {"deciding", "gap"}
        /\ Phase(Done(TRUE, cut).pc) = "done"
    BY <1>6, PhaseIs DEF Replaces, Done
  <2>3. ServiceOf!Go(s, {"deciding", "gap"}, "done")
    BY <1>0, <2>1, <2>2, Goes
  <2>4. PICK rest \in Loadable : state' = [state EXCEPT ![old] = rest, ![new] = "ACTIVE"]
    BY <1>6 DEF Replaces
  <2>5. /\ new \in Models /\ old \in Models /\ old # new
        /\ state[new] # "ACTIVE" /\ rest # "ACTIVE"
    BY <1>0, <1>6, SwapFields DEF Replaces, Loadable, HotSwapTypeOK, GapInv, Full
  <2>6. /\ state'[new] = "ACTIVE" /\ state'[old] # "ACTIVE"
        /\ \A m \in Models : state'[m] = state[m] \/ m = old \/ m = new
    BY <1>0, <2>4, <2>5
  <2>. QED
    BY <2>3, <2>5, <2>6
       DEF ServiceOf!Load, ServiceOf!Starting, ServiceOf!Stopping, ServiceOf!AtMostOne,
           Serving, CanServe
<1>7. ASSUME NEW s \in Swaps, Returns(s)
      PROVE  ServiceOf!Return(s)
  <2>1. Phase(swap[s].pc) \in {"done", "failed"} /\ Phase(Idle.pc) = "idle"
    BY <1>7, PhaseIs DEF Returns, Idle
  <2>2. ServiceOf!Go(s, {"done", "failed"}, "idle")
    BY <1>0, <1>7, <2>1, Goes DEF Returns
  <2>. QED
    BY <1>7, <2>2, Staying DEF Returns, ServiceOf!Return
<1>8. ASSUME Wakes
      PROVE  ServiceOf!Wake
  <2>1. \A m \in Models : state[m] = "ACTIVE" => state'[m] = "ACTIVE"
    BY <1>0, <1>8 DEF Wakes, Loadable
  <2>2. Phased' = Phased
    BY <1>8 DEF Wakes, Phased
  <2>. QED
    BY <2>1, <2>2 DEF ServiceOf!Wake, ServiceOf!Stopping, Serving, CanServe, Phased
<1>9. ASSUME Rests
      PROVE  UNCHANGED ServiceOf!vars
  BY <1>9, Staying DEF Rests, ServiceOf!vars
<1>. QED
  BY <1>0, <1>1, <1>2, <1>3, <1>4, <1>5, <1>6, <1>7, <1>8, <1>9 DEF Moves, ServiceOf!Next

LEMMA ServiceInit == ASSUME GapInv PROVE Init => ServiceOf!Init
<1>. SUFFICES ASSUME Init PROVE ServiceOf!Init
  OBVIOUS
<1>1. \A s \in Swaps : swap[s] = Idle /\ swap[s].pc = "idle"
  BY DEF Init, Idle
<1>2. Phased = [s \in Swaps |-> "idle"]
  BY <1>1, PhaseIs DEF Phased
<1>3. Serving \in (SUBSET Models) \ {{}}
  <2>1. PICK m \in Models : state[m] \in Releasable
    BY DEF GapInv, Held
  <2>2. state[m] = "ACTIVE"
    BY <1>1, <2>1 DEF GapInv, DrainedFor, Releasable
  <2>. QED
    BY <2>2 DEF Serving, CanServe
<1>. QED
  BY <1>2, <1>3 DEF ServiceOf!Init, Phased

\* There, the initial states and the steps of hot swaps are those of the service that
\* clients are promised: something serves or a gap is open, a swap that succeeds has
\* brought its new model up, and no step stops a model but a release, a load or a
\* failure.
THEOREM SwapsServeSafely ==
  ASSUME OnlyLoads, OneFits, StartsInService
  PROVE  Spec => ServiceOf!Safety
<1>1. Init => ServiceOf!Init
  BY GapInit, ServiceInit
<1>2. GapInv /\ GapInv' /\ [Next]_vars => [ServiceOf!Next]_(ServiceOf!vars)
  BY ServiceStep
<1>. QED
  BY <1>1, <1>2, AlwaysGapInv, PTL DEF Spec, ServiceOf!Safety
=============================================================================
