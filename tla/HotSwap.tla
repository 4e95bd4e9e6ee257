------------------------------ MODULE HotSwap ------------------------------
(***************************************************************************)
(* hot_swap of scheduler/engine.py on one GPU: read the GPU, decide with   *)
(* can_load, release the old model first if memory is short, load the new  *)
(* model, and retire the old one if it still serves.  Several swaps may    *)
(* run on one event loop, requests come and go, and the management API     *)
(* moves models meanwhile.                                                 *)
(*                                                                         *)
(* hot_swap suspends in two places, while the GPU is read and between two  *)
(* polls of a drain; a step here is what runs between two of those.  The   *)
(* GPU holds what Model.current_memory_gb accounts for, and the CUDA       *)
(* context.                                                                *)
(***************************************************************************)
EXTENDS ModelStates, GpuMemory

CONSTANTS
  Models,          \* the registered models of this GPU
  Profile,         \* their memory profiles
  TotalMemory,     \* the GPU's memory
  Foreign,         \* what the CUDA context and other processes may hold of it
  Initially,       \* the states the models may start in
  Swaps,           \* tasks that call hot_swap
  Calls,           \* what the management API may ask of each model meanwhile
  MaxPending       \* bound: requests in flight per model

ASSUME HotSwapAssumption ==
  /\ IsFiniteSet(Models)
  /\ \A m \in Models : Profile[m] \in [weight : Nat, kv : Nat]
  /\ TotalMemory \in Nat /\ Foreign \subseteq Nat
  /\ Initially \subseteq [Models -> ModelState]
  /\ MaxPending \in Nat

VARIABLES
  state,           \* Model.state
  pending,         \* Model.pending_requests
  swap,            \* where each swap is
  foreign          \* memory held by the context and others, fixed

vars == <<state, pending, swap, foreign>>

Idle == [pc |-> "idle"]
Failed == [pc |-> "failed"]

\* cut: a drain of this swap has given up on requests.
SwapState ==
  {Idle, Failed}
  \cup [pc : {"reading"}, old : Models, new : Models]
  \cup [pc : {"read"}, old : Models, new : Models, used : Nat]
  \cup [pc : {"releasing"}, old : Models, new : Models,
        strategy : {"SLEEP_OLD", "UNLOAD_OLD"}]
  \cup [pc : {"retiring"}, old : Models, new : Models]
  \cup [pc : {"done"}, zero_downtime : BOOLEAN, cut : BOOLEAN]

HotSwapTypeOK ==
  /\ state \in [Models -> ModelState]
  /\ pending \in [Models -> 0..MaxPending]
  /\ swap \in [Swaps -> SwapState]
  /\ foreign \in Foreign

\* Model.current_memory_gb.
CurrentMemory(m) ==
  IF state[m] = "SLEEPING" THEN Profile[m].weight
  ELSE IF IsOnGpu(state[m]) THEN Total(Profile[m])
  ELSE 0

Used == foreign + SumOver([m \in Models |-> CurrentMemory(m)], Models)
OnGpu == {m \in Models : IsOnGpu(state[m])}
Serving == {m \in Models : CanServe(state[m])}
-----------------------------------------------------------------------------
Init ==
  /\ state \in Initially
  /\ pending = [m \in Models |-> 0]
  /\ swap = [s \in Swaps |-> Idle]
  /\ foreign \in Foreign
  /\ Used <= TotalMemory

\* hot_swap is called; it raises HotSwapError at once for any other states.
Begin(s, old, new) ==
  /\ swap[s] = Idle
  /\ state[new] = "IDLE"
  /\ state[old] = "ACTIVE"
  /\ swap' = [swap EXCEPT ![s] = [pc |-> "reading", old |-> old, new |-> new]]
  /\ UNCHANGED <<state, pending, foreign>>

\* rocm-smi runs: the reading is of this moment, the task resumes later.
ReadGpu(s) ==
  /\ swap[s].pc = "reading"
  /\ swap' = [swap EXCEPT ![s] =
       [pc |-> "read", old |-> swap[s].old, new |-> swap[s].new, used |-> Used]]
  /\ UNCHANGED <<state, pending, foreign>>

\* The tool is missing, fails or prints what cannot be parsed: snapshot raises, which
\* hot_swap passes on to its caller before it has changed anything.
ReadFails(s) ==
  /\ swap[s].pc = "reading"
  /\ swap' = [swap EXCEPT ![s] = Failed]
  /\ UNCHANGED <<state, pending, foreign>>
-----------------------------------------------------------------------------
(***************************************************************************)
(* What a step of swap s ends in: the models' states st and the swap's own *)
(* state.                                                                  *)
(***************************************************************************)
End(s, st, to) == state' = st /\ swap' = [swap EXCEPT ![s] = to]

Complete(s, st, zero, cut) ==
  End(s, st, [pc |-> "done", zero_downtime |-> zero, cut |-> cut])

\* Step 3, and step 4 up to its first suspension: load new; if old still serves,
\* drain it and put it to sleep.  A new model that cannot be loaded raises
\* IllegalTransitionError, which hot_swap's handler of VLLMError does not catch.
LoadNew(s, st, cut) ==
  LET old == swap[s].old
      new == swap[s].new
      load == LoadPath(st[new])
      loaded == [st EXCEPT ![new] = load.state]
  IN \/ ~load.legal /\ End(s, loaded, Failed)
     \/ load.legal /\ st[old] # "ACTIVE" /\ Complete(s, loaded, TRUE, cut)
     \/ /\ load.legal /\ st[old] = "ACTIVE" /\ pending[old] = 0
        /\ Complete(s, [loaded EXCEPT ![old] = "SLEEPING"], TRUE, cut)
     \/ /\ load.legal /\ st[old] = "ACTIVE" /\ pending[old] > 0
        /\ End(s, [loaded EXCEPT ![old] = "DRAINING"],
               [pc |-> "retiring", old |-> old, new |-> new])

\* Mutant: the old model is put to sleep whatever can_load has counted on.
Mut_AlwaysSleep(strategy, from) == SleepPath(from)

\* Where the drained model is taken: asleep, or off the GPU.
ReleasePath(strategy, from) ==
  IF strategy = "UNLOAD_OLD"
    THEN Then(Then(SleepPath(from), "UNLOADING"), "IDLE")
    ELSE SleepPath(from)

\* Step 2 once old is drained, and on to step 3.
Release(s, strategy, from, cut) ==
  LET release == ReleasePath(strategy, from)
      released == [state EXCEPT ![swap[s].old] = release.state]
  IN \/ ~release.legal /\ End(s, released, Failed)
     \/ release.legal /\ LoadNew(s, released, cut)

\* What can_load says now.  The reading of the GPU is old; the list of models that
\* are on it, and whose memory could be released, is not.
Strategy(s) ==
  CanLoad([total |-> TotalMemory, used |-> swap[s].used],
          Total(Profile[swap[s].new]),
          SumOver([m \in OnGpu |-> Profile[m].kv], OnGpu),
          SumOver([m \in OnGpu |-> Total(Profile[m])], OnGpu)).strategy

\* Step 1, and steps 2 to 4 up to the first suspension.
Decide(s) ==
  /\ swap[s].pc = "read"
  /\ \E strategy \in {Strategy(s)}, old \in {swap[s].old} :
       \/ strategy = "INSUFFICIENT" /\ End(s, state, Failed)
       \/ strategy = "DIRECT" /\ LoadNew(s, state, FALSE)
       \/ /\ strategy \in {"SLEEP_OLD", "UNLOAD_OLD"}
          /\ \/ state[old] \notin {"ACTIVE", "DRAINING"} /\ End(s, state, Failed)
             \/ /\ state[old] \in {"ACTIVE", "DRAINING"} /\ pending[old] = 0
                /\ Release(s, strategy, "DRAINING", FALSE)
             \/ /\ state[old] \in {"ACTIVE", "DRAINING"} /\ pending[old] > 0
                /\ End(s, [state EXCEPT ![old] = "DRAINING"],
                       [pc |-> "releasing", old |-> old, new |-> swap[s].new,
                        strategy |-> strategy])
  /\ UNCHANGED <<pending, foreign>>

\* Mutant: a drain by force is reported like a natural one.
Mut_AlwaysZero(cut) == TRUE

\* zero_downtime, as the drain of an old model that still served ended.
ZeroDowntime(cut) == ~cut

\* The drain of old has ended, one way or the other, and the swap goes on from
\* whatever state old is in by now.
Resume(s, cut) ==
  LET old == swap[s].old
      sleep == SleepPath(state[old])
      slept == [state EXCEPT ![old] = sleep.state]
  IN \/ swap[s].pc = "releasing" /\ Release(s, swap[s].strategy, state[old], cut)
     \/ swap[s].pc = "retiring" /\ sleep.legal /\ Complete(s, slept, ZeroDowntime(cut), cut)
     \/ swap[s].pc = "retiring" /\ ~sleep.legal /\ End(s, slept, Failed)

Polling(s) == swap[s].pc \in {"releasing", "retiring"}

Drained(s) ==
  /\ Polling(s)
  /\ pending[swap[s].old] = 0
  /\ Resume(s, FALSE)
  /\ UNCHANGED <<pending, foreign>>

\* Mutant: a drain waits for its requests for ever.
Mut_NeverPassed(s) == FALSE

DeadlinePassed(s) == Polling(s) /\ pending[swap[s].old] > 0

\* The deadline passes: the requests in flight are given up, not cancelled.
TimeOut(s) ==
  /\ DeadlinePassed(s)
  /\ pending' = [pending EXCEPT ![swap[s].old] = 0]
  /\ Resume(s, TRUE)
  /\ UNCHANGED foreign

Return(s) ==
  /\ swap[s].pc \in {"done", "failed"}
  /\ swap' = [swap EXCEPT ![s] = Idle]
  /\ UNCHANGED <<state, pending, foreign>>

Admit(m) ==
  /\ CanServe(state[m])
  /\ pending[m] < MaxPending
  /\ pending' = [pending EXCEPT ![m] = @ + 1]
  /\ UNCHANGED <<state, swap, foreign>>

\* Mutant: the clamp at zero is missing.
Mut_Unclamped(n) == n - 1

Decremented(n) == IF n = 0 THEN 0 ELSE n - 1

\* A counted request ends, or one that was given up ends late: decrement_pending
\* does not tell them apart.
Finish(m) ==
  /\ pending' = [pending EXCEPT ![m] = Decremented(@)]
  /\ UNCHANGED <<state, swap, foreign>>

\* The management API's transitions of a model.
Operate(m) ==
  /\ \/ "load" \in Calls[m] /\ state' = [state EXCEPT ![m] = LoadPath(@).state]
     \/ "sleep" \in Calls[m] /\ state' = [state EXCEPT ![m] = SleepPath(@).state]
     \/ "unload" \in Calls[m] /\ state' = [state EXCEPT ![m] = UnloadPath(@).state]
  /\ UNCHANGED <<pending, swap, foreign>>

Progress(s) == ReadGpu(s) \/ ReadFails(s) \/ Decide(s) \/ Drained(s) \/ TimeOut(s)

Next ==
  \/ \E s \in Swaps : \/ \E old, new \in Models : Begin(s, old, new)
                      \/ Progress(s) \/ Return(s)
  \/ \E m \in Models : Admit(m) \/ Finish(m) \/ Operate(m)

\* The subprocess ends, whatever it answers, the event loop resumes tasks, and clocks reach deadlines.
Fairness == \A s \in Swaps : WF_vars(Progress(s))

Spec == Init /\ [][Next]_vars /\ Fairness
-----------------------------------------------------------------------------
(***************************************************************************)
(* Properties                                                              *)
(***************************************************************************)

\* What the GPU holds never exceeds its size: no load runs out of memory.
NeverOutOfMemory == Used <= TotalMemory

\* Nothing serves only while a swap is between releasing old and loading new.
GapIsASwap == Serving = {} => \E s \in Swaps : swap[s].pc = "releasing"

\* The gap closes.
GapCloses == (Serving = {}) ~> (Serving # {})

\* Where the GPU holds all models at once, so that every swap is DIRECT whatever the
\* reading and the operators do meanwhile, a swap that returns zero_downtime = True
\* has given up on no request.
DirectZeroDowntimeIsTrue ==
  foreign + SumOver([m \in Models |-> Total(Profile[m])], Models) <= TotalMemory =>
    \A s \in Swaps : swap[s].pc = "done" /\ swap[s].zero_downtime => ~swap[s].cut

\* On a GPU without room for a DIRECT swap, swaps give the service that Service
\* describes.
Phase(pc) ==
  CASE pc \in {"reading", "read"} -> "deciding"
    [] pc = "releasing" -> "gap"
    [] OTHER -> pc
ServiceOf == INSTANCE Service WITH awake <- Serving, phase <- [s \in Swaps |-> Phase(swap[s].pc)]
SwapsServe == ServiceOf!Spec
=============================================================================
