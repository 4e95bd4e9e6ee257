----------------------------- MODULE Lifecycle -----------------------------
(***************************************************************************)
(* Model.transition and the in-flight counter of a Model, and the          *)
(* ModelRegistry that hands models out, when the persistence callback may  *)
(* suspend and may raise.  Every Model has an asyncio.Lock; a task that    *)
(* finds it taken waits.  transition() changes the state in memory and     *)
(* only then awaits the callback, still holding the lock: the lock is what *)
(* keeps the callback's writes in the order of the state changes.          *)
(*                                                                         *)
(* A task is "idle" between calls, "waiting" from having looked the model  *)
(* up until it has the lock, and "saving" inside the awaited callback.     *)
(***************************************************************************)
EXTENDS ModelStates, Integers

CONSTANTS
  Models,      \* Model objects
  Tasks,       \* asyncio tasks that call into them
  NoTask,      \* the owner of a free lock
  MaxPending   \* bound: increment_pending is not called at this count

ASSUME LifecycleAssumption ==
  /\ NoTask \notin Tasks
  /\ MaxPending \in Nat

VARIABLES
  registry,    \* ModelRegistry._models
  state,       \* Model.state
  pending,     \* Model.pending_requests
  lock,        \* the owner of Model._lock
  call,        \* where each task is in its call
  durable,     \* the state the callback has written for a model
  unsaved      \* whether the latest callback of a model raised

vars == <<registry, state, pending, lock, call, durable, unsaved>>

\* What a call asks of a model: a target state, or one of the two counters' steps.
Op == ModelState \cup {"increment", "decrement"}
Idle == [pc |-> "idle"]
Call ==
  {Idle} \cup [pc : {"waiting"}, model : Models, op : Op]
         \cup [pc : {"saving"}, model : Models, op : ModelState]

LifecycleTypeOK ==
  /\ registry \in SUBSET Models
  /\ state \in [Models -> ModelState]
  /\ pending \in [Models -> Nat]
  /\ lock \in [Models -> Tasks \cup {NoTask}]
  /\ call \in [Tasks -> Call]
  /\ durable \in [Models -> ModelState]
  /\ unsaved \in [Models -> BOOLEAN]

Waiting(t) == call[t].pc = "waiting"
Saving(t) == call[t].pc = "saving"
-----------------------------------------------------------------------------
Init ==
  /\ registry = {}
  /\ state = [m \in Models |-> "IDLE"]
  /\ pending = [m \in Models |-> 0]
  /\ lock = [m \in Models |-> NoTask]
  /\ call = [t \in Tasks |-> Idle]
  /\ durable = [m \in Models |-> "IDLE"]
  /\ unsaved = [m \in Models |-> FALSE]

Register(m) ==
  /\ m \notin registry
  /\ registry' = registry \cup {m}
  /\ UNCHANGED <<state, pending, lock, call, durable, unsaved>>

\* Only a model in a terminal state leaves the registry; tasks may still hold it.
Unregister(m) ==
  /\ m \in registry
  /\ IsTerminal(state[m])
  /\ registry' = registry \ {m}
  /\ UNCHANGED <<state, pending, lock, call, durable, unsaved>>

\* A task looks the model up and calls one of its coroutines.
Begin(t, m, op) ==
  /\ call[t] = Idle
  /\ m \in registry
  /\ op = "increment" => pending[m] < MaxPending
  /\ call' = [call EXCEPT ![t] = [pc |-> "waiting", model |-> m, op |-> op]]
  /\ UNCHANGED <<registry, state, pending, lock, durable, unsaved>>

\* Mutant: the critical section is entered without the lock.
Mut_Unlocked(m) == TRUE

LockFree(m) == lock[m] = NoTask

\* Mutant: the counter is decremented below zero.
Mut_Decremented(n) == n - 1

Decremented(n) == IF n = 0 THEN 0 ELSE n - 1

\* increment_pending and decrement_pending hold the lock for one step only.
Count(t) ==
  LET m == call[t].model
  IN /\ Waiting(t)
     /\ LockFree(m)
     /\ \/ call[t].op = "increment" /\ pending' = [pending EXCEPT ![m] = @ + 1]
        \/ call[t].op = "decrement" /\ pending' = [pending EXCEPT ![m] = Decremented(@)]
     /\ call' = [call EXCEPT ![t] = Idle]
     /\ UNCHANGED <<registry, state, lock, durable, unsaved>>

\* The legal half of transition(): memory first, then the callback, lock held.
Transit(t) ==
  LET m == call[t].model  to == call[t].op
  IN /\ Waiting(t)
     /\ LockFree(m)
     /\ to \in ModelState
     /\ IsValidTransition(state[m], to)
     /\ state' = [state EXCEPT ![m] = to]
     /\ lock' = [lock EXCEPT ![m] = t]
     /\ call' = [call EXCEPT ![t].pc = "saving"]
     /\ UNCHANGED <<registry, pending, durable, unsaved>>

\* IllegalTransitionError: the lock is taken and given back, nothing else changes.
Refuse(t) ==
  LET m == call[t].model  to == call[t].op
  IN /\ Waiting(t)
     /\ LockFree(m)
     /\ to \in ModelState
     /\ ~IsValidTransition(state[m], to)
     /\ call' = [call EXCEPT ![t] = Idle]
     /\ UNCHANGED <<registry, state, pending, lock, durable, unsaved>>

\* A task cancelled while it waits for the lock.
GiveUp(t) ==
  /\ Waiting(t)
  /\ call' = [call EXCEPT ![t] = Idle]
  /\ UNCHANGED <<registry, state, pending, lock, durable, unsaved>>

Saved(t) ==
  LET m == call[t].model
  IN /\ Saving(t)
     /\ durable' = [durable EXCEPT ![m] = call[t].op]
     /\ unsaved' = [unsaved EXCEPT ![m] = FALSE]
     /\ lock' = [lock EXCEPT ![m] = NoTask]
     /\ call' = [call EXCEPT ![t] = Idle]
     /\ UNCHANGED <<registry, state, pending>>

\* Mutant: an exception leaves the lock taken, as acquire()/release() without
\* a finally would.
Mut_KeepLock(m) == lock' = lock

Release(m) == lock' = [lock EXCEPT ![m] = NoTask]

\* The callback raises, or the task is cancelled inside it: `async with` gives
\* the lock back, and the state in memory stays changed.
SaveFailed(t) ==
  LET m == call[t].model
  IN /\ Saving(t)
     /\ unsaved' = [unsaved EXCEPT ![m] = TRUE]
     /\ Release(m)
     /\ call' = [call EXCEPT ![t] = Idle]
     /\ UNCHANGED <<registry, state, pending, durable>>

Enter(t) == Count(t) \/ Transit(t) \/ Refuse(t)
Save(t) == Saved(t) \/ SaveFailed(t)

Next ==
  \/ \E m \in Models : Register(m) \/ Unregister(m)
  \/ \E t \in Tasks : \/ \E m \in Models, op \in Op : Begin(t, m, op)
                      \/ Enter(t) \/ GiveUp(t) \/ Save(t)

(***************************************************************************)
(* asyncio.Lock wakes its waiters in FIFO order, so a waiter whose lock is *)
(* freed again and again gets it: strong fairness of Enter stands for that *)
(* queue.  Weak fairness of Save says that callbacks return or raise.      *)
(***************************************************************************)
Fairness == \A t \in Tasks : SF_vars(Enter(t)) /\ WF_vars(Save(t))

Spec == Init /\ [][Next]_vars /\ Fairness
-----------------------------------------------------------------------------
(***************************************************************************)
(* Properties                                                              *)
(***************************************************************************)

\* The database agrees with memory whenever no save of the model is under way,
\* unless the latest save raised: two tasks cannot reorder their writes.
DurableMirrorsState ==
  \A m \in Models :
    (\A t \in Tasks : ~(Saving(t) /\ call[t].model = m))
      => durable[m] = state[m] \/ unsaved[m]

\* While a callback runs, the state it is about to write is still the state in
\* memory and the database is one legal transition behind, or an earlier save
\* of the model was lost.
SaveIsCurrent ==
  \A t \in Tasks : Saving(t) =>
    LET m == call[t].model
    IN /\ state[m] = call[t].op
       /\ IsValidTransition(durable[m], state[m]) \/ unsaved[m]

\* The history an observer of the database sees is a walk of the transition
\* table, except for the step that follows a lost save.
DurableHistoryIsLegal ==
  [][\A m \in Models : durable'[m] # durable[m]
        => IsValidTransition(durable[m], durable'[m]) \/ unsaved[m]]_vars

\* Every call returns or raises, also those behind a slow or failing callback.
CallsReturn == \A t \in Tasks : (call[t].pc # "idle") ~> (call[t].pc = "idle")
=============================================================================
