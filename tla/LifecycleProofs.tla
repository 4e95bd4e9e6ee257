-------------------------- MODULE LifecycleProofs --------------------------
(***************************************************************************)
(* Lifecycle's safety properties for every set of models and tasks.        *)
(*                                                                         *)
(* The properties speak of tasks and of the database and not of the lock,  *)
(* and are not inductive by themselves: two tasks saving one model would   *)
(* satisfy them until the second write.  LockInv adds what the lock is     *)
(* for: its owner is exactly the task inside that model's callback.        *)
(***************************************************************************)
EXTENDS Lifecycle, TLAPS

\* The task inside a model's callback is the owner of that model's lock.
LockInv ==
  \A t \in Tasks, m \in Models : lock[m] = t <=> Saving(t) /\ call[t].model = m

\* A free lock means the database was brought up to date or the save was lost.
FreeInv ==
  \A m \in Models : lock[m] = NoTask => durable[m] = state[m] \/ unsaved[m]

IInv == LifecycleTypeOK /\ LockInv /\ FreeInv /\ SaveIsCurrent

\* What the type says of a task inside a call.
LEMMA CallTypes ==
  ASSUME LifecycleTypeOK, NEW t \in Tasks, call[t].pc # "idle"
  PROVE  /\ Waiting(t) => call[t] \in [pc : {"waiting"}, model : Models, op : Op]
         /\ Saving(t) => call[t].op \in ModelState
         /\ call[t].model \in Models
<1>1. call[t] \in Call
  BY DEF LifecycleTypeOK
<1>2. call[t] # Idle
  BY DEF Idle
<1>. QED
  BY <1>1, <1>2 DEF Call, Waiting, Saving

\* The initial state satisfies the inductive invariant.
LEMMA InitIInv == Init => IInv
BY LifecycleAssumption
   DEF Init, IInv, LifecycleTypeOK, LockInv, FreeInv, SaveIsCurrent, Saving, Idle, Call, ModelState

\* Every step keeps the variables in their types.
LEMMA TypeStep == LifecycleTypeOK /\ [Next]_vars => LifecycleTypeOK'
<1> SUFFICES ASSUME LifecycleTypeOK, [Next]_vars
             PROVE  LifecycleTypeOK'
  OBVIOUS
<1> USE DEF LifecycleTypeOK
<1>1. ASSUME NEW m \in Models, Register(m) \/ Unregister(m)
      PROVE  LifecycleTypeOK'
  BY <1>1 DEF Register, Unregister
<1>2. ASSUME NEW t \in Tasks, NEW m \in Models, NEW op \in Op, Begin(t, m, op)
      PROVE  LifecycleTypeOK'
  BY <1>2 DEF Begin, Call
<1>3. ASSUME NEW t \in Tasks, Count(t)
      PROVE  LifecycleTypeOK'
  <2>1. call[t].model \in Models
    BY <1>3, CallTypes DEF Count, Waiting
  <2>2. \A n \in Nat : n + 1 \in Nat /\ Decremented(n) \in Nat
    BY DEF Decremented
  <2>3. pending' \in [Models -> Nat]
    BY <1>3, <2>1, <2>2 DEF Count
  <2>4. QED
    BY <1>3, <2>3 DEF Count, Call
<1>4. ASSUME NEW t \in Tasks, Transit(t)
      PROVE  LifecycleTypeOK'
  <2>1. call[t] \in [pc : {"waiting"}, model : Models, op : Op]
    BY <1>4, CallTypes DEF Transit, Waiting
  <2>2. [call[t] EXCEPT !.pc = "saving"] \in Call
    BY <1>4, <2>1 DEF Call, Transit
  <2>3. QED
    BY <1>4, <2>1, <2>2 DEF Transit
<1>5. ASSUME NEW t \in Tasks, Refuse(t) \/ GiveUp(t)
      PROVE  LifecycleTypeOK'
  BY <1>5 DEF Refuse, GiveUp, Call
<1>6. ASSUME NEW t \in Tasks, Save(t)
      PROVE  LifecycleTypeOK'
  <2>1. /\ call[t].model \in Models
        /\ call[t].op \in ModelState
    BY <1>6, CallTypes DEF Save, Saved, SaveFailed, Saving
  <2>2. CASE Saved(t)
    BY <2>1, <2>2 DEF Saved, Call
  <2>3. CASE SaveFailed(t)
    BY <2>1, <2>3 DEF SaveFailed, Release, Call
  <2>4. QED
    BY <1>6, <2>2, <2>3 DEF Save
<1>7. CASE UNCHANGED vars
  BY <1>7 DEF vars
<1>8. QED
  BY <1>1, <1>2, <1>3, <1>4, <1>5, <1>6, <1>7 DEF Next, Enter

\* Every step preserves the inductive invariant.
LEMMA StepIInv == IInv /\ [Next]_vars => IInv'
<1> SUFFICES ASSUME IInv, [Next]_vars
             PROVE  LockInv' /\ FreeInv' /\ SaveIsCurrent'
  BY TypeStep DEF IInv
<1> USE DEF IInv, LockInv, FreeInv, SaveIsCurrent, Saving
<1>1. ASSUME NEW m \in Models, Register(m) \/ Unregister(m)
      PROVE  LockInv' /\ FreeInv' /\ SaveIsCurrent'
  BY <1>1 DEF Register, Unregister
<1>2. ASSUME NEW t \in Tasks, NEW m \in Models, NEW op \in Op, Begin(t, m, op)
      PROVE  LockInv' /\ FreeInv' /\ SaveIsCurrent'
  BY <1>2 DEF Begin, Idle, LifecycleTypeOK
<1>3. ASSUME NEW t \in Tasks, Count(t) \/ Refuse(t) \/ GiveUp(t)
      PROVE  LockInv' /\ FreeInv' /\ SaveIsCurrent'
  BY <1>3 DEF Count, Refuse, GiveUp, Waiting, Idle, LifecycleTypeOK
<1>4. ASSUME NEW t \in Tasks, Transit(t)
      PROVE  LockInv' /\ FreeInv' /\ SaveIsCurrent'
  <2> DEFINE m == call[t].model
  <2>1. /\ m \in Models
        /\ call[t] \in [pc : {"waiting"}, model : Models, op : Op]
    BY <1>4, CallTypes DEF Transit, Waiting
  <2>2. /\ lock[m] = NoTask
        /\ lock' = [lock EXCEPT ![m] = t]
        /\ state' = [state EXCEPT ![m] = call[t].op]
        /\ IsValidTransition(state[m], call[t].op)
        /\ call'[t] = [call[t] EXCEPT !.pc = "saving"]
        /\ \A u \in Tasks \ {t} : call'[u] = call[u]
        /\ UNCHANGED <<durable, unsaved>>
    BY <1>4 DEF Transit, LockFree, LifecycleTypeOK
  <2>3. call'[t].pc = "saving" /\ call'[t].model = m /\ call'[t].op = call[t].op
    BY <2>1, <2>2
  <2>4. \A u \in Tasks : ~(Saving(u) /\ call[u].model = m)
    BY <2>1, <2>2, LifecycleAssumption
  <2>5. LockInv'
    BY <2>1, <2>2, <2>3, <2>4, LifecycleAssumption DEF LifecycleTypeOK
  <2>6. FreeInv'
    BY <2>1, <2>2, LifecycleAssumption DEF LifecycleTypeOK
  <2>7. SaveIsCurrent'
    BY <2>1, <2>2, <2>3, <2>4, CallTypes DEF LifecycleTypeOK
  <2>8. QED
    BY <2>5, <2>6, <2>7
<1>5. ASSUME NEW t \in Tasks, Save(t)
      PROVE  LockInv' /\ FreeInv' /\ SaveIsCurrent'
  <2> DEFINE m == call[t].model
  <2>1. m \in Models /\ Saving(t) /\ lock[m] = t /\ state[m] = call[t].op
    BY <1>5, CallTypes DEF Save, Saved, SaveFailed
  <2>2. /\ lock' = [lock EXCEPT ![m] = NoTask]
        /\ call' = [call EXCEPT ![t] = Idle]
        /\ UNCHANGED state
        /\ \/ durable' = [durable EXCEPT ![m] = call[t].op] /\ unsaved' = [unsaved EXCEPT ![m] = FALSE]
           \/ unsaved' = [unsaved EXCEPT ![m] = TRUE] /\ UNCHANGED durable
    BY <1>5 DEF Save, Saved, SaveFailed, Release
  <2>3. LockInv'
    BY <2>1, <2>2, LifecycleAssumption DEF LifecycleTypeOK, Idle
  <2>4. FreeInv'
    BY <2>1, <2>2 DEF LifecycleTypeOK
  <2>5. SaveIsCurrent'
    <3> SUFFICES ASSUME NEW u \in Tasks, Saving(u)'
                 PROVE  /\ state'[call'[u].model] = call'[u].op
                        /\ \/ IsValidTransition(durable'[call'[u].model], state'[call'[u].model])
                           \/ unsaved'[call'[u].model]
      OBVIOUS
    <3>1. u # t /\ call'[u] = call[u]
      BY <2>2 DEF LifecycleTypeOK, Idle
    <3>2. call[u].model \in Models /\ call[u].model # m
      BY <2>1, <3>1, CallTypes
    <3>3. QED
      BY <2>1, <2>2, <3>1, <3>2 DEF LifecycleTypeOK
  <2>6. QED
    BY <2>3, <2>4, <2>5
<1>6. CASE UNCHANGED vars
  BY <1>6 DEF vars
<1>7. QED
  BY <1>1, <1>2, <1>3, <1>4, <1>5, <1>6 DEF Next, Enter

\* The inductive invariant holds of every reachable state.
THEOREM Invariant == Spec => []IInv
BY InitIInv, StepIInv, PTL DEF Spec

\* Type correctness (LifecycleTypeOK): in particular the in-flight counter of
\* lifecycle.py never goes below zero.
THEOREM TypeCorrect == Spec => []LifecycleTypeOK
<1>1. IInv => LifecycleTypeOK
  BY DEF IInv
<1>2. QED
  BY <1>1, Invariant, PTL

\* The lock of a model is exclusive: two tasks are never inside the callback of
\* one model at once.
THEOREM SavesExclude ==
  Spec => [](\A t, u \in Tasks : Saving(t) /\ Saving(u) /\ call[t].model = call[u].model => t = u)
<1>1. IInv => \A t, u \in Tasks : Saving(t) /\ Saving(u) /\ call[t].model = call[u].model => t = u
  <2> SUFFICES ASSUME IInv, NEW t \in Tasks, NEW u \in Tasks,
                      Saving(t), Saving(u), call[t].model = call[u].model
               PROVE  t = u
    OBVIOUS
  <2>1. call[t].model \in Models
    BY CallTypes DEF IInv, Saving
  <2>2. QED
    BY <2>1 DEF IInv, LockInv
<1>2. QED
  BY <1>1, Invariant, PTL

\* The database agrees with memory whenever no save of the model is under way,
\* or the latest save was lost (DurableMirrorsState).
THEOREM MirrorsState == Spec => []DurableMirrorsState
<1>1. IInv => DurableMirrorsState
  <2> SUFFICES ASSUME IInv, NEW m \in Models,
                      \A t \in Tasks : ~(Saving(t) /\ call[t].model = m)
               PROVE  durable[m] = state[m] \/ unsaved[m]
    BY DEF DurableMirrorsState
  <2>1. lock[m] = NoTask
    BY DEF IInv, LockInv, LifecycleTypeOK
  <2>2. QED
    BY <2>1 DEF IInv, FreeInv
<1>2. QED
  BY <1>1, Invariant, PTL

\* What a callback is about to write is still the state in memory (SaveIsCurrent).
THEOREM SavesAreCurrent == Spec => []SaveIsCurrent
<1>1. IInv => SaveIsCurrent
  BY DEF IInv
<1>2. QED
  BY <1>1, Invariant, PTL

\* An observer of the database sees only legal transitions, except for the step
\* that follows a lost save (DurableHistoryIsLegal).
THEOREM HistoryIsLegal == Spec => DurableHistoryIsLegal
<1> DEFINE Legal == \A m \in Models : durable'[m] # durable[m]
                      => IsValidTransition(durable[m], durable'[m]) \/ unsaved[m]
<1>1. IInv /\ [Next]_vars => [Legal]_vars
  <2> SUFFICES ASSUME IInv, Next, NEW m \in Models, durable'[m] # durable[m]
               PROVE  IsValidTransition(durable[m], durable'[m]) \/ unsaved[m]
    BY DEF vars
  <2>1. PICK t \in Tasks : Saved(t)
    BY DEF Next, Enter, Save, Register, Unregister, Begin, Count, Transit, Refuse, GiveUp,
           SaveFailed
  <2>2. call[t].model = m /\ durable'[m] = call[t].op
    BY <2>1 DEF Saved, IInv, LifecycleTypeOK
  <2>3. QED
    BY <2>1, <2>2 DEF Saved, IInv, SaveIsCurrent
<1>2. QED
  BY <1>1, Invariant, PTL DEF Spec, DurableHistoryIsLegal
=============================================================================
