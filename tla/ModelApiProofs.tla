--------------------------- MODULE ModelApiProofs ---------------------------
(***************************************************************************)
(* ModelApi's safety properties for every set of callers and objects and   *)
(* whatever may go wrong.                                                  *)
(*                                                                         *)
(* SequentialCallsAgree speaks of moments without a call in progress; what *)
(* makes it inductive is what a call that has run alone knows in between:  *)
(* that the registry still holds its object, that the row is still as it   *)
(* has read or left it, and that what it is about to write is the model's  *)
(* state.                                                                  *)
(***************************************************************************)
EXTENDS ModelApi, TLAPS

\* What a caller without company knows, in a state from which its call returns.
AloneInv ==
  \A t \in Callers : alone = t =>
    /\ call[t] # Idle
    /\ \A u \in Callers : u # t => call[u] = Idle
    /\ call[t].pc = "inserted" => row = "IDLE"
    /\ call[t].pc \in {"draining", "moved", "read", "writing"} => registry = call[t].object
    /\ call[t].pc = "read" => row = call[t].seen
    /\ call[t].pc = "writing" => row # None /\ call[t].status = NewStatus(t)
    /\ call[t].pc = "deleted" => row = None

\* What the last call has left stands while nothing, or a call that changes neither
\* store, is in progress.
LeftInv ==
  /\ alone = None /\ left # "unknown" => Quiet
  /\ Quiet => AsLeft
  /\ \A t \in Callers : alone = t /\ call[t].pc \in {"deploying", "deleting"} => AsLeft

IInv == ApiTypeOK /\ AloneInv /\ LeftInv

\* A path of transitions leads from a state to a state.
LEMMA PathsTyped ==
  ASSUME NEW s \in ModelState
  PROVE  /\ \A path \in Paths(s) : path.state \in ModelState
         /\ SleepPath(s).state \in ModelState
<1>1. /\ LoadPath(s).state \in ModelState
      /\ SleepPath(s).state \in ModelState
      /\ UnloadPath(s).state \in ModelState
  BY DEF ModelState, LoadPath, SleepPath, UnloadPath, Then, At
<1>2. QED
  BY <1>1 DEF Paths

\* A call in progress that is not alone has company, and nothing is known of the
\* stores.
LEMMA AloneOrNot ==
  ASSUME IInv, NEW t \in Callers, call[t].pc # "idle"
  PROVE  /\ call[t] # Idle
         /\ alone = t \/ (alone = None /\ left = "unknown")
<1>1. call[t] # Idle
  BY DEF Idle
<1>2. QED
  BY <1>1 DEF IInv, ApiTypeOK, AloneInv, LeftInv, Quiet

\* The initial state satisfies the inductive invariant.
LEMMA InitIInv == Init => IInv
<1> SUFFICES ASSUME Init PROVE IInv
  OBVIOUS
<1>1. ApiTypeOK
  BY DEF Init, ApiTypeOK, Idle, Call, ModelState, Outcomes
<1>2. alone = None /\ Quiet /\ AsLeft
  BY DEF Init, Quiet, AsLeft, Agree
<1>3. AloneInv /\ LeftInv
  BY <1>2, ApiAssumption DEF AloneInv, LeftInv
<1>4. QED
  BY <1>1, <1>3 DEF IInv

\* A call in progress returns, having kept the types and left the stores as its
\* outcome says if it was alone.
LEMMA ReturnStep ==
  ASSUME IInv, NEW t \in Callers, call[t].pc # "idle",
         NEW outcome \in Outcomes, Return(t, outcome),
         model' \in [Objects -> ModelState], registry' \in Objects \cup {None},
         row' \in ModelState \cup {None}, deployed' \in BOOLEAN,
         alone = t /\ left' = outcome => AsLeft'
  PROVE  IInv'
<1>1. call' = [call EXCEPT ![t] = Idle] /\ alone' = None
  BY AloneOrNot, ApiAssumption DEF Return, Goto, IInv, ApiTypeOK
<1>2. \/ alone = t /\ left' = outcome
      \/ alone # t /\ left' = "unknown"
  BY AloneOrNot DEF Return
<1>3. ApiTypeOK'
  BY <1>1, <1>2 DEF IInv, ApiTypeOK, Call, Idle, Outcomes
<1>4. AloneInv'
  BY <1>1, ApiAssumption DEF AloneInv
<1>5. LeftInv'
  <2>1. AsLeft'
    BY <1>2 DEF AsLeft
  <2>2. alone = t => Quiet'
    BY <1>1 DEF IInv, AloneInv, Quiet, ApiTypeOK
  <2>3. QED
    BY <1>1, <1>2, <2>1, <2>2, ApiAssumption DEF LeftInv
<1>6. QED
  BY <1>3, <1>4, <1>5 DEF IInv

\* A call begins: if nothing else is in progress it is alone, and otherwise nothing
\* is known of the stores.
LEMMA BeginStep ==
  ASSUME IInv, NEW t \in Callers, NEW to \in Call, Begins(t), Goto(t, to),
         to.pc \in {"inserted", "draining", "moved", "deploying", "deleting"},
         model' \in [Objects -> ModelState], row' \in ModelState \cup {None},
         UNCHANGED <<registry, deployed>>,
         to.pc = "inserted" => row' = "IDLE",
         to.pc \in {"draining", "moved"} => registry = to.object,
         to.pc \in {"deploying", "deleting"} => UNCHANGED <<model, row>>
  PROVE  IInv'
<1>1. call' = [call EXCEPT ![t] = to] /\ call'[t] = to /\ to # Idle
  BY DEF Goto, IInv, ApiTypeOK, Idle
<1>2. \/ Quiet /\ alone' = t /\ left' = left
      \/ alone' = None /\ left' = "unknown"
  BY DEF Begins, Quiet
<1>3. ApiTypeOK'
  <2>1. alone' \in Callers \cup {None} /\ left' \in Outcomes
    BY <1>2 DEF IInv, ApiTypeOK, Outcomes
  <2>2. call' \in [Callers -> Call]
    BY <1>1 DEF IInv, ApiTypeOK
  <2>3. QED
    BY <2>1, <2>2 DEF IInv, ApiTypeOK
<1>4. AloneInv'
  BY <1>1, <1>2, ApiAssumption DEF AloneInv, Quiet
<1>5. LeftInv'
  <2>1. ~Quiet'
    BY <1>1 DEF Quiet
  <2>2. ASSUME to.pc \in {"deploying", "deleting"}, left' = left, Quiet
        PROVE  AsLeft'
    BY <2>2 DEF IInv, LeftInv, AsLeft, Agree
  <2>3. QED
    BY <1>1, <1>2, <2>1, <2>2, ApiAssumption DEF LeftInv, AsLeft
<1>6. QED
  BY <1>3, <1>4, <1>5 DEF IInv

\* A call goes on: it is still alone if it was, and knows what the next step needs.
LEMMA GoOn ==
  ASSUME IInv, NEW t \in Callers, call[t].pc # "idle",
         NEW to \in Call, Goto(t, to), to.pc \in {"moved", "read", "writing", "deleted"},
         model' \in [Objects -> ModelState], row' \in ModelState \cup {None},
         UNCHANGED <<registry, deployed, history>>,
         alone = t =>
           /\ to.pc \in {"moved", "read", "writing"} => registry = to.object
           /\ to.pc = "read" => row' = to.seen
           /\ to.pc = "writing" => row' # None /\ to.status = NewStatus(t)'
           /\ to.pc = "deleted" => row' = None
  PROVE  IInv'
<1>1. call' = [call EXCEPT ![t] = to] /\ call'[t] = to /\ to # Idle
  BY DEF Goto, IInv, ApiTypeOK, Idle
<1>2. ApiTypeOK'
  BY <1>1 DEF IInv, ApiTypeOK, history
<1>3. AloneInv'
  BY <1>1, AloneOrNot, ApiAssumption DEF IInv, AloneInv, history
<1>4. LeftInv'
  <2>1. ~Quiet'
    BY <1>1 DEF Quiet
  <2>2. QED
    BY <1>1, <2>1, AloneOrNot, ApiAssumption DEF LeftInv, history, AsLeft
<1>5. QED
  BY <1>2, <1>3, <1>4 DEF IInv

\* register_model keeps the inductive invariant.
LEMMA RegisterSteps ==
  ASSUME IInv, NEW t \in Callers, InsertRow(t) \/ RegisterModel(t)
  PROVE  IInv'
<1>1. CASE InsertRow(t)
  <2>1. [pc |-> "inserted"] \in Call
    BY DEF Call
  <2>2. QED
    BY <1>1, <2>1, BeginStep DEF InsertRow, IInv, ApiTypeOK, ModelState
<1>2. ASSUME RegisterModel(t), registry = None
      PROVE  IInv'
  <2>1. PICK o \in Objects : registry' = o /\ model' = [model EXCEPT ![o] = "IDLE"]
    BY <1>2, ApiAssumption DEF RegisterModel, Unused
  <2>2. /\ model' \in [Objects -> ModelState] /\ registry' \in Objects \cup {None}
        /\ model'[registry'] = "IDLE" /\ registry' # None
    BY <2>1, ApiAssumption DEF IInv, ApiTypeOK, ModelState
  <2>3. Return(t, "agreed") /\ UNCHANGED <<row, deployed>>
    BY <1>2 DEF RegisterModel
  <2>4. alone = t => row = "IDLE"
    BY <1>2 DEF RegisterModel, IInv, AloneInv
  <2>5. alone = t /\ left' = "agreed" => AsLeft'
    BY <2>2, <2>3, <2>4 DEF AsLeft, Agree
  <2>6. QED
    BY <1>2, <2>2, <2>3, <2>5, ReturnStep DEF RegisterModel, IInv, ApiTypeOK, Outcomes
<1>3. ASSUME RegisterModel(t), registry # None
      PROVE  IInv'
  <2>1. Return(t, "paired") /\ UNCHANGED <<model, registry, row, deployed>>
    BY <1>3 DEF RegisterModel
  <2>2. alone = t => row = "IDLE"
    BY <1>3 DEF RegisterModel, IInv, AloneInv
  <2>3. alone = t /\ left' = "paired" => AsLeft'
    BY <1>3, <2>1, <2>2, ApiAssumption DEF AsLeft, ModelState
  <2>4. QED
    BY <1>3, <2>1, <2>3, ReturnStep DEF RegisterModel, IInv, ApiTypeOK, Outcomes
<1>4. QED
  BY <1>1, <1>2, <1>3

\* Memory first: a move, and what a rollback does to v2, keep the inductive invariant.
LEMMA MoveSteps ==
  ASSUME IInv, NEW t \in Callers, Move(t) \/ Rollback(t) \/ DrainOver(t)
  PROVE  IInv'
<1>1. ASSUME Move(t)
      PROVE  IInv'
  <2>1. PICK path \in Paths(model[registry]) :
          path.legal /\ model' = [model EXCEPT ![registry] = path.state]
    BY <1>1 DEF Move
  <2>2. registry \in Objects /\ model[registry] \in ModelState
    BY <1>1 DEF Move, IInv, ApiTypeOK
  <2>3. path.state \in ModelState
    BY <2>1, <2>2, PathsTyped
  <2>4. model' \in [Objects -> ModelState]
    BY <2>1, <2>3 DEF IInv, ApiTypeOK
  <2>5. [pc |-> "moved", object |-> registry] \in Call
    BY <2>2 DEF Call
  <2>6. QED
    BY <1>1, <2>4, <2>5, BeginStep DEF Move, IInv, ApiTypeOK
<1>2. ASSUME Rollback(t)
      PROVE  IInv'
  <2>1. PICK pc \in {"draining", "moved"} :
          /\ Goto(t, [pc |-> pc, object |-> registry])
          /\ pc = "draining" => registry # None
          /\ \/ UNCHANGED model
             \/ \E s \in ModelState : model' = [model EXCEPT ![registry] = s]
    BY <1>2 DEF Rollback, ModelState
  <2>2. [pc |-> pc, object |-> registry] \in Call
    BY <2>1 DEF Call, IInv, ApiTypeOK
  <2>3. model' \in [Objects -> ModelState]
    BY <2>1 DEF IInv, ApiTypeOK
  <2>4. Begins(t) /\ UNCHANGED <<registry, row, deployed>>
    BY <1>2 DEF Rollback
  <2>5. QED
    BY <2>1, <2>2, <2>3, <2>4, BeginStep DEF IInv, ApiTypeOK
<1>3. ASSUME DrainOver(t), SleepPath(model[call[t].object]).legal
      PROVE  IInv'
  <2>1. call[t].object \in Objects
    BY <1>3 DEF DrainOver, IInv, ApiTypeOK, Call
  <2>2. SleepPath(model[call[t].object]).state \in ModelState
    BY <2>1, PathsTyped DEF IInv, ApiTypeOK
  <2>3. model' \in [Objects -> ModelState]
    BY <1>3, <2>2 DEF DrainOver, IInv, ApiTypeOK
  <2>4. [pc |-> "moved", object |-> call[t].object] \in Call
    BY <2>1 DEF Call
  <2>5. alone = t => registry = call[t].object
    BY <1>3 DEF DrainOver, IInv, AloneInv
  <2>6. QED
    BY <1>3, <2>3, <2>4, <2>5, GoOn DEF DrainOver, IInv, ApiTypeOK
<1>4. ASSUME DrainOver(t), ~SleepPath(model[call[t].object]).legal
      PROVE  IInv'
  <2>1. Return(t, "unknown") /\ UNCHANGED <<model, registry, row, deployed>>
    BY <1>4 DEF DrainOver
  <2>2. QED
    BY <1>4, <2>1, ReturnStep DEF DrainOver, IInv, ApiTypeOK, Outcomes, AsLeft
<1>5. QED
  BY <1>1, <1>2, <1>3, <1>4

\* The row is read, compared and written.
LEMMA RowSteps ==
  ASSUME IInv, NEW t \in Callers, ReadRow(t) \/ SetStatus(t) \/ WriteRow(t)
  PROVE  IInv'
<1>1. ASSUME ReadRow(t), row = None
      PROVE  IInv'
  <2>. PICK outcome \in {"agreed", "missing"} :
         outcome = IF call[t].object = None THEN "agreed" ELSE "missing"
    OBVIOUS
  <2>1. Return(t, outcome) /\ UNCHANGED <<model, registry, row, deployed>>
    BY <1>1 DEF ReadRow
  <2>2. alone = t => registry = call[t].object
    BY <1>1 DEF ReadRow, IInv, AloneInv
  <2>3. alone = t /\ left' = outcome => AsLeft'
    BY <1>1, <2>1, <2>2 DEF AsLeft, Agree
  <2>4. QED
    BY <1>1, <2>1, <2>3, ReturnStep DEF ReadRow, IInv, ApiTypeOK, Outcomes
<1>2. ASSUME ReadRow(t), row # None
      PROVE  IInv'
  <2>1. [pc |-> "read", object |-> call[t].object, seen |-> row] \in Call
    BY <1>2 DEF ReadRow, IInv, ApiTypeOK, Call
  <2>2. alone = t => registry = call[t].object
    BY <1>2 DEF ReadRow, IInv, AloneInv
  <2>3. QED
    BY <1>2, <2>1, <2>2, GoOn DEF ReadRow, IInv, ApiTypeOK
<1>3. ASSUME SetStatus(t), NewStatus(t) = call[t].seen
      PROVE  IInv'
  <2>. PICK outcome \in {"agreed", "missing"} : outcome = Written(t)
    BY DEF Written
  <2>1. Return(t, outcome) /\ UNCHANGED <<model, registry, row, deployed>>
    BY <1>3 DEF SetStatus
  <2>2. alone = t => registry = call[t].object /\ row = call[t].seen
    BY <1>3 DEF SetStatus, IInv, AloneInv
  <2>3. call[t].seen \in ModelState
    BY <1>3 DEF SetStatus, IInv, ApiTypeOK, Call
  <2>4. alone = t /\ left' = outcome => AsLeft'
    BY <1>3, <2>1, <2>2, <2>3, ApiAssumption DEF AsLeft, Agree, NewStatus, Written
  <2>5. QED
    BY <1>3, <2>1, <2>4, ReturnStep DEF SetStatus, IInv, ApiTypeOK, Outcomes
<1>4. ASSUME SetStatus(t), NewStatus(t) # call[t].seen
      PROVE  IInv'
  <2>. DEFINE to == [pc |-> "writing", object |-> call[t].object, status |-> NewStatus(t)]
  <2>1. call[t].object \in Objects \cup {None} /\ call[t].seen \in ModelState
    BY <1>4 DEF SetStatus, IInv, ApiTypeOK, Call
  <2>2. NewStatus(t) \in ModelState
    BY <2>1 DEF NewStatus, IInv, ApiTypeOK, ModelState
  <2>3. to \in Call
    BY <2>1, <2>2 DEF Call
  <2>4. Goto(t, to) /\ UNCHANGED <<model, registry, row, deployed, history>>
    BY <1>4 DEF SetStatus
  <2>5. NewStatus(t)' = NewStatus(t)
    BY <2>4 DEF Goto, NewStatus, IInv, ApiTypeOK
  <2>6. alone = t => registry = call[t].object /\ row # None
    BY <1>4, <2>1, ApiAssumption DEF SetStatus, IInv, AloneInv
  <2>7. to.pc = "writing" /\ to.object = call[t].object /\ to.status = NewStatus(t)
    OBVIOUS
  <2>. HIDE DEF to
  <2>8. QED
    BY <1>4, <2>3, <2>4, <2>5, <2>6, <2>7, GoOn DEF SetStatus, IInv, ApiTypeOK
<1>5. ASSUME WriteRow(t)
      PROVE  IInv'
  <2>. PICK outcome \in {"agreed", "missing"} : outcome = Written(t)
    BY DEF Written
  <2>1. /\ Return(t, outcome) /\ UNCHANGED <<model, registry, deployed>>
        /\ row' = IF row = None THEN None ELSE call[t].status
    BY <1>5 DEF WriteRow
  <2>2. call[t].status \in ModelState
    BY <1>5 DEF WriteRow, IInv, ApiTypeOK, Call
  <2>3. alone = t => registry = call[t].object /\ row # None /\ call[t].status = NewStatus(t)
    BY <1>5 DEF WriteRow, IInv, AloneInv
  <2>4. alone = t /\ left' = outcome => AsLeft'
    BY <2>1, <2>2, <2>3, ApiAssumption DEF AsLeft, Agree, NewStatus, Written
  <2>5. QED
    BY <1>5, <2>1, <2>2, <2>4, ReturnStep DEF WriteRow, IInv, ApiTypeOK, Outcomes
<1>6. QED
  BY <1>1, <1>2, <1>3, <1>4, <1>5

\* start_canary and the deployment's row.
LEMMA CanarySteps ==
  ASSUME IInv, NEW t \in Callers, StartCanary(t) \/ InsertDeployment(t)
  PROVE  IInv'
<1>1. CASE StartCanary(t)
  <2>1. [pc |-> "deploying"] \in Call
    BY DEF Call
  <2>2. QED
    BY <1>1, <2>1, BeginStep DEF StartCanary, IInv, ApiTypeOK
<1>2. CASE InsertDeployment(t)
  <2>1. /\ Return(t, left) /\ UNCHANGED <<model, registry, row>> /\ deployed' = TRUE
        /\ left \in Outcomes
    BY <1>2 DEF InsertDeployment, IInv, ApiTypeOK
  <2>2. alone = t => AsLeft
    BY <1>2 DEF InsertDeployment, IInv, LeftInv
  <2>3. alone = t /\ left' = left => AsLeft'
    BY <2>1, <2>2 DEF AsLeft, Agree
  <2>4. QED
    BY <1>2, <2>1, <2>3, ReturnStep DEF InsertDeployment, IInv, ApiTypeOK
<1>3. QED
  BY <1>1, <1>2

\* delete_model keeps the inductive invariant.
LEMMA DeleteSteps ==
  ASSUME IInv, NEW t \in Callers, ReadForDelete(t) \/ DeleteRow(t) \/ UnregisterModel(t)
  PROVE  IInv'
<1>1. ASSUME ReadForDelete(t)
      PROVE  IInv'
  <2>1. [pc |-> "deleting"] \in Call
    BY DEF Call
  <2>2. QED
    BY <1>1, <2>1, BeginStep DEF ReadForDelete, IInv, ApiTypeOK
<1>2. ASSUME DeleteRow(t), ~deployed
      PROVE  IInv'
  <2>1. [pc |-> "deleted"] \in Call
    BY DEF Call
  <2>2. QED
    BY <1>2, <2>1, GoOn DEF DeleteRow, IInv, ApiTypeOK
<1>3. ASSUME DeleteRow(t), deployed
      PROVE  IInv'
  <2>1. Return(t, left) /\ UNCHANGED <<model, registry, row, deployed>> /\ left \in Outcomes
    BY <1>3 DEF DeleteRow, IInv, ApiTypeOK
  <2>2. alone = t => AsLeft
    BY <1>3 DEF DeleteRow, IInv, LeftInv
  <2>3. alone = t /\ left' = left => AsLeft'
    BY <2>1, <2>2 DEF AsLeft, Agree
  <2>4. QED
    BY <1>3, <2>1, <2>3, ReturnStep DEF DeleteRow, IInv, ApiTypeOK
<1>4. ASSUME UnregisterModel(t)
      PROVE  IInv'
  <2>. PICK outcome \in {"agreed", "missing"} :
         outcome = IF Unregistered = None THEN "agreed" ELSE "missing"
    OBVIOUS
  <2>1. /\ Return(t, outcome) /\ registry' = Unregistered
        /\ UNCHANGED <<model, row, deployed>>
    BY <1>4 DEF UnregisterModel
  <2>2. registry' \in Objects \cup {None}
    BY <2>1 DEF Unregistered, IInv, ApiTypeOK
  <2>3. alone = t => row = None
    BY <1>4 DEF UnregisterModel, IInv, AloneInv
  <2>4. alone = t /\ left' = outcome => AsLeft'
    BY <2>1, <2>3 DEF AsLeft, Agree
  <2>5. QED
    BY <1>4, <2>1, <2>2, <2>4, ReturnStep DEF UnregisterModel, IInv, ApiTypeOK, Outcomes
<1>5. QED
  BY <1>1, <1>2, <1>3, <1>4

\* A failing database and a restart keep the inductive invariant: nothing is known
\* of the stores.
LEMMA FaultSteps ==
  ASSUME IInv, (\E t \in Callers : DatabaseFails(t)) \/ Restart
  PROVE  IInv'
<1>1. /\ alone' = None /\ left' = "unknown"
      /\ registry' \in {registry, None}
      /\ UNCHANGED <<model, row, deployed>>
  BY DEF DatabaseFails, Restart
<1>2. call' \in [Callers -> Call]
  BY DEF DatabaseFails, Restart, Goto, IInv, ApiTypeOK, Call, Idle
<1>3. ApiTypeOK'
  BY <1>1, <1>2 DEF IInv, ApiTypeOK, Outcomes
<1>4. AloneInv' /\ LeftInv'
  BY <1>1, ApiAssumption DEF AloneInv, LeftInv, AsLeft
<1>5. QED
  BY <1>3, <1>4 DEF IInv

\* The inductive invariant holds in every reachable state.
THEOREM Invariant == Spec => []IInv
<1>1. IInv /\ UNCHANGED vars => IInv'
  BY DEF vars, IInv, ApiTypeOK, AloneInv, NewStatus, LeftInv, Quiet, AsLeft, Agree
<1>2. IInv /\ Next => IInv'
  BY RegisterSteps, MoveSteps, RowSteps, CanarySteps, DeleteSteps, FaultSteps DEF Next
<1>3. QED
  BY InitIInv, <1>1, <1>2, PTL DEF Spec

\* The types of ModelApi's variables, for any number of callers and objects.
THEOREM TypeCorrect == Spec => []ApiTypeOK
BY Invariant, PTL DEF IInv

\* Calls one after the other keep row and model in step; after overlapping or failed
\* calls the next one that runs alone brings them together, unless one of the stores
\* has lost the id or memory refuses a register.
THEOREM SequentialAgree == Spec => []SequentialCallsAgree
<1>1. IInv => SequentialCallsAgree
  BY DEF IInv, LeftInv, SequentialCallsAgree
<1>2. QED
  BY <1>1, Invariant, PTL
=============================================================================
