--------------------------- MODULE ServingProofs ---------------------------
(***************************************************************************)
(* The proxy in front of a canary: types and the accounts of the request   *)
(* metrics for any deployments, tasks and requests; and for one deployment *)
(* whose calls come one after the other, beside any number of supervisors, *)
(* requests and operators, what the routing table says of the canary.      *)
(***************************************************************************)
EXTENDS Serving, SumProofs

-----------------------------------------------------------------------------
(***************************************************************************)
(* Splits and tables.                                                      *)
(***************************************************************************)
Percents == 0..100
AtWork == {"read", "advanced", "draining", "drained", "routed"}
Watching == {"asking", "resting", "draining"}

LEMMA ElementOf == ASSUME NEW T, NEW s \in Seq(T), NEW i \in 1..Len(s) PROVE s[i] \in T
OBVIOUS

LEMMA StagesTyped ==
  /\ Len(Stages) \in Nat /\ Len(Stages) >= 1
  /\ \A i \in 1..Len(Stages) : Stages[i] \in 1..100
  /\ \A i \in 1..Len(Stages) - 1 : Stages[i] <= Stages[i + 1]
<1>1. /\ Stages \in Seq(1..100) /\ Stages # <<>>
      /\ \A i \in 1..Len(Stages) - 1 : Stages[i] <= Stages[i + 1]
  BY CanaryAssumption DEF ValidStages
<1>2. Len(Stages) \in Nat
  BY <1>1
<1>4. \A i \in 1..Len(Stages) : Stages[i] \in 1..100
  BY <1>1, ElementOf
<1>3. Len(Stages) # 0
  BY <1>1
<1>. QED
  BY <1>1, <1>2, <1>3, <1>4

LEMMA RatioIsNoMore ==
  ASSUME NEW percent \in 1..100
  PROVE  StageRatio(percent) \in Percents /\ StageRatio(percent) <= percent
BY DEF StageRatio, Percents

\* A deployment whose versions differ, which nothing in the code asks for.
TwoVersions(d) == Baseline[d] # Candidate[d]

\* What a split makes of the table.
LEMMA TableOf ==
  ASSUME NEW d \in Deployments, NEW p \in Percents, TwoVersions(d)
  PROVE  LET t == SetSplit(Split(d, p))
         IN /\ DOMAIN t.weights = {m \in {Baseline[d], Candidate[d]} :
                                     IF m = Candidate[d] THEN p > 0 ELSE p < 100}
            /\ t.disabled = {m \in {Baseline[d], Candidate[d]} :
                               IF m = Candidate[d] THEN p = 0 ELSE p = 100}
            /\ p > 0 => t.weights[Candidate[d]] = p
            /\ p < 100 => t.weights[Baseline[d]] = 100 - p
<1>. DEFINE v1 == Baseline[d]
            v2 == Candidate[d]
            split == Split(d, p)
            t == SetSplit(split)
<1>1. v1 # v2 /\ p \in Int /\ p >= 0 /\ p <= 100
  BY DEF Percents, TwoVersions
<1>2. DOMAIN split = {v1, v2} /\ split[v1] = 100 - p /\ split[v2] = p
  BY <1>1 DEF Split
<1>. HIDE DEF split
<1>3. /\ DOMAIN t.weights = {k \in {v1, v2} : split[k] > 0}
      /\ t.disabled = {k \in {v1, v2} : split[k] = 0}
      /\ \A m \in {v1, v2} : split[m] > 0 => t.weights[m] = split[m]
  BY <1>2 DEF SetSplit
<1>. HIDE DEF v1, v2, t
<1>4. /\ DOMAIN t.weights = {m \in {v1, v2} : IF m = v2 THEN p > 0 ELSE p < 100}
      /\ t.disabled = {m \in {v1, v2} : IF m = v2 THEN p = 0 ELSE p = 100}
      /\ p > 0 => t.weights[v2] = p
      /\ p < 100 => t.weights[v1] = 100 - p
  BY <1>1, <1>2, <1>3
<1>. QED
  BY <1>4 DEF v1, v2, t, split

LEMMA Versioned ==
  ASSUME NEW d \in Deployments
  PROVE  Baseline[d] \in Models /\ Candidate[d] \in Models
BY CanaryAssumption

TableTyped == DOMAIN table.weights \subseteq Models /\ table.disabled \subseteq Models

LEMMA SplitTyped ==
  ASSUME NEW d \in Deployments, NEW p \in Percents, table' = SetSplit(Split(d, p))
  PROVE  TableTyped'
<1>1. DOMAIN table'.weights \subseteq {Baseline[d], Candidate[d]}
      /\ table'.disabled \subseteq {Baseline[d], Candidate[d]}
  BY DEF SetSplit, Split
<1>. QED
  BY <1>1, Versioned DEF TableTyped

\* Stage i routes no more than its percentage to v2.
LEMMA StageSplitIs ==
  ASSUME NEW d \in Deployments, NEW i \in 1..Len(Stages)
  PROVE  \E p \in Percents : p <= Stages[i] /\ StageSplit(d, i) = Split(d, p)
BY StagesTyped, RatioIsNoMore DEF StageSplit
-----------------------------------------------------------------------------
(***************************************************************************)
(* Types.                                                                  *)
(***************************************************************************)
Tasks == Callers \cup Supervisors

TasksOK ==
  /\ task \in [Tasks -> HandlerState \cup SupervisorState]
  /\ \A t \in Callers : task[t] \in HandlerState
  /\ \A s \in Supervisors : task[s] \in SupervisorState

\* A handler works on a deployment that has a row; rows are never deleted.
RowsKnown == \A t \in Callers : task[t].pc \in AtWork => row[task[t].d] # NoRow

CanaryInv == CanaryTypeOK /\ TasksOK /\ RowsKnown

LEMMA HandlerFields ==
  ASSUME NEW x \in HandlerState
  PROVE  /\ x.pc \in AtWork \cup {"starting"} => x.d \in Deployments
         /\ x.pc = "read" => x.seen \in Row
         /\ x.pc = "advanced" => x.stage \in 1..Len(Stages)
         /\ x.pc \notin {"asking", "resting"}
<1>1. CASE x = Idle
  BY <1>1 DEF Idle, AtWork
<1>2. CASE x # Idle
  BY <1>2 DEF HandlerState, AtWork
<1>. QED
  BY <1>1, <1>2

LEMMA SupervisorFields ==
  ASSUME NEW x \in SupervisorState
  PROVE  /\ x.pc \in {"idle", "stopped"} \cup Watching
         /\ x.pc \in Watching => /\ x.d \in Deployments
                                 /\ [x EXCEPT !.stop = TRUE] \in SupervisorState
                                 /\ \A pc \in Watching : [x EXCEPT !.pc = pc] \in SupervisorState
<1>1. CASE x \in {Idle, Stopped}
  BY <1>1 DEF Idle, Stopped, Watching
<1>2. CASE x \in [pc : Watching, d : Deployments, stop : BOOLEAN]
  <2>1. /\ [x EXCEPT !.stop = TRUE] \in [pc : Watching, d : Deployments, stop : BOOLEAN]
        /\ \A pc \in Watching :
             [x EXCEPT !.pc = pc] \in [pc : Watching, d : Deployments, stop : BOOLEAN]
    BY <1>2
  <2>. QED
    BY <1>2, <2>1 DEF SupervisorState, Watching
<1>. QED
  BY <1>1, <1>2 DEF SupervisorState, Watching

LEMMA HandlerStates ==
  /\ Idle \in HandlerState
  /\ \A pc \in {"starting", "draining", "drained", "routed"} : \A d \in Deployments :
       [pc |-> pc, d |-> d] \in HandlerState
  /\ \A d \in Deployments : \A op \in {"advance", "rollback"} : \A seen \in Row :
       [pc |-> "read", d |-> d, op |-> op, seen |-> seen] \in HandlerState
  /\ \A d \in Deployments : \A i \in 1..Len(Stages) :
       [pc |-> "advanced", d |-> d, stage |-> i] \in HandlerState
BY DEF HandlerState

LEMMA RowFields ==
  ASSUME NEW x \in Row
  PROVE  /\ x # NoRow /\ x.stage \in 1..Len(Stages)
         /\ x.status \in {"IN_PROGRESS", "COMPLETED", "ROLLED_BACK"}
         /\ \A status \in {"COMPLETED", "ROLLED_BACK"} :
              /\ [x EXCEPT !.status = status] \in Row
              /\ [x EXCEPT !.status = status].status = status
              /\ [x EXCEPT !.status = status].stage = x.stage
         /\ \A i \in 1..Len(Stages) :
              /\ [x EXCEPT !.stage = i] \in Row
              /\ [x EXCEPT !.stage = i].stage = i
              /\ [x EXCEPT !.stage = i].status = x.status
BY DEF Row, NoRow

\* A transition of a path stays among the states.
LEMMA ThenStays ==
  ASSUME NEW done, NEW to \in ModelState, done.state \in ModelState
  PROVE  Then(done, to).state \in ModelState
BY DEF Then

LEMMA PathsStay ==
  ASSUME NEW from \in ModelState
  PROVE  /\ LoadPath(from).state \in ModelState
         /\ SleepPath(from).state \in ModelState
         /\ UnloadPath(from).state \in ModelState
<1>1. \A s \in {"LOADING", "ACTIVE", "DRAINING", "SLEEPING", "UNLOADING", "IDLE"} : s \in ModelState
  BY DEF ModelState
<1>2. At(from).state \in ModelState
  BY DEF At
<1>3. LoadPath(from).state \in ModelState
  BY <1>1, <1>2, ThenStays DEF LoadPath
<1>4. SleepPath(from).state \in ModelState
  BY <1>1, <1>2, ThenStays DEF SleepPath
<1>. DEFINE d1 == Then(At(from), "DRAINING")
            d2 == Then(d1, "SLEEPING")
            d3 == Then(d2, "UNLOADING")
<1>5. d1.state \in ModelState
  BY <1>1, <1>2, ThenStays
<1>. HIDE DEF d1
<1>6. d2.state \in ModelState
  BY <1>1, <1>5, ThenStays
<1>. HIDE DEF d2
<1>7. d3.state \in ModelState
  BY <1>1, <1>6, ThenStays
<1>. HIDE DEF d3
<1>8. Then(d3, "IDLE").state \in ModelState
  BY <1>1, <1>7, ThenStays
<1>. QED
  BY <1>3, <1>4, <1>8 DEF UnloadPath, d3, d2, d1

\* The steps that both kinds of tasks take, for each of them.
LEMMA CallersDiffer ==
  ASSUME NEW t \in Callers
  PROVE  t \notin Supervisors /\ t \in Tasks
BY CanaryAssumption DEF Tasks

\* v2 has been stopped, is being drained, or has been moved by others.
RollsBack(t) ==
  \/ /\ table' = SetSplit(RollbackSplit(task[t].d)) /\ Goto(t, Stopped) /\ t \in Supervisors
  \/ /\ UNCHANGED table /\ Goto(t, [pc |-> "drained", d |-> task[t].d]) /\ t \notin Supervisors
  \/ /\ UNCHANGED table /\ Goto(t, [pc |-> "draining", d |-> task[t].d]) /\ t \notin Supervisors
  \/ /\ UNCHANGED table /\ Goto(t, [task[t] EXCEPT !.pc = "draining"]) /\ t \in Supervisors
  \/ /\ UNCHANGED table /\ Goto(t, Idle) /\ t \notin Supervisors
  \/ /\ UNCHANGED table /\ Goto(t, [task[t] EXCEPT !.pc = "resting"]) /\ t \in Supervisors

StateOK == state \in [Models -> ModelState]

LEMMA RollbackRollsBack ==
  ASSUME StateOK, NEW t, task[t].d \in Deployments, Rollback(t)
  PROVE  RollsBack(t) /\ StateOK'
<1>1. StateOK'
  BY Versioned DEF Rollback, StateOK, ModelState
<1>2. RollsBack(t)
  BY DEF Rollback, V2Stopped, Draining, RollsBack
<1>. QED
  BY <1>1, <1>2

LEMMA DrainOverRollsBack ==
  ASSUME StateOK, NEW t, task[t].d \in Deployments, DrainOver(t)
  PROVE  RollsBack(t) /\ StateOK' /\ row' = row /\ task[t].pc = "draining"
<1>1. StateOK'
  BY Versioned DEF DrainOver, StateOK, ModelState
<1>2. RollsBack(t)
  BY DEF DrainOver, V2Stopped, Raise, Goto, RollsBack
<1>. QED
  BY <1>1, <1>2 DEF DrainOver

\* What is left of a step's types once the task's own next state is known.
Stores == StateOK /\ TableTyped /\ row \in [Deployments -> {NoRow} \cup Row]

LEMMA RowWritten ==
  ASSUME Stores, NEW d \in Deployments, NEW x \in Row, row' = [row EXCEPT ![d] = x],
         UNCHANGED <<state, table>>
  PROVE  /\ Stores' /\ row'[d] = x /\ x # NoRow
         /\ \A e \in Deployments : e # d => row'[e] = row[e]
         /\ \A e \in Deployments : row[e] # NoRow => row'[e] # NoRow
<1>1. x # NoRow
  BY RowFields
<1>2. row' \in [Deployments -> {NoRow} \cup Row] /\ row'[d] = x
      /\ \A e \in Deployments : e # d => row'[e] = row[e]
  BY DEF Stores
<1>3. StateOK' /\ TableTyped'
  BY DEF Stores, StateOK, TableTyped
<1>. QED
  BY <1>1, <1>2, <1>3 DEF Stores

LEMMA CallerGoes ==
  ASSUME CanaryInv, Stores', NEW t \in Callers, NEW to \in HandlerState, Goto(t, to),
         \A d \in Deployments : row[d] # NoRow => row'[d] # NoRow,
         to.pc \in AtWork => row'[to.d] # NoRow
  PROVE  CanaryInv'
<1>1. /\ task' \in [Tasks -> HandlerState \cup SupervisorState] /\ task'[t] = to
      /\ \A u \in Tasks : u # t => task'[u] = task[u]
  BY CallersDiffer DEF CanaryInv, TasksOK, Goto
<1>2. TasksOK'
  BY <1>1, CallersDiffer DEF CanaryInv, TasksOK, Tasks
<1>3. RowsKnown'
  BY <1>1, HandlerFields DEF CanaryInv, RowsKnown, TasksOK, Tasks
<1>. QED
  BY <1>2, <1>3 DEF CanaryInv, CanaryTypeOK, TasksOK, Stores, StateOK, TableTyped

LEMMA SupervisorGoes ==
  ASSUME CanaryInv, Stores', NEW s \in Supervisors, NEW to \in SupervisorState, Goto(s, to),
         row' = row
  PROVE  CanaryInv'
<1>1. /\ task' \in [Tasks -> HandlerState \cup SupervisorState] /\ task'[s] = to
      /\ \A u \in Tasks : u # s => task'[u] = task[u]
  BY DEF CanaryInv, TasksOK, Goto, Tasks
<1>2. TasksOK'
  BY <1>1, CallersDiffer DEF CanaryInv, TasksOK, Tasks
<1>3. RowsKnown'
  BY <1>1, CallersDiffer DEF CanaryInv, RowsKnown
<1>. QED
  BY <1>2, <1>3 DEF CanaryInv, CanaryTypeOK, TasksOK, Stores, StateOK, TableTyped

LEMMA RollsBackTyped ==
  ASSUME CanaryInv, StateOK', row' = row, NEW t \in Tasks, RollsBack(t),
         task[t].d \in Deployments,
         t \in Callers => task[t].pc \in AtWork,
         t \in Supervisors => task[t].pc \in Watching
  PROVE  CanaryInv'
<1>. DEFINE d == task[t].d
<1>1. TableTyped'
  <2>1. 0 \in Percents
    BY DEF Percents
  <2>2. CASE table' = SetSplit(RollbackSplit(d))
    BY <2>1, <2>2, SplitTyped DEF RollbackSplit
  <2>3. CASE table' = table
    BY <2>3 DEF CanaryInv, CanaryTypeOK, TableTyped
  <2>. QED
    BY <2>2, <2>3 DEF RollsBack
<1>2. Stores'
  BY <1>1 DEF Stores, CanaryInv, CanaryTypeOK
<1>3. CASE t \in Callers
  <2>1. PICK to \in {[pc |-> "drained", d |-> d], [pc |-> "draining", d |-> d], Idle} : Goto(t, to)
    BY <1>3, CallersDiffer DEF RollsBack
  <2>2. to.pc \in AtWork => to.d = d
    BY DEF Idle, AtWork
  <2>3. row'[d] # NoRow
    BY <1>3 DEF CanaryInv, RowsKnown
  <2>4. to.pc \in AtWork => row'[to.d] # NoRow
    BY <2>2, <2>3
  <2>5. to \in HandlerState
    BY <2>1, HandlerStates
  <2>. QED
    BY <1>2, <1>3, <2>1, <2>4, <2>5, CallerGoes
<1>4. CASE t \in Supervisors
  <2>1. PICK to \in {Stopped, [task[t] EXCEPT !.pc = "draining"], [task[t] EXCEPT !.pc = "resting"]} :
          Goto(t, to)
    BY <1>4 DEF RollsBack
  <2>2. task[t] \in SupervisorState /\ "draining" \in Watching /\ "resting" \in Watching
    BY <1>4 DEF CanaryInv, TasksOK, Watching
  <2>3. Stopped \in SupervisorState
    BY DEF SupervisorState
  <2>4. to \in SupervisorState
    BY <1>4, <2>1, <2>2, <2>3, SupervisorFields
  <2>. QED
    BY <1>2, <1>4, <2>1, <2>4, SupervisorGoes
<1>. QED
  BY <1>3, <1>4 DEF Tasks

LEMMA CanaryInit == Init => CanaryInv
<1>. SUFFICES ASSUME Init PROVE CanaryInv
  OBVIOUS
<1>1. StateOK /\ TableTyped /\ row \in [Deployments -> {NoRow} \cup Row]
  BY DEF Init, StateOK, ModelState, TableTyped, EmptyTable
<1>2. \A t \in Tasks : task[t] = Idle /\ task[t].pc = "idle"
  BY DEF Init, Tasks, Idle
<1>3. Idle \in HandlerState /\ Idle \in SupervisorState
  BY DEF HandlerState, SupervisorState
<1>4. TasksOK
  BY <1>2, <1>3 DEF Init, TasksOK, Tasks
<1>5. RowsKnown
  BY <1>2 DEF RowsKnown, AtWork, Tasks
<1>. QED
  BY <1>1, <1>4, <1>5 DEF CanaryInv, CanaryTypeOK, TasksOK, StateOK, TableTyped

LEMMA CanaryStep == CanaryInv /\ [Next]_vars => CanaryInv'
<1>. SUFFICES ASSUME CanaryInv, [Next]_vars PROVE CanaryInv'
  OBVIOUS
<1>0. /\ Stores /\ StateOK
      /\ \A t \in Callers : task[t] \in HandlerState
      /\ \A s \in Supervisors : task[s] \in SupervisorState
  BY DEF CanaryInv, CanaryTypeOK, TasksOK, Stores, StateOK, TableTyped
\* A handler that stops, and changes nothing in the stores.
<1>1. ASSUME NEW t \in Callers, Goto(t, Idle), UNCHANGED <<state, table, row>>
      PROVE  CanaryInv'
  <2>1. Stores' /\ Idle \in HandlerState /\ Idle.pc \notin AtWork
    BY <1>0, <1>1, HandlerStates DEF Stores, StateOK, TableTyped, Idle, AtWork
  <2>. QED
    BY <1>1, <2>1, CallerGoes
<1>2. ASSUME NEW t \in Callers, NEW d \in Deployments, Start(t, d)
      PROVE  CanaryInv'
  <2>. DEFINE to == [pc |-> "starting", d |-> d]
  <2>1. PICK p \in Percents : table' = SetSplit(Split(d, p))
    <3>1. 1 \in 1..Len(Stages)
      BY StagesTyped
    <3>. QED
      BY <1>2, <3>1, StageSplitIs DEF Start
  <2>2. Stores'
    BY <1>0, <1>2, <2>1, SplitTyped DEF Start, Stores, StateOK
  <2>3. to \in HandlerState /\ to.pc \notin AtWork
    BY HandlerStates DEF AtWork
  <2>4. Goto(t, to) /\ row' = row
    BY <1>2 DEF Start
  <2>. HIDE DEF to
  <2>. QED
    BY <2>2, <2>3, <2>4, CallerGoes
<1>3. ASSUME NEW t \in Callers, CommitStart(t)
      PROVE  CanaryInv'
  <2>1. /\ task[t].d \in Deployments
        /\ [status |-> "IN_PROGRESS", stage |-> 1] \in Row
    BY <1>0, <1>3, HandlerFields, StagesTyped DEF CommitStart, Row
  <2>2. Stores' /\ \A d \in Deployments : row[d] # NoRow => row'[d] # NoRow
    BY <1>0, <1>3, <2>1, RowWritten DEF CommitStart
  <2>3. Idle \in HandlerState /\ Idle.pc \notin AtWork /\ Goto(t, Idle)
    BY <1>3, HandlerStates DEF CommitStart, Idle, AtWork
  <2>. QED
    BY <2>2, <2>3, CallerGoes
<1>4. ASSUME NEW t \in Callers, NEW d \in Deployments, NEW op \in {"advance", "rollback"},
             Read(t, d, op)
      PROVE  CanaryInv'
  <2>. DEFINE to == [pc |-> "read", d |-> d, op |-> op, seen |-> row[d]]
  <2>1. row[d] \in Row /\ row[d] # NoRow
    BY <1>0, <1>4 DEF Read, Stores
  <2>2. to \in HandlerState /\ to.d = d
    BY <2>1, HandlerStates
  <2>3. Goto(t, to) /\ row' = row /\ Stores'
    BY <1>0, <1>4 DEF Read, Stores, StateOK, TableTyped
  <2>. HIDE DEF to
  <2>. QED
    BY <2>1, <2>2, <2>3, CallerGoes
<1>5. ASSUME NEW t \in Callers, CommitAdvance(t)
      PROVE  CanaryInv'
  <2>. DEFINE d == task[t].d
              stage == task[t].seen.stage
  <2>1. task[t].pc = "read" /\ "read" \in AtWork
    BY <1>5 DEF CommitAdvance, Proceeds, AtWork
  <2>2. d \in Deployments /\ row[d] # NoRow /\ row[d] \in Row /\ task[t].seen \in Row
    BY <1>0, <2>1, HandlerFields DEF CanaryInv, RowsKnown, Stores
  <2>3. stage \in 1..Len(Stages)
    BY <2>2, RowFields
  <2>4. CASE /\ row' = [row EXCEPT ![d] = [row[d] EXCEPT !.status = "COMPLETED"]]
             /\ Goto(t, Idle)
    <3>1. [row[d] EXCEPT !.status = "COMPLETED"] \in Row
      BY <2>2, RowFields
    <3>2. Stores' /\ \A e \in Deployments : row[e] # NoRow => row'[e] # NoRow
      BY <1>0, <1>5, <2>2, <2>4, <3>1, RowWritten DEF CommitAdvance
    <3>3. Idle \in HandlerState /\ Idle.pc \notin AtWork
      BY HandlerStates DEF Idle, AtWork
    <3>. QED
      BY <2>4, <3>2, <3>3, CallerGoes
  <2>5. CASE /\ ~IsLast(stage)
             /\ row' = [row EXCEPT ![d] = [row[d] EXCEPT !.stage = stage + 1]]
             /\ Goto(t, [pc |-> "advanced", d |-> d, stage |-> stage + 1])
    <3>. DEFINE to == [pc |-> "advanced", d |-> d, stage |-> stage + 1]
    <3>1. stage + 1 \in 1..Len(Stages)
      BY <2>3, <2>5, StagesTyped DEF IsLast
    <3>2. [row[d] EXCEPT !.stage = stage + 1] \in Row /\ to \in HandlerState /\ to.d = d
      BY <2>2, <3>1, RowFields, HandlerStates
    <3>3. Stores' /\ (\A e \in Deployments : row[e] # NoRow => row'[e] # NoRow) /\ row'[d] # NoRow
      BY <1>0, <1>5, <2>2, <2>5, <3>2, RowWritten DEF CommitAdvance
    <3>. HIDE DEF to
    <3>4. Goto(t, to)
      BY <2>5 DEF to
    <3>. QED
      BY <3>2, <3>3, <3>4, CallerGoes
  <2>. QED
    BY <1>5, <2>4, <2>5 DEF CommitAdvance
<1>6. ASSUME NEW t \in Callers, RouteAdvance(t)
      PROVE  CanaryInv'
  <2>1. task[t].d \in Deployments /\ task[t].stage \in 1..Len(Stages)
    BY <1>0, <1>6, HandlerFields DEF RouteAdvance, AtWork
  <2>2. PICK p \in Percents : table' = SetSplit(Split(task[t].d, p))
    BY <1>6, <2>1, StageSplitIs DEF RouteAdvance
  <2>3. Stores'
    BY <1>0, <1>6, <2>1, <2>2, SplitTyped DEF RouteAdvance, Stores, StateOK
  <2>4. Idle \in HandlerState /\ Idle.pc \notin AtWork /\ Goto(t, Idle) /\ row' = row
    BY <1>6, HandlerStates DEF RouteAdvance, Idle, AtWork
  <2>. QED
    BY <2>3, <2>4, CallerGoes
<1>7. ASSUME NEW t \in Callers, BeginRollback(t)
      PROVE  CanaryInv'
  <2>1. task[t].d \in Deployments /\ task[t].pc \in AtWork
    BY <1>0, <1>7, HandlerFields DEF BeginRollback, Proceeds, AtWork
  <2>2. RollsBack(t) /\ StateOK' /\ row' = row
    BY <1>0, <1>7, <2>1, RollbackRollsBack DEF BeginRollback
  <2>. QED
    BY <2>1, <2>2, CallersDiffer, RollsBackTyped
<1>8. ASSUME NEW t \in Callers, SwitchBack(t)
      PROVE  CanaryInv'
  <2>. DEFINE to == [pc |-> "routed", d |-> task[t].d]
  <2>1. task[t].d \in Deployments /\ row[task[t].d] # NoRow /\ 0 \in Percents
    BY <1>0, <1>8, HandlerFields DEF SwitchBack, AtWork, CanaryInv, RowsKnown, Percents
  <2>2. Stores'
    BY <1>0, <1>8, <2>1, SplitTyped DEF SwitchBack, RollbackSplit, Stores, StateOK
  <2>3. to \in HandlerState /\ to.d = task[t].d /\ Goto(t, to) /\ row' = row
    BY <1>8, <2>1, HandlerStates DEF SwitchBack
  <2>. HIDE DEF to
  <2>. QED
    BY <2>1, <2>2, <2>3, CallerGoes
<1>9. ASSUME NEW t \in Callers, CommitRollback(t)
      PROVE  CanaryInv'
  <2>. DEFINE d == task[t].d
  <2>1. d \in Deployments /\ row[d] # NoRow
    BY <1>0, <1>9, HandlerFields DEF CommitRollback, AtWork, CanaryInv, RowsKnown
  <2>2. row[d] \in Row /\ [row[d] EXCEPT !.status = "ROLLED_BACK"] \in Row
    BY <1>0, <2>1, RowFields DEF Stores
  <2>3. row' = [row EXCEPT ![d] = [row[d] EXCEPT !.status = "ROLLED_BACK"]]
    BY <1>9 DEF CommitRollback
  <2>4. Stores' /\ \A e \in Deployments : row[e] # NoRow => row'[e] # NoRow
    BY <1>0, <1>9, <2>1, <2>2, <2>3, RowWritten DEF CommitRollback
  <2>5. Idle \in HandlerState /\ Idle.pc \notin AtWork /\ Goto(t, Idle)
    BY <1>9, HandlerStates DEF CommitRollback, Idle, AtWork
  <2>. QED
    BY <2>4, <2>5, CallerGoes
<1>10. ASSUME NEW t \in Callers, DatabaseFails(t)
       PROVE  CanaryInv'
  BY <1>1, <1>10, CallersDiffer DEF DatabaseFails, Raise
<1>11. ASSUME NEW t \in Tasks, DrainOver(t)
       PROVE  CanaryInv'
  <2>1. task[t].pc = "draining" /\ "draining" \in AtWork /\ "draining" \in Watching
    BY <1>11 DEF DrainOver, AtWork, Watching
  <2>2. task[t].d \in Deployments
    BY <1>0, <2>1, HandlerFields, SupervisorFields DEF Tasks
  <2>3. RollsBack(t) /\ StateOK' /\ row' = row
    BY <1>0, <1>11, <2>2, DrainOverRollsBack
  <2>. QED
    BY <2>1, <2>2, <2>3, RollsBackTyped
\* A supervisor that changes nothing in the stores.
<1>12. ASSUME NEW s \in Supervisors, NEW to \in SupervisorState, Goto(s, to),
              UNCHANGED <<state, table, row>>
       PROVE  CanaryInv'
  <2>1. Stores'
    BY <1>0, <1>12 DEF Stores, StateOK, TableTyped
  <2>. QED
    BY <1>12, <2>1, SupervisorGoes
<1>13. ASSUME NEW s \in Supervisors, NEW d \in Deployments, Watch(s, d)
       PROVE  CanaryInv'
  <2>1. /\ [pc |-> "asking", d |-> d, stop |-> FALSE] \in SupervisorState
        /\ Stopped \in SupervisorState
    BY DEF SupervisorState
  <2>. QED
    BY <1>12, <1>13, <2>1 DEF Watch
<1>14. ASSUME NEW s \in Supervisors, NotDegraded(s) \/ NextCheck(s) \/ Stop(s)
       PROVE  CanaryInv'
  <2>1. task[s] \in SupervisorState /\ task[s].pc \in Watching
    BY <1>0, <1>14 DEF NotDegraded, NextCheck, Stop, Watching
  <2>2. /\ [task[s] EXCEPT !.stop = TRUE] \in SupervisorState
        /\ [task[s] EXCEPT !.pc = "resting"] \in SupervisorState
        /\ [task[s] EXCEPT !.pc = "asking"] \in SupervisorState
        /\ Stopped \in SupervisorState
    BY <2>1, SupervisorFields DEF Watching, SupervisorState
  <2>3. CASE NotDegraded(s)
    BY <1>12, <2>2, <2>3 DEF NotDegraded, Raise, Goto
  <2>4. CASE NextCheck(s)
    BY <1>12, <2>2, <2>4 DEF NextCheck, LoopHead
  <2>5. CASE Stop(s)
    BY <1>12, <2>2, <2>5 DEF Stop, Goto
  <2>. QED
    BY <1>14, <2>3, <2>4, <2>5
<1>15. ASSUME NEW s \in Supervisors, Degraded(s)
       PROVE  CanaryInv'
  <2>1. task[s].d \in Deployments /\ task[s].pc \in Watching
    BY <1>0, <1>15, SupervisorFields DEF Degraded, Watching
  <2>2. RollsBack(s) /\ StateOK' /\ row' = row
    BY <1>0, <1>15, <2>1, RollbackRollsBack DEF Degraded
  <2>3. s \in Tasks /\ s \notin Callers
    BY CallersDiffer DEF Tasks
  <2>. QED
    BY <2>1, <2>2, <2>3, RollsBackTyped
<1>16. ASSUME NEW m \in Operated, Operate(m)
       PROVE  CanaryInv'
  <2>1. m \in Models /\ state[m] \in ModelState
    BY <1>0, CanaryAssumption DEF StateOK
  <2>2. StateOK'
    BY <1>0, <1>16, <2>1, PathsStay DEF Operate, StateOK
  <2>. QED
    BY <1>16, <2>2 DEF Operate, CanaryInv, CanaryTypeOK, TasksOK, RowsKnown, StateOK
<1>17. CASE UNCHANGED vars
  BY <1>17 DEF vars, CanaryInv, CanaryTypeOK, TasksOK, RowsKnown
<1>18. ASSUME NEW t \in Callers, Refuse(t)
       PROVE  CanaryInv'
  BY <1>1, <1>18 DEF Refuse
<1>. QED
  BY <1>2, <1>3, <1>4, <1>5, <1>6, <1>7, <1>8, <1>9, <1>10, <1>11, <1>13, <1>14, <1>15,
     <1>16, <1>17, <1>18
     DEF Next, Continue, Check, Tasks
-----------------------------------------------------------------------------
(***************************************************************************)
(* Requests and their metrics.                                             *)
(***************************************************************************)
Sent == [at : InFlight \cup Ended, to : Targets]
RequestsTyped ==
  /\ req \in [Requests -> [at : {"new"}] \cup Sent]
  /\ gauge \in [Labels -> Int]
  /\ total \in [Labels -> [success : Nat, error : Nat]]

LabelOf(r) == Label[req[r].to]

\* Who is counted as what.
Counts(r, l, situations) == IF req[r].at \in situations /\ LabelOf(r) = l THEN 1 ELSE 0

LEMMA SentFields ==
  ASSUME RequestsTyped, NEW r \in Requests, req[r].at \in InFlight
  PROVE  req[r] \in Sent /\ req[r].to \in Targets /\ LabelOf(r) \in Labels
BY DEF RequestsTyped, Sent, InFlight, LabelOf, Labels

\* What a request's end comes to: at most one total and the gauge of its label.
Ends(r, from, how, status, times) ==
  /\ req[r].at = from
  /\ req' = [req EXCEPT ![r] = [at |-> how, to |-> req[r].to]]
  /\ gauge' = [gauge EXCEPT ![LabelOf(r)] = gauge[LabelOf(r)] - times]
  /\ total' \in [Labels -> [success : Nat, error : Nat]]
  /\ \A l \in Labels :
       /\ total'[l].error = total[l].error
            + IF l = LabelOf(r) /\ status = "error" THEN times ELSE 0
       /\ total'[l].success = total[l].success
            + IF l = LabelOf(r) /\ status = "success" THEN times ELSE 0

LEMMA EndEnds ==
  ASSUME RequestsTyped, NEW r \in Requests, NEW from \in InFlight, NEW how \in Ended,
         NEW status \in {"success", "error"}, NEW times \in Nat,
         End(r, from, how, status, times)
  PROVE  Ends(r, from, how, status, times) /\ UNCHANGED vars
<1>. DEFINE m == req[r].to
            l == LabelOf(r)
            old == total[l]
            new == [old EXCEPT ![status] = old[status] + times]
<1>1. req[r] \in Sent /\ m \in Targets /\ l \in Labels
  BY SentFields DEF End
<1>2. req' = [req EXCEPT ![r] = [at |-> how, to |-> m]]
  <2>1. [req[r] EXCEPT !.at = how] = [at |-> how, to |-> m]
    BY <1>1 DEF Sent
  <2>. QED
    BY <2>1 DEF End
<1>3. gauge' = [gauge EXCEPT ![l] = gauge[l] - times]
  BY DEF End, Finalize, LabelOf
<1>4. total' = [total EXCEPT ![l] = new]
  BY DEF End, Finalize, LabelOf
<1>5. old \in [success : Nat, error : Nat] /\ total \in [Labels -> [success : Nat, error : Nat]]
  BY <1>1 DEF RequestsTyped
<1>6. /\ new \in [success : Nat, error : Nat]
      /\ new.error = old.error + IF status = "error" THEN times ELSE 0
      /\ new.success = old.success + IF status = "success" THEN times ELSE 0
  BY <1>5
<1>. HIDE DEF new
<1>7. /\ total' \in [Labels -> [success : Nat, error : Nat]]
      /\ \A n \in Labels : total'[n] = IF n = l THEN new ELSE total[n]
  BY <1>1, <1>4, <1>5, <1>6
<1>8. ASSUME NEW n \in Labels
      PROVE  /\ total'[n].error = total[n].error
                  + IF n = l /\ status = "error" THEN times ELSE 0
             /\ total'[n].success = total[n].success
                  + IF n = l /\ status = "success" THEN times ELSE 0
  <2>1. CASE n = l
    BY <1>6, <1>7, <2>1
  <2>2. CASE n # l
    <3>1. total[n].error \in Nat /\ total[n].success \in Nat
      BY <1>5
    <3>. QED
      BY <1>7, <2>2, <3>1
  <2>. QED
    BY <2>1, <2>2
<1>. QED
  BY <1>2, <1>3, <1>7, <1>8 DEF End, Ends

\* A step of the requests.
Arrives(r, m, how) ==
  /\ req[r].at = "new" /\ how \in {"opening", "posted"} /\ m \in Targets
  /\ gauge' = [gauge EXCEPT ![Label[m]] = gauge[Label[m]] + 1]
  /\ req' = [req EXCEPT ![r] = [at |-> how, to |-> m]]
  /\ total' = total
Opens(r) ==
  /\ req[r].at = "opening" /\ req' = [req EXCEPT ![r] = [at |-> "streaming", to |-> req[r].to]]
  /\ gauge' = gauge /\ total' = total

\* How a request may end: its end, the status it is counted under and how often.
Endings ==
  [how : {"answered", "unreadable", "unnoticed"}, status : {"success"}, times : {1}]
  \cup [how : {"refused", "failed", "malformed"}, status : {"error"}, times : {1}]
  \cup [how : {"broken"}, status : {"error"}, times : {2}]
  \cup [how : Unreported, status : {"error"}, times : {0}]

RequestMoves ==
  \E r \in Requests :
    \/ \E m \in Targets, how \in {"opening", "posted"} : Arrives(r, m, how)
    \/ Opens(r)
    \/ \E from \in InFlight, e \in Endings : Ends(r, from, e.how, e.status, e.times)

LEMMA EndMoves ==
  ASSUME RequestsTyped, NEW r \in Requests, NEW from \in InFlight, NEW e \in Endings,
         End(r, from, e.how, e.status, e.times)
  PROVE  RequestMoves /\ UNCHANGED vars
<1>1. e.how \in Ended /\ e.status \in {"success", "error"} /\ e.times \in Nat
  BY DEF Endings, Ended, Unreported
<1>2. Ends(r, from, e.how, e.status, e.times) /\ UNCHANGED vars
  BY <1>1, EndEnds
<1>. QED
  BY <1>2 DEF RequestMoves

LEMMA RequestsMove ==
  ASSUME RequestsTyped, NEW r \in Requests,
         \/ \E n \in Names, stream \in BOOLEAN : Arrive(r, n, stream)
         \/ Post(r) \/ Open(r) \/ Stream(r) \/ Abandon(r)
  PROVE  RequestMoves /\ UNCHANGED vars
<1>1. ASSUME NEW n \in Names, NEW stream \in BOOLEAN, Arrive(r, n, stream)
      PROVE  RequestMoves /\ UNCHANGED vars
  <2>1. Drawn(n) \subseteq Targets
    BY DEF Drawn, Routable, Serving, Targets
  <2>. QED
    BY <1>1, <2>1 DEF Arrive, Arrives, RequestMoves
<1>2. ASSUME NEW from \in InFlight, NEW how, NEW status, NEW times,
             [how |-> how, status |-> status, times |-> times] \in Endings,
             End(r, from, how, status, times)
      PROVE  RequestMoves /\ UNCHANGED vars
  <2>. DEFINE e == [how |-> how, status |-> status, times |-> times]
  <2>1. e \in Endings /\ e.how = how /\ e.status = status /\ e.times = times
    BY <1>2
  <2>. HIDE DEF e
  <2>2. End(r, from, e.how, e.status, e.times)
    BY <1>2, <2>1
  <2>. QED
    BY <2>1, <2>2, EndMoves
<1>3. /\ [how |-> "answered", status |-> "success", times |-> 1] \in Endings
      /\ [how |-> "unnoticed", status |-> "success", times |-> 1] \in Endings
      /\ [how |-> "refused", status |-> "error", times |-> 1] \in Endings
      /\ [how |-> "failed", status |-> "error", times |-> 1] \in Endings
      /\ [how |-> "malformed", status |-> "error", times |-> 1] \in Endings
      /\ [how |-> "broken", status |-> "error", times |-> 2] \in Endings
      /\ [how |-> "unreadable", status |-> "success", times |-> 1] \in Endings
      /\ [how |-> "abandoned", status |-> "error", times |-> 0] \in Endings
      /\ [how |-> "raised", status |-> "error", times |-> 0] \in Endings
  BY DEF Endings, Unreported
<1>4. "posted" \in InFlight /\ "opening" \in InFlight /\ "streaming" \in InFlight
  BY DEF InFlight
<1>5. CASE Post(r)
  BY <1>2, <1>3, <1>4, <1>5 DEF Post
<1>6. CASE Open(r)
  <2>1. req[r] \in Sent
    BY <1>6, SentFields DEF Open, InFlight
  <2>2. [req[r] EXCEPT !.at = "streaming"] = [at |-> "streaming", to |-> req[r].to]
    BY <2>1 DEF Sent
  <2>3. Opens(r)
    BY <1>6, <2>2 DEF Open, Opens
  <2>. QED
    BY <1>6, <2>3 DEF Open, RequestMoves
<1>7. CASE Stream(r)
  BY <1>2, <1>3, <1>4, <1>7 DEF Stream
<1>8. CASE Abandon(r)
  BY <1>2, <1>3, <1>4, <1>8 DEF Abandon
<1>. QED
  BY <1>1, <1>5, <1>6, <1>7, <1>8

LEMMA RequestsTypedStep ==
  ASSUME RequestsTyped, RequestMoves
  PROVE  RequestsTyped'
<1>1. PICK r \in Requests :
        \/ \E m \in Targets, how \in {"opening", "posted"} : Arrives(r, m, how)
        \/ Opens(r)
        \/ \E from \in InFlight, e \in Endings : Ends(r, from, e.how, e.status, e.times)
  BY DEF RequestMoves
<1>2. ASSUME NEW m \in Targets, NEW how \in {"opening", "posted"}, Arrives(r, m, how)
      PROVE  RequestsTyped'
  <2>1. [at |-> how, to |-> m] \in Sent
    BY DEF Sent, InFlight
  <2>2. Label[m] \in Labels
    BY DEF Labels
  <2>. QED
    BY <1>2, <2>1, <2>2 DEF Arrives, RequestsTyped
<1>3. CASE Opens(r)
  <2>1. [at |-> "streaming", to |-> req[r].to] \in Sent
    BY <1>3, SentFields DEF Opens, Sent, InFlight
  <2>. QED
    BY <1>3, <2>1 DEF Opens, RequestsTyped
<1>4. ASSUME NEW from \in InFlight, NEW e \in Endings, Ends(r, from, e.how, e.status, e.times)
      PROVE  RequestsTyped'
  <2>1. e.how \in Ended /\ e.times \in Int
    BY DEF Endings, Ended, Unreported
  <2>2. req[r].to \in Targets /\ LabelOf(r) \in Labels
    BY <1>4, SentFields DEF Ends
  <2>3. [at |-> e.how, to |-> req[r].to] \in Sent
    BY <2>1, <2>2 DEF Sent
  <2>. QED
    BY <1>4, <2>1, <2>2, <2>3 DEF Ends, RequestsTyped
<1>. QED
  BY <1>1, <1>2, <1>3, <1>4

LEMMA ServingMoves ==
  ASSUME RequestsTyped, [ServingNext]_servingVars
  PROVE  \/ [Next]_vars /\ UNCHANGED requestVars
         \/ RequestMoves /\ UNCHANGED vars
BY RequestsMove DEF ServingNext, servingVars

ServingInv == CanaryInv /\ RequestsTyped

LEMMA ServingStarts == ServingInit => ServingInv
<1>. SUFFICES ASSUME ServingInit PROVE ServingInv
  OBVIOUS
<1>1. RequestsTyped
  BY DEF ServingInit, RequestsTyped
<1>. QED
  BY <1>1, CanaryInit DEF ServingInit, ServingInv

LEMMA ServingStep == ServingInv /\ [ServingNext]_servingVars => ServingInv'
<1>. SUFFICES ASSUME ServingInv, [ServingNext]_servingVars PROVE ServingInv'
  OBVIOUS
<1>1. CASE [Next]_vars /\ UNCHANGED requestVars
  BY <1>1, CanaryStep DEF ServingInv, RequestsTyped, requestVars
<1>2. CASE RequestMoves /\ UNCHANGED vars
  BY <1>2, CanaryStep, RequestsTypedStep DEF ServingInv
<1>. QED
  BY <1>1, <1>2, ServingMoves DEF ServingInv

LEMMA AlwaysServing == ServingSpec => []ServingInv
BY ServingStarts, ServingStep, PTL DEF ServingSpec

\* Handlers, supervisors and requests are always where the code can be, and rows,
\* tables and metrics what it writes, for any number of them all.
THEOREM ServingTyped == ServingSpec => []ServingTypeOK
<1>1. ServingInv => ServingTypeOK
  BY DEF ServingInv, CanaryInv, RequestsTyped, ServingTypeOK, Sent
<1>. QED
  BY <1>1, AlwaysServing, PTL
-----------------------------------------------------------------------------
(***************************************************************************)
(* The accounts: a step of one request changes each count by that request. *)
(***************************************************************************)
LEMMA CountStep ==
  ASSUME NEW r \in Requests, \A u \in Requests : u # r => req'[u] = req[u], NEW l, NEW S
  PROVE  /\ Count(l, S) \in Nat /\ Count(l, S)' \in Nat
         /\ Count(l, S)' = Count(l, S) - Counts(r, l, S) + Counts(r, l, S)'
<1>. DEFINE A == {u \in Requests : req[u].at \in S /\ Label[req[u].to] = l}
            B == {u \in Requests : req'[u].at \in S /\ Label[req'[u].to] = l}
<1>1. IsFiniteSet(A) /\ IsFiniteSet(B)
  BY ServingAssumption, FS_Subset
<1>2. Count(l, S) = Cardinality(A) /\ Count(l, S)' = Cardinality(B)
  BY DEF Count
<1>3. Cardinality(A) \in Nat /\ Cardinality(B) \in Nat
  BY <1>1, FS_CardinalityType
<1>4. /\ Counts(r, l, S) = IF r \in A THEN 1 ELSE 0
      /\ Counts(r, l, S)' = IF r \in B THEN 1 ELSE 0
  BY DEF Counts, LabelOf
<1>5. A \ {r} = B \ {r}
  OBVIOUS
<1>. HIDE DEF A, B
<1>6. /\ Cardinality(A \ {r}) = IF r \in A THEN Cardinality(A) - 1 ELSE Cardinality(A)
      /\ Cardinality(B \ {r}) = IF r \in B THEN Cardinality(B) - 1 ELSE Cardinality(B)
  BY <1>1, FS_RemoveElement
<1>. QED
  BY <1>2, <1>3, <1>4, <1>5, <1>6

LEMMA GaugeStep ==
  ASSUME RequestsTyped, GaugeAccount, RequestMoves
  PROVE  GaugeAccount'
<1>1. PICK r \in Requests :
        \/ \E m \in Targets, how \in {"opening", "posted"} : Arrives(r, m, how)
        \/ Opens(r)
        \/ \E from \in InFlight, e \in Endings : Ends(r, from, e.how, e.status, e.times)
  BY DEF RequestMoves
<1>2. \A u \in Requests : u # r => req'[u] = req[u]
  BY <1>1 DEF Arrives, Opens, Ends, RequestsTyped
<1>. SUFFICES ASSUME NEW l \in Labels
              PROVE  gauge'[l] = Count(l, InFlight)' + Count(l, Unreported)'
                                   - Count(l, {"broken"})'
  BY DEF GaugeAccount
<1>. DEFINE f == Counts(r, l, InFlight)
            a == Counts(r, l, Unreported)
            b == Counts(r, l, {"broken"})
<1>3. /\ Count(l, InFlight) \in Nat /\ Count(l, Unreported) \in Nat
      /\ Count(l, {"broken"}) \in Nat
      /\ Count(l, InFlight)' = Count(l, InFlight) - f + f'
      /\ Count(l, Unreported)' = Count(l, Unreported) - a + a'
      /\ Count(l, {"broken"})' = Count(l, {"broken"}) - b + b'
  BY <1>2, CountStep
<1>4. /\ gauge[l] \in Int
      /\ gauge[l] = Count(l, InFlight) + Count(l, Unreported) - Count(l, {"broken"})
  BY DEF GaugeAccount, RequestsTyped
<1>5. gauge'[l] \in Int /\ gauge'[l] - gauge[l] = (f' - f) + (a' - a) - (b' - b)
  <2>1. ASSUME NEW n \in Targets, NEW how \in {"opening", "posted"}, Arrives(r, n, how)
        PROVE  gauge'[l] \in Int /\ gauge'[l] - gauge[l] = (f' - f) + (a' - a) - (b' - b)
    <3>1. f = 0 /\ a = 0 /\ b = 0
      BY <2>1 DEF Arrives, Counts, InFlight, Unreported
    <3>2. req'[r] = [at |-> how, to |-> n]
      BY <2>1 DEF Arrives, RequestsTyped
    <3>3. f' = (IF l = Label[n] THEN 1 ELSE 0) /\ a' = 0 /\ b' = 0
      BY <3>2 DEF Counts, LabelOf, InFlight, Unreported
    <3>4. gauge'[l] = IF l = Label[n] THEN gauge[l] + 1 ELSE gauge[l]
      BY <2>1 DEF Arrives, RequestsTyped
    <3>. QED
      BY <1>4, <3>1, <3>3, <3>4
  <2>2. CASE Opens(r)
    <3>1. req'[r] = [at |-> "streaming", to |-> req[r].to] /\ req[r].at = "opening"
      BY <2>2 DEF Opens, RequestsTyped
    <3>2. f' = f /\ a' = 0 /\ a = 0 /\ b' = 0 /\ b = 0 /\ f \in {0, 1}
      BY <3>1 DEF Counts, LabelOf, InFlight, Unreported
    <3>3. gauge'[l] = gauge[l]
      BY <2>2 DEF Opens
    <3>. QED
      BY <1>4, <3>2, <3>3
  <2>3. ASSUME NEW from \in InFlight, NEW e \in Endings, Ends(r, from, e.how, e.status, e.times)
        PROVE  gauge'[l] \in Int /\ gauge'[l] - gauge[l] = (f' - f) + (a' - a) - (b' - b)
    <3>. DEFINE mine == l = LabelOf(r)
    <3>1. req'[r] = [at |-> e.how, to |-> req[r].to] /\ req[r].at \in InFlight
      BY <2>3 DEF Ends, RequestsTyped
    <3>2. f = (IF mine THEN 1 ELSE 0) /\ a = 0 /\ b = 0
      BY <3>1 DEF Counts, LabelOf, InFlight, Unreported
    <3>3. /\ e.how \notin InFlight /\ e.times \in 0..2
          /\ e.how = "broken" => e.how \notin Unreported
          /\ e.times = (IF e.how \in Unreported THEN 0 ELSE IF e.how = "broken" THEN 2 ELSE 1)
      BY DEF Endings, InFlight, Unreported
    <3>4. /\ f' = 0
          /\ a' = (IF mine /\ e.how \in Unreported THEN 1 ELSE 0)
          /\ b' = (IF mine /\ e.how = "broken" THEN 1 ELSE 0)
      BY <3>1, <3>3 DEF Counts, LabelOf, Unreported
    <3>5. gauge'[l] = IF mine THEN gauge[l] - e.times ELSE gauge[l]
      BY <2>3 DEF Ends, RequestsTyped
    <3>. QED
      BY <1>4, <3>2, <3>3, <3>4, <3>5
  <2>. QED
    BY <1>1, <2>1, <2>2, <2>3
<1>6. f \in {0, 1} /\ a \in {0, 1} /\ b \in {0, 1} /\ f' \in {0, 1} /\ a' \in {0, 1} /\ b' \in {0, 1}
  BY DEF Counts
<1>7. f \in Int /\ a \in Int /\ b \in Int /\ f' \in Int /\ a' \in Int /\ b' \in Int
  BY <1>6
<1>. HIDE DEF f, a, b
<1>. DEFINE cf == Count(l, InFlight)
            ca == Count(l, Unreported)
            cb == Count(l, {"broken"})
<1>8. /\ cf' = cf - f + f' /\ ca' = ca - a + a' /\ cb' = cb - b + b'
      /\ cf \in Int /\ ca \in Int /\ cb \in Int /\ gauge[l] = cf + ca - cb
  BY <1>3, <1>4
<1>. HIDE DEF cf, ca, cb
<1>9. gauge'[l] = cf' + ca' - cb'
  <2>1. cf' + ca' - cb' = (cf + ca - cb) + ((f' - f) + (a' - a) - (b' - b))
    BY <1>7, <1>8
  <2>2. gauge'[l] = gauge[l] + ((f' - f) + (a' - a) - (b' - b))
    BY <1>4, <1>5, <1>7
  <2>. QED
    BY <1>8, <2>1, <2>2
<1>. QED
  BY <1>9 DEF cf, ca, cb

LEMMA TotalStep ==
  ASSUME RequestsTyped, TotalAccount, RequestMoves
  PROVE  TotalAccount'
<1>1. PICK r \in Requests :
        \/ \E m \in Targets, how \in {"opening", "posted"} : Arrives(r, m, how)
        \/ Opens(r)
        \/ \E from \in InFlight, e \in Endings : Ends(r, from, e.how, e.status, e.times)
  BY DEF RequestMoves
<1>2. \A u \in Requests : u # r => req'[u] = req[u]
  BY <1>1 DEF Arrives, Opens, Ends, RequestsTyped
<1>. DEFINE Once == {"refused", "failed", "malformed"}
            Good == {"answered", "unreadable", "unnoticed"}
<1>. SUFFICES ASSUME NEW l \in Labels
              PROVE  /\ total'[l].error = Count(l, Once)' + 2 * Count(l, {"broken"})'
                     /\ total'[l].success = Count(l, Good)'
  BY DEF TotalAccount
<1>. DEFINE o == Counts(r, l, Once)
            b == Counts(r, l, {"broken"})
            g == Counts(r, l, Good)
<1>3. /\ Count(l, Once) \in Nat /\ Count(l, {"broken"}) \in Nat /\ Count(l, Good) \in Nat
      /\ Count(l, Once)' = Count(l, Once) - o + o'
      /\ Count(l, {"broken"})' = Count(l, {"broken"}) - b + b'
      /\ Count(l, Good)' = Count(l, Good) - g + g'
  BY <1>2, CountStep
<1>4. /\ total[l].error \in Nat /\ total[l].success \in Nat
      /\ total[l].error = Count(l, Once) + 2 * Count(l, {"broken"})
      /\ total[l].success = Count(l, Good)
  BY DEF TotalAccount, RequestsTyped
<1>. DEFINE Grows == /\ total'[l].error = total[l].error + o' + 2 * b'
                     /\ total'[l].success = total[l].success + g'
<1>5. o = 0 /\ b = 0 /\ g = 0 /\ Grows
  <2>1. CASE total' = total /\ req[r].at \in {"new", "opening"} /\ req'[r].at \in InFlight
    <3>1. o = 0 /\ b = 0 /\ g = 0 /\ o' = 0 /\ b' = 0 /\ g' = 0
      BY <2>1 DEF Counts, InFlight, Unreported
    <3>. QED
      BY <1>4, <2>1, <3>1
  <2>2. ASSUME NEW n \in Targets, NEW how \in {"opening", "posted"}, Arrives(r, n, how)
        PROVE  o = 0 /\ b = 0 /\ g = 0 /\ Grows
    <3>1. total' = total /\ req[r].at = "new" /\ req'[r].at \in InFlight
      BY <2>2 DEF Arrives, RequestsTyped, InFlight
    <3>. QED
      BY <2>1, <3>1
  <2>3. CASE Opens(r)
    <3>1. total' = total /\ req[r].at = "opening" /\ req'[r].at \in InFlight
      BY <2>3 DEF Opens, RequestsTyped, InFlight
    <3>. QED
      BY <2>1, <3>1
  <2>4. ASSUME NEW from \in InFlight, NEW e \in Endings, Ends(r, from, e.how, e.status, e.times)
        PROVE  o = 0 /\ b = 0 /\ g = 0 /\ Grows
    <3>. DEFINE mine == l = LabelOf(r)
    <3>1. req'[r] = [at |-> e.how, to |-> req[r].to] /\ req[r].at \in InFlight
      BY <2>4 DEF Ends, RequestsTyped
    <3>2. o = 0 /\ b = 0 /\ g = 0
      BY <3>1 DEF Counts, LabelOf, InFlight, Unreported
    <3>3. /\ o' = (IF mine /\ e.how \in Once THEN 1 ELSE 0)
          /\ b' = (IF mine /\ e.how = "broken" THEN 1 ELSE 0)
          /\ g' = (IF mine /\ e.how \in Good THEN 1 ELSE 0)
      BY <3>1 DEF Counts, LabelOf
    <3>4. /\ e.times \in 0..2
          /\ e.status = "error" =>
               e.times = (IF e.how \in Once THEN 1 ELSE 0) + 2 * (IF e.how = "broken" THEN 1 ELSE 0)
          /\ e.status = "error" => e.how \notin Good
          /\ e.status = "success" => e.times = 1 /\ e.how \in Good
          /\ e.status \in {"error", "success"}
      BY DEF Endings, Unreported
    <3>5. /\ total'[l].error = total[l].error + IF mine /\ e.status = "error" THEN e.times ELSE 0
          /\ total'[l].success
               = total[l].success + IF mine /\ e.status = "success" THEN e.times ELSE 0
      BY <2>4 DEF Ends
    <3>6. Grows
      BY <1>4, <3>3, <3>4, <3>5
    <3>. QED
      BY <3>2, <3>6
  <2>. QED
    BY <1>1, <2>2, <2>3, <2>4
<1>6. o' \in {0, 1} /\ b' \in {0, 1} /\ g' \in {0, 1}
  BY DEF Counts
<1>. HIDE DEF o, b, g, Once, Good
<1>. QED
  BY <1>3, <1>4, <1>5, <1>6

LEMMA NothingCounted ==
  ASSUME ServingInit, NEW l, NEW S, "new" \notin S
  PROVE  Count(l, S) = 0
<1>1. {r \in Requests : req[r].at \in S /\ Label[req[r].to] = l} = {}
  BY DEF ServingInit
<1>. QED
  BY <1>1, FS_EmptySet DEF Count

\* The gauge is out by the streams abandoned, the exceptions that the proxy does not
\* expect and the streams that broke, and by nothing else, however many requests
\* there are, whichever versions share a label and whatever the canary does.
THEOREM GaugeIsAccounted == ServingSpec => []GaugeAccount
<1>1. ServingInit => GaugeAccount
  BY NothingCounted DEF ServingInit, GaugeAccount, InFlight, Unreported
<1>2. ServingInv /\ GaugeAccount /\ [ServingNext]_servingVars => GaugeAccount'
  <2>. SUFFICES ASSUME ServingInv, GaugeAccount, [ServingNext]_servingVars PROVE GaugeAccount'
    OBVIOUS
  <2>1. CASE UNCHANGED requestVars
    BY <2>1 DEF requestVars, GaugeAccount, Count
  <2>. QED
    BY <2>1, ServingMoves, GaugeStep DEF ServingInv
<1>. QED
  BY <1>1, <1>2, AlwaysServing, PTL DEF ServingSpec

\* And the totals count what TotalAccount says.
THEOREM TotalIsAccounted == ServingSpec => []TotalAccount
<1>1. ServingInit => TotalAccount
  <2>. SUFFICES ASSUME ServingInit, NEW l \in Labels
                PROVE  /\ total[l].error = Count(l, {"refused", "failed", "malformed"})
                                             + 2 * Count(l, {"broken"})
                       /\ total[l].success = Count(l, {"answered", "unreadable", "unnoticed"})
    BY DEF TotalAccount
  <2>1. /\ Count(l, {"refused", "failed", "malformed"}) = 0 /\ Count(l, {"broken"}) = 0
        /\ Count(l, {"answered", "unreadable", "unnoticed"}) = 0
    BY NothingCounted
  <2>. QED
    BY <2>1 DEF ServingInit
<1>2. ServingInv /\ TotalAccount /\ [ServingNext]_servingVars => TotalAccount'
  <2>. SUFFICES ASSUME ServingInv, TotalAccount, [ServingNext]_servingVars PROVE TotalAccount'
    OBVIOUS
  <2>1. CASE UNCHANGED requestVars
    BY <2>1 DEF requestVars, TotalAccount, Count
  <2>. QED
    BY <2>1, ServingMoves, TotalStep DEF ServingInv
<1>. QED
  BY <1>1, <1>2, AlwaysServing, PTL DEF ServingSpec
-----------------------------------------------------------------------------
(***************************************************************************)
(* One deployment, whose calls come one after the other.  Handlers then    *)
(* act on the row as it is; supervisors never write it, and only ever      *)
(* route back.  So the table is still as nobody has written it, or a split *)
(* of the deployment that gives v2 no more than the row's stage.           *)
(***************************************************************************)
OneDeployment == \A d, e \in Deployments : d = e
OneCaller == \A t, u \in Callers : t = u

\* The stage whose split may be in force.
StageIn(x) == IF x = NoRow THEN 1 ELSE x.stage
Stage(d) == StageIn(row[d])

\* v2 has been, or has to be, out of the table.
Back(d) ==
  \/ row[d].status = "ROLLED_BACK"
  \/ \E t \in Callers : task[t].pc = "routed"

Untouched(d) ==
  table = EmptyTable /\ row[d] = NoRow /\ \A t \in Callers : task[t].pc # "starting"
Within(d) ==
  \E p \in Percents : /\ table = SetSplit(Split(d, p)) /\ p <= Stages[Stage(d)]
                      /\ Back(d) => p = 0

UpToDate ==
  \A t \in Callers :
    /\ task[t].pc = "starting" => row[task[t].d] = NoRow
    /\ task[t].pc = "read" => task[t].seen = row[task[t].d]
    /\ task[t].pc = "advanced" => /\ row[task[t].d].stage = task[t].stage
                                  /\ row[task[t].d].status # "ROLLED_BACK"
    /\ task[t].pc \in AtWork => row[task[t].d] # NoRow

RouteInv == CanaryInv /\ UpToDate /\ \A d \in Deployments : Untouched(d) \/ Within(d)

LEMMA StageTyped ==
  ASSUME NEW x \in {NoRow} \cup Row
  PROVE  /\ StageIn(x) \in 1..Len(Stages)
         /\ Stages[StageIn(x)] \in Percents /\ 0 <= Stages[StageIn(x)]
<1>1. StageIn(x) \in 1..Len(Stages)
  <2>1. CASE x = NoRow
    BY <2>1, StagesTyped DEF StageIn
  <2>2. CASE x # NoRow
    BY <2>2, RowFields DEF StageIn
  <2>. QED
    BY <2>1, <2>2
<1>2. Stages[StageIn(x)] \in 1..100
  BY <1>1, StagesTyped
<1>3. \A n \in 1..100 : n \in 0..100 /\ 0 <= n
  OBVIOUS
<1>. QED
  BY <1>1, <1>2, <1>3 DEF Percents

LEMMA AloneGoes ==
  ASSUME OneCaller, CanaryInv, NEW t \in Callers, NEW to, Goto(t, to)
  PROVE  \A u \in Callers : u = t /\ task'[u] = to
<1>1. t \in DOMAIN task
  BY CallersDiffer DEF CanaryInv, TasksOK
<1>. QED
  BY <1>1 DEF OneCaller, Goto, CanaryInv, TasksOK

LEMMA SupervisorGoesAlone ==
  ASSUME CanaryInv, NEW s \in Supervisors, NEW to, Goto(s, to)
  PROVE  \A u \in Callers : task'[u] = task[u]
BY CallersDiffer DEF Goto, CanaryInv, TasksOK

\* A step after which the table is a split that the row allows.
LEMMA WithinAgain ==
  ASSUME OneDeployment, NEW d \in Deployments, NEW p \in Percents,
         table' = SetSplit(Split(d, p)), p <= Stages[Stage(d)'], Back(d)' => p = 0
  PROVE  \A e \in Deployments : Untouched(e)' \/ Within(e)'
BY DEF OneDeployment, Within

LEMMA RouteInit == Init => RouteInv
<1>. SUFFICES ASSUME Init PROVE RouteInv
  OBVIOUS
<1>1. \A t \in Callers : task[t].pc = "idle"
  BY DEF Init, Idle
<1>. QED
  BY <1>1, CanaryInit DEF Init, RouteInv, UpToDate, Untouched, AtWork

\* A caller's step that leaves the table and the row alone and does not start.
LEMMA CallerKeeps ==
  ASSUME OneCaller, RouteInv, NEW t \in Callers, NEW to, Goto(t, to),
         UNCHANGED <<table, row>>, to.pc # "starting",
         to.pc = "routed" => \A d \in Deployments : Within(d) /\ table = SetSplit(Split(d, 0))
  PROVE  \A d \in Deployments : Untouched(d)' \/ Within(d)'
<1>1. \A u \in Callers : u = t /\ task'[u] = to
  BY AloneGoes DEF RouteInv
<1>. SUFFICES ASSUME NEW d \in Deployments PROVE Untouched(d)' \/ Within(d)'
  OBVIOUS
<1>2. CASE Untouched(d)
  BY <1>1, <1>2 DEF Untouched
<1>3. CASE Within(d) /\ to.pc # "routed"
  <2>1. Back(d)' => Back(d)
    BY <1>1, <1>3 DEF Back
  <2>2. Stage(d)' = Stage(d)
    BY DEF Stage
  <2>. QED
    BY <1>3, <2>1, <2>2 DEF Within
<1>4. CASE to.pc = "routed"
  <2>1. Stage(d)' = Stage(d) /\ 0 \in Percents
    BY DEF Stage, Percents
  <2>2. 0 <= Stages[Stage(d)]
    BY StageTyped DEF Stage, RouteInv, CanaryInv, CanaryTypeOK
  <2>. QED
    BY <1>4, <2>1, <2>2 DEF Within
<1>. QED
  BY <1>2, <1>3, <1>4 DEF RouteInv

\* A step that routes everything to v1.
LEMMA RoutedBack ==
  ASSUME OneDeployment, RouteInv, CanaryInv', NEW d \in Deployments,
         table' = SetSplit(RollbackSplit(d))
  PROVE  \A e \in Deployments : Untouched(e)' \/ Within(e)'
<1>1. 0 <= Stages[Stage(d)'] /\ 0 \in Percents
  <2>1. row'[d] \in {NoRow} \cup Row
    BY DEF CanaryInv, CanaryTypeOK
  <2>. QED
    BY <2>1, StageTyped DEF Stage, Percents
<1>. QED
  BY <1>1, WithinAgain DEF RollbackSplit

LEMMA RollsBackRoute ==
  ASSUME OneDeployment, OneCaller, RouteInv, CanaryInv', UNCHANGED row,
         NEW t \in Tasks, RollsBack(t),
         task[t].d \in Deployments, t \in Callers => task[t].pc \in AtWork
  PROVE  RouteInv'
<1>. DEFINE d == task[t].d
<1>1. CASE t \in Supervisors
  <2>1. \A u \in Callers : task'[u] = task[u]
    BY <1>1, SupervisorGoesAlone DEF RollsBack, RouteInv
  <2>2. UpToDate'
    BY <2>1 DEF RouteInv, UpToDate
  <2>3. CASE table' = SetSplit(RollbackSplit(d))
    BY <2>2, <2>3, RoutedBack DEF RouteInv
  <2>4. CASE table' = table
    <3>1. \A e \in Deployments : Untouched(e)' \/ Within(e)'
      BY <2>1, <2>4 DEF RouteInv, Untouched, Within, Back, Stage
    <3>. QED
      BY <2>2, <3>1 DEF RouteInv
  <2>. QED
    BY <2>3, <2>4 DEF RollsBack
<1>2. CASE t \in Callers
  <2>1. table' = table
    BY <1>2, CallersDiffer DEF RollsBack
  <2>2. PICK to \in {[pc |-> "drained", d |-> d], [pc |-> "draining", d |-> d], Idle} : Goto(t, to)
    BY <1>2, CallersDiffer DEF RollsBack
  <2>3. /\ to.pc \notin {"starting", "read", "advanced", "routed"}
        /\ to.pc \in AtWork => to.d = d
    BY DEF Idle, AtWork
  <2>4. \A u \in Callers : u = t /\ task'[u] = to
    BY <1>2, <2>2, AloneGoes DEF RouteInv
  <2>5. row'[d] # NoRow
    BY <1>2 DEF RouteInv, UpToDate
  <2>6. UpToDate'
    BY <2>3, <2>4, <2>5 DEF UpToDate
  <2>7. \A e \in Deployments : Untouched(e)' \/ Within(e)'
    BY <1>2, <2>1, <2>2, <2>3, CallerKeeps
  <2>. QED
    BY <2>6, <2>7 DEF RouteInv
<1>. QED
  BY <1>1, <1>2 DEF Tasks

\* The columns that a handler's UPDATE leaves and sets.
LEMMA RowOf ==
  ASSUME RouteInv, NEW d \in Deployments, row[d] # NoRow
  PROVE  /\ row[d] \in Row
         /\ \A status \in {"COMPLETED", "ROLLED_BACK"} :
              row' = [row EXCEPT ![d].status = status] =>
                row'[d] # NoRow /\ row'[d].status = status /\ Stage(d)' = Stage(d)
         /\ \A i \in 1..Len(Stages) :
              row' = [row EXCEPT ![d].stage = i] =>
                row'[d] # NoRow /\ row'[d].status = row[d].status
                /\ row'[d].stage = i /\ Stage(d)' = i
<1>1. row[d] \in Row /\ row \in [Deployments -> {NoRow} \cup Row]
  BY DEF RouteInv, CanaryInv, CanaryTypeOK
<1>2. ASSUME NEW status \in {"COMPLETED", "ROLLED_BACK"}, row' = [row EXCEPT ![d].status = status]
      PROVE  row'[d] # NoRow /\ row'[d].status = status /\ Stage(d)' = Stage(d)
  <2>1. row'[d] = [row[d] EXCEPT !.status = status]
    BY <1>1, <1>2
  <2>. DEFINE x == row[d]
  <2>2. x \in Row /\ row'[d] = [x EXCEPT !.status = status]
    BY <1>1, <2>1
  <2>. HIDE DEF x
  <2>3. row'[d] \in Row /\ row'[d].status = status /\ row'[d].stage = x.stage
    BY <2>2 DEF Row
  <2>4. row'[d] # NoRow /\ x # NoRow
    BY <2>2, <2>3, RowFields
  <2>. QED
    BY <2>3, <2>4 DEF Stage, StageIn, x
<1>3. ASSUME NEW i \in 1..Len(Stages), row' = [row EXCEPT ![d].stage = i]
      PROVE  row'[d] # NoRow /\ row'[d].status = row[d].status
             /\ row'[d].stage = i /\ Stage(d)' = i
  <2>1. row'[d] = [row[d] EXCEPT !.stage = i]
    BY <1>1, <1>3
  <2>. DEFINE x == row[d]
  <2>2. x \in Row /\ row'[d] = [x EXCEPT !.stage = i]
    BY <1>1, <2>1
  <2>. HIDE DEF x
  <2>3. row'[d] \in Row /\ row'[d].status = x.status /\ row'[d].stage = i
    BY <2>2 DEF Row
  <2>4. row'[d] # NoRow
    BY <2>3, RowFields
  <2>. QED
    BY <2>3, <2>4 DEF Stage, StageIn, x
<1>. QED
  BY <1>1, <1>2, <1>3

LEMMA RouteStep ==
  ASSUME OneDeployment, OneCaller, RouteInv, [Next]_vars
  PROVE  RouteInv'
<1>0. /\ CanaryInv /\ CanaryInv' /\ UpToDate
      /\ \A d \in Deployments : Untouched(d) \/ Within(d)
      /\ \A t \in Callers : task[t] \in HandlerState
      /\ \A s \in Supervisors : task[s] \in SupervisorState
  BY CanaryStep DEF RouteInv, CanaryInv, TasksOK
<1>. DEFINE Goal == UpToDate' /\ \A d \in Deployments : Untouched(d)' \/ Within(d)'
<1>1. ASSUME NEW t \in Callers, Goto(t, Idle), UNCHANGED <<table, row>>
      PROVE  Goal
  <2>1. /\ \A u \in Callers : task'[u] = Idle
        /\ Idle.pc = "idle"
    BY <1>0, <1>1, AloneGoes DEF Idle
  <2>2. \A d \in Deployments : Untouched(d)' \/ Within(d)'
    BY <1>1, <2>1, CallerKeeps
  <2>3. UpToDate'
    BY <2>1 DEF UpToDate, AtWork
  <2>. QED
    BY <2>2, <2>3
<1>2. ASSUME NEW t \in Callers, NEW d \in Deployments, Start(t, d)
      PROVE  Goal
  <2>1. PICK p \in Percents : p <= Stages[1] /\ table' = SetSplit(Split(d, p))
    <3>1. 1 \in 1..Len(Stages)
      BY StagesTyped
    <3>. QED
      BY <1>2, <3>1, StageSplitIs DEF Start
  <2>2. /\ \A u \in Callers : task'[u] = [pc |-> "starting", d |-> d]
        /\ row' = row /\ row[d] = NoRow
    BY <1>0, <1>2, AloneGoes DEF Start
  <2>3. Stage(d)' = 1 /\ ~Back(d)'
    BY <2>2 DEF Stage, StageIn, Back, NoRow
  <2>4. UpToDate'
    BY <2>2 DEF UpToDate, AtWork
  <2>. QED
    BY <2>1, <2>3, <2>4, WithinAgain
<1>3. ASSUME NEW t \in Callers, CommitStart(t)
      PROVE  Goal
  <2>1. PICK d \in Deployments : d = task[t].d /\ row[d] = NoRow
    BY <1>0, <1>3, HandlerFields DEF CommitStart, UpToDate
  <2>2. row'[d] = [status |-> "IN_PROGRESS", stage |-> 1] /\ table' = table
    BY <1>0, <1>3, <2>1 DEF CommitStart, CanaryInv, CanaryTypeOK
  <2>3. \A u \in Callers : task'[u] = Idle
    BY <1>0, <1>3, AloneGoes DEF CommitStart
  <2>4. UpToDate'
    BY <2>3 DEF UpToDate, Idle, AtWork
  <2>5. PICK p \in Percents : table = SetSplit(Split(d, p)) /\ p <= Stages[1]
    BY <1>0, <1>3, <2>1 DEF CommitStart, Untouched, Within, Stage, StageIn
  <2>6. Stage(d)' = 1 /\ ~Back(d)'
    BY <2>2, <2>3 DEF Stage, StageIn, NoRow, Back, Idle
  <2>. QED
    BY <2>1, <2>2, <2>4, <2>5, <2>6, WithinAgain
<1>4. ASSUME NEW t \in Callers, NEW d \in Deployments, NEW op \in {"advance", "rollback"},
             Read(t, d, op)
      PROVE  Goal
  <2>. DEFINE to == [pc |-> "read", d |-> d, op |-> op, seen |-> row[d]]
  <2>1. Goto(t, to) /\ UNCHANGED <<table, row>> /\ row[d] # NoRow
    BY <1>4 DEF Read
  <2>2. to.pc = "read" /\ to.d = d /\ to.seen = row[d]
    OBVIOUS
  <2>. HIDE DEF to
  <2>3. \A u \in Callers : task'[u] = to
    BY <1>0, <2>1, AloneGoes
  <2>4. UpToDate'
    BY <2>1, <2>2, <2>3 DEF UpToDate
  <2>5. \A e \in Deployments : Untouched(e)' \/ Within(e)'
    BY <2>1, <2>2, CallerKeeps
  <2>. QED
    BY <2>4, <2>5
<1>5. ASSUME NEW t \in Callers, CommitAdvance(t)
      PROVE  Goal
  <2>0. PICK d, stage : d = task[t].d /\ stage = task[t].seen.stage
    OBVIOUS
  <2>1. task[t].pc = "read" /\ task[t].seen.status = "IN_PROGRESS" /\ table' = table
    BY <1>5 DEF CommitAdvance, Proceeds
  <2>2. d \in Deployments /\ row[d] # NoRow /\ task[t].seen = row[d]
    BY <1>0, <2>0, <2>1, HandlerFields DEF UpToDate, AtWork
  <2>3. row[d] \in Row /\ Stage(d) = stage /\ stage \in 1..Len(Stages)
    BY <2>0, <2>2, RowOf, RowFields DEF Stage, StageIn
  <2>4. PICK p \in Percents : table = SetSplit(Split(d, p)) /\ p <= Stages[stage]
    BY <1>0, <2>2, <2>3 DEF Untouched, Within
  <2>5. CASE row' = [row EXCEPT ![d].status = "COMPLETED"] /\ Goto(t, Idle)
    <3>1. row'[d].status = "COMPLETED" /\ Stage(d)' = stage
      BY <2>2, <2>3, <2>5, RowOf
    <3>2. \A u \in Callers : task'[u] = Idle
      BY <1>0, <2>5, AloneGoes
    <3>3. UpToDate' /\ ~Back(d)'
      BY <3>1, <3>2 DEF UpToDate, Back, Idle, AtWork
    <3>. QED
      BY <2>1, <2>2, <2>4, <3>1, <3>3, WithinAgain
  <2>6. CASE /\ ~IsLast(stage) /\ row' = [row EXCEPT ![d].stage = stage + 1]
             /\ Goto(t, [pc |-> "advanced", d |-> d, stage |-> stage + 1])
    <3>. DEFINE to == [pc |-> "advanced", d |-> d, stage |-> stage + 1]
    <3>0. stage \in 1..Len(Stages) - 1 /\ stage + 1 \in 1..Len(Stages)
      BY <2>3, <2>6, StagesTyped DEF IsLast
    <3>1. /\ stage + 1 \in 1..Len(Stages) /\ Stages[stage] <= Stages[stage + 1]
          /\ Stages[stage] \in Int /\ Stages[stage + 1] \in Int /\ p \in Int
      <4>1. Stages[stage] <= Stages[stage + 1]
        BY <3>0, CanaryAssumption DEF ValidStages
      <4>2. Stages[stage] \in 1..100 /\ Stages[stage + 1] \in 1..100
        BY <2>3, <3>0, StagesTyped
      <4>3. p \in Int /\ \A n \in 1..100 : n \in Int
        BY DEF Percents
      <4>. QED
        BY <3>0, <4>1, <4>2, <4>3
    <3>2. /\ row'[d] # NoRow /\ row'[d].status = row[d].status /\ row'[d].stage = stage + 1
          /\ Stage(d)' = stage + 1
      BY <2>2, <2>6, <3>1, RowOf
    <3>3. to.pc = "advanced" /\ to.d = d /\ to.stage = stage + 1 /\ Goto(t, to)
      BY <2>6
    <3>. HIDE DEF to
    <3>4. \A u \in Callers : task'[u] = to
      BY <1>0, <3>3, AloneGoes
    <3>5. row'[d].status = "IN_PROGRESS"
      BY <2>1, <2>2, <3>2
    <3>6. UpToDate' /\ ~Back(d)'
      BY <3>2, <3>3, <3>4, <3>5 DEF UpToDate, Back
    <3>7. p <= Stages[Stage(d)']
      <4>1. p <= Stages[stage + 1]
        BY <2>4, <3>1
      <4>. QED
        BY <3>2, <4>1
    <3>. QED
      BY <2>1, <2>2, <2>4, <3>6, <3>7, WithinAgain
  <2>. QED
    BY <1>5, <2>0, <2>5, <2>6 DEF CommitAdvance
<1>6. ASSUME NEW t \in Callers, RouteAdvance(t)
      PROVE  Goal
  <2>1. PICK d \in Deployments :
          /\ d = task[t].d /\ task[t].pc = "advanced" /\ row' = row
          /\ task[t].stage \in 1..Len(Stages)
    BY <1>0, <1>6, HandlerFields DEF RouteAdvance, AtWork
  <2>2. /\ row[d] # NoRow /\ row[d].stage = task[t].stage /\ row[d].status # "ROLLED_BACK"
    BY <1>0, <2>1 DEF UpToDate, AtWork
  <2>3. PICK p \in Percents : p <= Stages[task[t].stage] /\ table' = SetSplit(Split(d, p))
    BY <1>6, <2>1, StageSplitIs DEF RouteAdvance
  <2>4. \A u \in Callers : task'[u] = Idle
    BY <1>0, <1>6, AloneGoes DEF RouteAdvance
  <2>5. UpToDate' /\ ~Back(d)' /\ Stage(d)' = task[t].stage
    BY <2>1, <2>2, <2>4 DEF UpToDate, Back, Stage, StageIn, Idle, AtWork
  <2>. QED
    BY <2>1, <2>3, <2>5, WithinAgain
<1>7. ASSUME NEW t \in Callers, BeginRollback(t)
      PROVE  Goal
  <2>1. task[t].d \in Deployments /\ task[t].pc \in AtWork
    BY <1>0, <1>7, HandlerFields DEF BeginRollback, Proceeds, AtWork
  <2>2. RollsBack(t) /\ row' = row
    BY <1>0, <1>7, <2>1, RollbackRollsBack
       DEF BeginRollback, CanaryInv, CanaryTypeOK, StateOK
  <2>3. RouteInv'
    BY <1>0, <2>1, <2>2, CallersDiffer, RollsBackRoute
  <2>. QED
    BY <2>3 DEF RouteInv
<1>8. ASSUME NEW t \in Callers, SwitchBack(t)
      PROVE  Goal
  <2>1. PICK d \in Deployments : /\ d = task[t].d /\ row[d] # NoRow /\ row' = row
                                 /\ table' = SetSplit(RollbackSplit(d))
    BY <1>0, <1>8, HandlerFields DEF SwitchBack, AtWork, UpToDate
  <2>2. \A u \in Callers : task'[u] = [pc |-> "routed", d |-> d]
    BY <1>0, <1>8, <2>1, AloneGoes DEF SwitchBack
  <2>3. UpToDate'
    BY <2>1, <2>2 DEF UpToDate
  <2>. QED
    BY <1>0, <2>1, <2>3, RoutedBack
<1>9. ASSUME NEW t \in Callers, CommitRollback(t)
      PROVE  Goal
  <2>1. PICK d \in Deployments :
          /\ d = task[t].d /\ row[d] # NoRow /\ table' = table /\ Back(d)
          /\ row' = [row EXCEPT ![d].status = "ROLLED_BACK"]
    BY <1>0, <1>9, HandlerFields DEF CommitRollback, AtWork, UpToDate, Back
  <2>2. PICK p \in Percents : table = SetSplit(Split(d, p)) /\ p <= Stages[Stage(d)] /\ p = 0
    BY <1>0, <2>1 DEF Untouched, Within
  <2>3. Stage(d)' = Stage(d)
    BY <2>1, RowOf
  <2>4. \A u \in Callers : task'[u] = Idle
    BY <1>0, <1>9, AloneGoes DEF CommitRollback
  <2>5. UpToDate'
    BY <2>4 DEF UpToDate, Idle, AtWork
  <2>6. p <= Stages[Stage(d)']
    BY <2>2, <2>3
  <2>. QED
    BY <2>1, <2>2, <2>5, <2>6, WithinAgain
<1>10. ASSUME NEW t \in Callers, DatabaseFails(t)
       PROVE  Goal
  BY <1>1, <1>10, CallersDiffer DEF DatabaseFails, Raise
<1>11. ASSUME NEW t \in Tasks, DrainOver(t)
       PROVE  Goal
  <2>1. task[t].pc = "draining" /\ "draining" \in AtWork /\ "draining" \in Watching
    BY <1>11 DEF DrainOver, AtWork, Watching
  <2>2. task[t].d \in Deployments
    BY <1>0, <2>1, HandlerFields, SupervisorFields DEF Tasks
  <2>3. RollsBack(t) /\ row' = row
    BY <1>0, <1>11, <2>2, DrainOverRollsBack DEF CanaryInv, CanaryTypeOK, StateOK
  <2>4. RouteInv'
    BY <1>0, <2>1, <2>2, <2>3, RollsBackRoute
  <2>. QED
    BY <2>4 DEF RouteInv
<1>12. ASSUME NEW s \in Supervisors, Degraded(s)
       PROVE  Goal
  <2>1. task[s].d \in Deployments /\ s \in Tasks /\ s \notin Callers
    BY <1>0, <1>12, SupervisorFields, CallersDiffer DEF Degraded, Watching, Tasks
  <2>2. RollsBack(s) /\ row' = row
    BY <1>0, <1>12, <2>1, RollbackRollsBack DEF Degraded, CanaryInv, CanaryTypeOK, StateOK
  <2>3. RouteInv'
    BY <1>0, <2>1, <2>2, RollsBackRoute
  <2>. QED
    BY <2>3 DEF RouteInv
<1>13. ASSUME UNCHANGED <<table, row>>, \A u \in Callers : task'[u] = task[u]
       PROVE  Goal
  <2>1. UpToDate'
    BY <1>0, <1>13 DEF UpToDate
  <2>2. \A e \in Deployments : Untouched(e)' \/ Within(e)'
    BY <1>0, <1>13 DEF Untouched, Within, Back, Stage
  <2>. QED
    BY <2>1, <2>2
<1>14. ASSUME NEW s \in Supervisors,
              NotDegraded(s) \/ NextCheck(s) \/ Stop(s) \/ \E d \in Deployments : Watch(s, d)
       PROVE  Goal
  <2>1. UNCHANGED <<table, row>> /\ \E to : Goto(s, to)
    BY <1>14 DEF NotDegraded, NextCheck, Stop, Watch, Raise, Goto
  <2>. QED
    BY <1>0, <1>13, <2>1, SupervisorGoesAlone
<1>15. ASSUME NEW t \in Callers, Refuse(t)
       PROVE  Goal
  BY <1>1, <1>15 DEF Refuse
<1>16. Goal
  BY <1>2, <1>3, <1>4, <1>5, <1>6, <1>7, <1>8, <1>9, <1>10, <1>11, <1>12, <1>13, <1>14, <1>15
     DEF Next, Continue, Check, Operate, Tasks, vars
<1>. QED
  BY <1>0, <1>16 DEF RouteInv

LEMMA AlwaysRoute ==
  ASSUME OneDeployment, OneCaller
  PROVE  ServingSpec => []RouteInv
<1>1. ServingInit => RouteInv
  BY RouteInit DEF ServingInit
<1>2. RouteInv /\ RequestsTyped /\ [ServingNext]_servingVars => RouteInv'
  <2>. SUFFICES ASSUME RouteInv, RequestsTyped, [ServingNext]_servingVars PROVE RouteInv'
    OBVIOUS
  <2>1. [Next]_vars
    BY ServingMoves
  <2>. QED
    BY <2>1, RouteStep
<1>3. ServingInv => RequestsTyped
  BY DEF ServingInv
<1>. QED
  BY <1>1, <1>2, <1>3, AlwaysServing, PTL DEF ServingSpec

\* One deployment, of two versions, and one caller: once it is rolled back there is no
\* route to v2, whatever supervisors, requests and operators do and wherever the database
\* fails.
THEOREM RolledBack ==
  ASSUME OneDeployment, OneCaller, \A d \in Deployments : TwoVersions(d)
  PROVE  ServingSpec => []RolledBackMeansV1
<1>1. RouteInv => RolledBackMeansV1
  <2>. SUFFICES ASSUME RouteInv, NEW d \in Deployments, row[d].status = "ROLLED_BACK"
                PROVE  Routable(table, Models) \cap {Baseline[d], Candidate[d]} = {Baseline[d]}
    BY DEF RolledBackMeansV1
  <2>1. table = SetSplit(Split(d, 0))
    BY DEF RouteInv, Untouched, Within, Back, NoRow
  <2>2. table.disabled = {Candidate[d]}
    BY <2>1, TableOf, Versioned DEF Percents
  <2>. QED
    BY <2>2, Versioned DEF Routable, TwoVersions
<1>. QED
  BY <1>1, AlwaysRoute, PTL

\* One deployment, of two versions, and one caller: below the stage that gives v2
\* everything, a baseline that serves is never shut out of the table.
THEOREM BaselineRoutable ==
  ASSUME OneDeployment, OneCaller, \A d \in Deployments : TwoVersions(d)
  PROVE  ServingSpec => []BaselineStaysRoutable
<1>1. RouteInv => BaselineStaysRoutable
  <2>. SUFFICES ASSUME RouteInv, NEW d \in Deployments, Baseline[d] \in Serving,
                       Stages[IF row[d] = NoRow THEN 1 ELSE row[d].stage] < 100
                PROVE  Baseline[d] \in Routable(table, Serving)
    BY DEF BaselineStaysRoutable
  <2>1. Baseline[d] \notin table.disabled
    <3>1. CASE Untouched(d)
      BY <3>1 DEF Untouched, EmptyTable
    <3>2. CASE Within(d)
      <4>1. PICK p \in Percents : table = SetSplit(Split(d, p)) /\ p <= Stages[Stage(d)]
        BY <3>2 DEF Within
      <4>2. Stages[Stage(d)] < 100 /\ Stages[Stage(d)] \in Percents
        BY StageTyped DEF Stage, StageIn, RouteInv, CanaryInv, CanaryTypeOK
      <4>3. p # 100
        BY <4>1, <4>2 DEF Percents
      <4>. QED
        BY <4>1, <4>3, TableOf, Versioned DEF TwoVersions
    <3>. QED
      BY <3>1, <3>2 DEF RouteInv
  <2>. QED
    BY <2>1 DEF Routable
<1>. QED
  BY <1>1, AlwaysRoute, PTL

\* Max and Min as Routing uses them.
LEMMA LargestOfTwo == ASSUME NEW a \in Int, NEW b \in Int PROVE Max({a, b}) \in {a, b}
<1>1. \E x \in {a, b} : \A y \in {a, b} : x >= y
  <2>1. a >= b \/ b >= a
    OBVIOUS
  <2>. QED
    BY <2>1
<1>. QED
  BY <1>1 DEF Max

LEMMA SmallestOfTwo == ASSUME NEW a \in Int, NEW b \in Int PROVE Min({a, b}) \in {a, b}
<1>1. \E x \in {a, b} : \A y \in {a, b} : x <= y
  <2>1. a <= b \/ b <= a
    OBVIOUS
  <2>. QED
    BY <2>1
<1>. QED
  BY <1>1 DEF Min

\* v2's share of what is drawn from is at most the split's, whichever versions
\* serve beside v1, configured or not.
LEMMA CanaryShare ==
  ASSUME NEW d \in Deployments, NEW p \in Percents, TwoVersions(d), NEW name \in Names,
         NEW serving \in SUBSET Versions[name], Baseline[d] \in serving
  PROVE  LET t == SetSplit(Split(d, p))
         IN /\ TotalWeight(t, serving) \in Nat /\ EffectiveWeight(t, serving, Candidate[d]) \in Nat
            /\ 100 * EffectiveWeight(t, serving, Candidate[d]) <= p * TotalWeight(t, serving)
<1>. DEFINE v1 == Baseline[d]
            v2 == Candidate[d]
            t == SetSplit(Split(d, p))
            n == Max({1, Cardinality(Unconfigured(t, serving))})
            f == [m \in serving |-> EffectiveWeight(t, serving, m)]
            whole == TotalWeight(t, serving)
<1>1. p \in Int /\ 0 <= p /\ p <= 100 /\ v1 # v2 /\ v1 \in serving /\ IsFiniteSet(serving)
  BY FS_Subset, CanaryAssumption DEF Percents, TwoVersions
<1>2. /\ DOMAIN t.weights = {m \in {v1, v2} : IF m = v2 THEN p > 0 ELSE p < 100}
      /\ t.disabled = {m \in {v1, v2} : IF m = v2 THEN p = 0 ELSE p = 100}
      /\ p > 0 => t.weights[v2] = p
      /\ p < 100 => t.weights[v1] = 100 - p
  BY TableOf
<1>3. n \in Nat /\ n >= 1
  <2>1. Cardinality(Unconfigured(t, serving)) \in Nat
    BY <1>1, FS_Subset, FS_CardinalityType DEF Unconfigured, Routable
  <2>2. PICK c \in Nat : c = Cardinality(Unconfigured(t, serving))
    BY <2>1
  <2>3. \E x \in {1, c} : \A y \in {1, c} : x >= y
    BY LargestOfTwo
  <2>. QED
    BY <2>2, <2>3 DEF Max
<1>4. Min({t.weights[k] : k \in DOMAIN t.weights}) \in Nat
  <2>. HIDE DEF t, v1, v2
  <2>1. CASE p = 0
    <3>1. {t.weights[k] : k \in DOMAIN t.weights} = {100, 100}
      BY <1>1, <1>2, <2>1
    <3>2. PICK c \in Int : c = 100
      OBVIOUS
    <3>3. Min({c, c}) \in {c, c}
      BY SmallestOfTwo
    <3>. QED
      BY <3>1, <3>2, <3>3
  <2>2. CASE p = 100
    <3>1. {t.weights[k] : k \in DOMAIN t.weights} = {100, 100}
      BY <1>1, <1>2, <2>2
    <3>2. PICK c \in Int : c = 100
      OBVIOUS
    <3>3. Min({c, c}) \in {c, c}
      BY SmallestOfTwo
    <3>. QED
      BY <3>1, <3>2, <3>3
  <2>3. CASE 0 < p /\ p < 100
    <3>1. DOMAIN t.weights = {v1, v2}
      BY <1>1, <1>2, <2>3
    <3>2. {t.weights[k] : k \in DOMAIN t.weights} = {100 - p, p}
      BY <1>1, <1>2, <2>3, <3>1
    <3>3. 100 - p \in Nat /\ p \in Nat /\ 100 - p \in Int
      BY <1>1, <2>3
    <3>. QED
      BY <3>2, <3>3, SmallestOfTwo
  <2>. QED
    BY <1>1, <2>1, <2>2, <2>3
<1>5. \A m \in Configured(t, serving) :
        m \in {v1, v2} /\ t.weights[m] \in Nat
        /\ EffectiveWeight(t, serving, m) = t.weights[m] * n
  <2>1. \A m \in DOMAIN t.weights : m \in {v1, v2} /\ t.weights[m] \in Nat
    <3>. HIDE DEF t, v1, v2
    <3>. QED
      BY <1>1, <1>2
  <2>. QED
    BY <2>1 DEF Configured, EffectiveWeight
<1>. HIDE DEF t, n, v1, v2
<1>6. \A m \in serving : EffectiveWeight(t, serving, m) \in Nat
  <2>. TAKE m \in serving
  <2>1. CASE m \in Configured(t, serving)
    <3>1. \A a, b \in Nat : a * b \in Nat
      OBVIOUS
    <3>. QED
      BY <1>3, <1>5, <2>1, <3>1
  <2>2. CASE m \notin Configured(t, serving)
    BY <1>4, <2>2 DEF EffectiveWeight
  <2>. QED
    BY <2>1, <2>2
<1>7. (\A m \in serving : f[m] \in Nat) /\ whole = SumOver(f, serving)
  BY <1>6 DEF TotalWeight
<1>8. \A m \in serving : EffectiveWeight(t, serving, m) = f[m]
  OBVIOUS
<1>. HIDE DEF f, whole
<1>9. whole \in Nat
  BY <1>1, <1>7, SumNat
<1>10. 0 <= p * whole
  <2>1. \A a, b \in Int : 0 <= a /\ 0 <= b => 0 <= a * b
    OBVIOUS
  <2>. QED
    BY <1>1, <1>9, <2>1
<1>11. 100 * EffectiveWeight(t, serving, v2) <= p * whole
  <2>1. CASE v2 \notin serving \/ p = 0
    <3>1. v2 \notin Routable(t, serving)
      BY <1>2, <2>1 DEF Routable
    <3>2. EffectiveWeight(t, serving, v2) = 0
      BY <3>1 DEF EffectiveWeight, Configured, Unconfigured
    <3>. QED
      BY <1>10, <3>2
  <2>2. CASE v2 \in serving /\ p = 100
    <3>1. f[v2] <= whole
      <4>1. f[v1] + f[v2] <= whole
        BY <1>1, <1>7, <2>2, SumPair
      <4>. QED
        BY <1>1, <1>7, <1>9, <2>2, <4>1
    <3>2. f[v2] \in Nat
      BY <1>7, <2>2
    <3>. QED
      BY <1>8, <1>9, <2>2, <3>1, <3>2
  <2>3. CASE v2 \in serving /\ 0 < p /\ p < 100
    <3>1. v1 \in Configured(t, serving) /\ v2 \in Configured(t, serving)
      BY <1>1, <1>2, <2>3 DEF Configured, Routable
    <3>2. f[v1] = (100 - p) * n /\ f[v2] = p * n
      BY <1>1, <1>2, <1>5, <1>8, <2>3, <3>1
    <3>3. f[v1] + f[v2] <= whole
      BY <1>1, <1>7, <2>3, SumPair
    <3>4. \A a, b, c \in Int : 0 <= a /\ (100 - a) * b + a * b <= c => 100 * (a * b) <= a * c
      <4>. SUFFICES ASSUME NEW a \in Int, NEW b \in Int, NEW c \in Int,
                           0 <= a, (100 - a) * b + a * b <= c
                    PROVE  100 * (a * b) <= a * c
        OBVIOUS
      <4>1. (100 - a) * b + a * b = 100 * b
        OBVIOUS
      <4>2. 100 * b <= c
        BY <4>1
      <4>3. \A x, y, z \in Int : 0 <= x /\ y <= z => x * y <= x * z
        OBVIOUS
      <4>4. a * (100 * b) <= a * c
        BY <4>2, <4>3
      <4>5. a * (100 * b) = 100 * (a * b)
        OBVIOUS
      <4>. QED
        BY <4>4, <4>5
    <3>. QED
      BY <1>1, <1>3, <1>8, <1>9, <2>3, <3>2, <3>3, <3>4
  <2>. QED
    BY <1>1, <2>1, <2>2, <2>3
<1>12. EffectiveWeight(t, serving, v2) \in Nat
  <2>1. CASE v2 \in serving
    BY <1>6, <2>1
  <2>2. CASE v2 \notin serving
    BY <2>2 DEF EffectiveWeight, Configured, Unconfigured, Routable
  <2>. QED
    BY <2>1, <2>2
<1>. QED
  BY <1>9, <1>11, <1>12 DEF t, v2, whole

\* One deployment, of two versions of a name, and one caller: v2 never gets a larger
\* share of the name's traffic than its stage allows, as long as the baseline serves.
THEOREM StageIsKept ==
  ASSUME OneDeployment, OneCaller, \A d \in Deployments : TwoVersions(d)
  PROVE  ServingSpec => []CanaryNeverExceedsStage
<1>1. RouteInv => CanaryNeverExceedsStage
  <2>. SUFFICES ASSUME RouteInv, NEW d \in Deployments, NEW name \in Names,
                       row[d].status = "IN_PROGRESS", Baseline[d] \in Serving \cap Versions[name]
                PROVE  100 * EffectiveWeight(table, Serving \cap Versions[name], Candidate[d])
                         <= Stages[row[d].stage] * TotalWeight(table, Serving \cap Versions[name])
    BY DEF CanaryNeverExceedsStage
  <2>. DEFINE serving == Serving \cap Versions[name]
              share == EffectiveWeight(table, serving, Candidate[d])
              whole == TotalWeight(table, serving)
  <2>1. row[d] # NoRow
    BY DEF NoRow
  <2>2. PICK p \in Percents : table = SetSplit(Split(d, p)) /\ p <= Stages[row[d].stage]
    BY <2>1 DEF RouteInv, Untouched, Within, Stage, StageIn
  <2>3. Stages[row[d].stage] \in Percents
    <3>1. Stages[StageIn(row[d])] \in Percents
      BY StageTyped DEF RouteInv, CanaryInv, CanaryTypeOK
    <3>. QED
      BY <2>1, <3>1 DEF StageIn
  <2>4. whole \in Nat /\ 100 * share <= p * whole /\ share \in Nat
    BY <2>2, CanaryShare
  <2>. HIDE DEF share, whole
  <2>5. \A a, b, c \in Int : 0 <= c /\ a <= b => a * c <= b * c
    OBVIOUS
  <2>6. p * whole <= Stages[row[d].stage] * whole
    <3>1. PICK stage \in Int : stage = Stages[row[d].stage]
      BY <2>3 DEF Percents
    <3>2. p \in Int /\ whole \in Int /\ 0 <= whole /\ p <= stage
      BY <2>2, <2>4, <3>1 DEF Percents
    <3>3. p * whole <= stage * whole
      BY <2>5, <3>2
    <3>. QED
      BY <3>1, <3>3
  <2>7. 100 * share <= Stages[row[d].stage] * whole
    <3>1. 100 * share \in Int /\ p * whole \in Int /\ Stages[row[d].stage] * whole \in Int
      BY <2>3, <2>4 DEF Percents
    <3>2. \A a, b, c \in Int : a <= b /\ b <= c => a <= c
      OBVIOUS
    <3>. QED
      BY <2>4, <2>6, <3>1, <3>2
  <2>. QED
    BY <2>7 DEF share, whole
<1>. QED
  BY <1>1, AlwaysRoute, PTL
=============================================================================
