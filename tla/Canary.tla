------------------------------- MODULE Canary -------------------------------
(***************************************************************************)
(* Canary deployments of a candidate version beside a baseline: the        *)
(* handlers start, advance and rollback of api/routes.py, the              *)
(* RollbackExecutor they share with the RollbackSupervisor, and the one    *)
(* routing table that all deployments write.                               *)
(*                                                                         *)
(* A handler works on the row it has read and suspends at every database   *)
(* call; a step is what runs between two of those, and a commit takes      *)
(* effect in the step that follows it.  The supervisor passes no session   *)
(* and suspends in the metrics provider, in a drain and between checks.    *)
(* A row's traffic_split is always the split of its stage and is left out, *)
(* like the event rows, which nothing reads back, and                      *)
(* model_versions.status, whose writes by a rollback are ModelApi's.       *)
(* Neither the handler nor its request schema asks that v1 and v2 differ   *)
(* or that they share a model name.                                        *)
(***************************************************************************)
EXTENDS ModelStates, Routing, Sequences

CONSTANTS
  Deployments,
  Baseline, Candidate,   \* per deployment, v1 and v2
  Names,           \* model names, what chat requests ask for
  Versions,        \* per name, its versions
  Stages,          \* the stages asked for, in percent of v2's traffic
  Callers,         \* API requests in progress at once
  Supervisors,     \* background tasks, each watching a deployment
  Operated         \* versions that API calls move meanwhile

Models == UNION {Versions[n] : n \in Names}

\* What CanaryStartRequest's validator accepts.
ValidStages ==
  /\ Stages \in Seq(1..100) /\ Stages # <<>>
  /\ \A i \in 1..Len(Stages) - 1 : Stages[i] <= Stages[i + 1]
  /\ Stages[Len(Stages)] = 100

ASSUME CanaryAssumption ==
  /\ ValidStages
  /\ \A d \in Deployments : {Baseline[d], Candidate[d]} \subseteq Models
  /\ \A n \in Names : IsFiniteSet(Versions[n])
  /\ Callers \cap Supervisors = {} /\ Operated \subseteq Models

VARIABLES
  state,           \* Model.state
  table,           \* the RoutingTableManager's weights and disabled versions
  row,             \* each deployment's row in the database
  task             \* where each handler and each supervisor is

vars == <<state, table, row, task>>

NoRow == [status |-> "none"]
Row == [status : {"IN_PROGRESS", "COMPLETED", "ROLLED_BACK"}, stage : 1..Len(Stages)]
Idle == [pc |-> "idle"]
Stopped == [pc |-> "stopped"]

HandlerState ==
  {Idle}
  \cup [pc : {"starting", "draining", "drained", "routed"}, d : Deployments]
  \cup [pc : {"read"}, d : Deployments, op : {"advance", "rollback"}, seen : Row]
  \cup [pc : {"advanced"}, d : Deployments, stage : 1..Len(Stages)]

\* stop: the event that ends the supervisor's loop is set.
SupervisorState ==
  {Idle, Stopped}
  \cup [pc : {"asking", "resting", "draining"}, d : Deployments, stop : BOOLEAN]

CanaryTypeOK ==
  /\ state \in [Models -> ModelState]
  /\ DOMAIN table.weights \subseteq Models /\ table.disabled \subseteq Models
  /\ row \in [Deployments -> {NoRow} \cup Row]
  /\ \A t \in Callers : task[t] \in HandlerState
  /\ \A s \in Supervisors : task[s] \in SupervisorState

Serving == {m \in Models : CanServe(state[m])}
Goto(t, to) == task' = [task EXCEPT ![t] = to]
-----------------------------------------------------------------------------
(***************************************************************************)
(* Stages and splits                                                       *)
(***************************************************************************)

\* Mutant: a ratio between two named stages rounded up.
Mut_RoundUp(percent) ==
  IF percent > 30 THEN 100 ELSE IF percent > 10 THEN 30 ELSE 10

\* stage_from_index and STAGE_TO_V2_RATIO: a ratio between two named stages is
\* rounded down to the lower one, and below the first of them v2 gets nothing.
StageRatio(percent) ==
  IF percent >= 100 THEN 100
  ELSE IF percent >= 30 THEN 30
  ELSE IF percent >= 10 THEN 10
  ELSE 0

\* For one version in both places v2's ratio is the one that counts.
Split(d, percent) ==
  [m \in {Baseline[d], Candidate[d]} |-> IF m = Candidate[d] THEN percent ELSE 100 - percent]
StageSplit(d, stage) == Split(d, StageRatio(Stages[stage]))

\* Mutants: the rollback's split leaves v2 out instead of giving it zero, or
\* changes the versions' places.
Mut_OnlyV1(d) == [m \in {Baseline[d]} |-> 100]
Mut_Swapped(d) == Split(d, 100)

RollbackSplit(d) == Split(d, 0)
-----------------------------------------------------------------------------
Init ==
  /\ state \in [Models -> {"ACTIVE"}]
  /\ table = EmptyTable
  /\ row = [d \in Deployments |-> NoRow]
  /\ task = [t \in Callers \cup Supervisors |-> Idle]

\* start_canary: the routes are switched before the row is there.  Each
\* deployment is started once and keeps its versions registered.
Start(t, d) ==
  /\ task[t] = Idle
  /\ row[d] = NoRow
  /\ \A u \in Callers : task[u] # [pc |-> "starting", d |-> d]
  /\ state[Baseline[d]] = "ACTIVE" /\ state[Candidate[d]] = "ACTIVE"
  /\ table' = SetSplit(StageSplit(d, 1))
  /\ Goto(t, [pc |-> "starting", d |-> d])
  /\ UNCHANGED <<state, row>>

CommitStart(t) ==
  /\ task[t].pc = "starting"
  /\ row' = [row EXCEPT ![task[t].d] = [status |-> "IN_PROGRESS", stage |-> 1]]
  /\ Goto(t, Idle)
  /\ UNCHANGED <<state, table>>

\* advance_canary and rollback_canary begin by reading the row.
Read(t, d, op) ==
  /\ task[t] = Idle
  /\ row[d] # NoRow
  /\ Goto(t, [pc |-> "read", d |-> d, op |-> op, seen |-> row[d]])
  /\ UNCHANGED <<state, table, row>>

Refuse(t) ==
  /\ task[t].pc = "read"
  /\ task[t].seen.status # "IN_PROGRESS"
  /\ Goto(t, Idle)
  /\ UNCHANGED <<state, table, row>>

Proceeds(t, op) ==
  /\ task[t].pc = "read"
  /\ task[t].op = op
  /\ task[t].seen.status = "IN_PROGRESS"

\* Mutant: one stage too many.
Mut_PastLast(stage) == stage > Len(Stages)

IsLast(stage) == stage + 1 > Len(Stages)

\* The UPDATE sets only the columns the handler has changed.
CommitAdvance(t) ==
  LET d == task[t].d
      stage == task[t].seen.stage
  IN /\ Proceeds(t, "advance")
     /\ \/ /\ IsLast(stage)
           /\ row' = [row EXCEPT ![d].status = "COMPLETED"]
           /\ Goto(t, Idle)
        \/ /\ ~IsLast(stage)
           /\ row' = [row EXCEPT ![d].stage = stage + 1]
           /\ Goto(t, [pc |-> "advanced", d |-> d, stage |-> stage + 1])
     /\ UNCHANGED <<state, table>>

RouteAdvance(t) ==
  /\ task[t].pc = "advanced"
  /\ table' = SetSplit(StageSplit(task[t].d, task[t].stage))
  /\ Goto(t, Idle)
  /\ UNCHANGED <<state, row>>
-----------------------------------------------------------------------------
(***************************************************************************)
(* execute_rollback.  With a session v2's row is read and written between  *)
(* the drain and the switch of the routes; without one the switch follows  *)
(* at once and the deployment's row is never written.                      *)
(***************************************************************************)
V2Stopped(t) ==
  IF t \in Supervisors
    THEN table' = SetSplit(RollbackSplit(task[t].d)) /\ Goto(t, Stopped)
    ELSE Goto(t, [pc |-> "drained", d |-> task[t].d]) /\ UNCHANGED table

Draining(t) ==
  IF t \in Supervisors
    THEN [task[t] EXCEPT !.pc = "draining"]
    ELSE [pc |-> "draining", d |-> task[t].d]

\* Only an ACTIVE v2 is drained; whether requests are in flight is left open.
Rollback(t) ==
  LET v2 == Candidate[task[t].d]
  IN \/ state[v2] # "ACTIVE" /\ V2Stopped(t) /\ UNCHANGED state
     \/ state[v2] = "ACTIVE" /\ state' = [state EXCEPT ![v2] = "SLEEPING"] /\ V2Stopped(t)
     \/ /\ state[v2] = "ACTIVE"
        /\ state' = [state EXCEPT ![v2] = "DRAINING"]
        /\ Goto(t, Draining(t))
        /\ UNCHANGED table

BeginRollback(t) ==
  /\ Proceeds(t, "rollback")
  /\ Rollback(t)
  /\ UNCHANGED row

\* Mutant: an error leaves the task where it is.
Mut_Stuck(t) == UNCHANGED task

\* The handler answers 500; the supervisor's loop waits for its next check.
Raise(t) ==
  IF t \in Supervisors
    THEN task' = [task EXCEPT ![t].pc = "resting"]
    ELSE Goto(t, Idle)

\* The drain is over, naturally or by force.  If v2 has been moved meanwhile, the
\* transition is illegal and the rollback ends here.
DrainOver(t) ==
  LET v2 == Candidate[task[t].d]
  IN /\ task[t].pc = "draining"
     /\ \/ /\ SleepPath(state[v2]).legal
           /\ state' = [state EXCEPT ![v2] = "SLEEPING"]
           /\ V2Stopped(t)
        \/ /\ ~SleepPath(state[v2]).legal
           /\ Raise(t)
           /\ UNCHANGED <<state, table>>
     /\ UNCHANGED row

SwitchBack(t) ==
  /\ task[t].pc = "drained"
  /\ table' = SetSplit(RollbackSplit(task[t].d))
  /\ Goto(t, [pc |-> "routed", d |-> task[t].d])
  /\ UNCHANGED <<state, row>>

CommitRollback(t) ==
  /\ task[t].pc = "routed"
  /\ row' = [row EXCEPT ![task[t].d].status = "ROLLED_BACK"]
  /\ Goto(t, Idle)
  /\ UNCHANGED <<state, table>>

\* The database fails the handler at one of its calls: nothing is written, and
\* nothing that was done before is undone.
DatabaseFails(t) ==
  /\ task[t].pc \in {"starting", "read", "drained", "routed"}
  /\ Raise(t)
  /\ UNCHANGED <<state, table, row>>

(***************************************************************************)
(* RollbackSupervisor.run: ask for metrics, roll back when v2 is degraded, *)
(* else wait for the interval or the stop event.  It never looks at the    *)
(* row.  What the provider returns is left open, and it may raise.         *)
(***************************************************************************)
\* run() returns at once when nothing is watched, or when it was stopped before.
Watch(s, d) ==
  /\ task[s] = Idle
  /\ row[d] # NoRow
  /\ \/ Goto(s, [pc |-> "asking", d |-> d, stop |-> FALSE])
     \/ Goto(s, Stopped)
  /\ UNCHANGED <<state, table, row>>

NotDegraded(s) ==
  /\ task[s].pc = "asking"
  /\ Raise(s)
  /\ UNCHANGED <<state, table, row>>

Degraded(s) ==
  /\ task[s].pc = "asking"
  /\ Rollback(s)
  /\ UNCHANGED row

\* Mutant: the wait's outcome is not looked at.
Mut_GoOn(s) == [task[s] EXCEPT !.pc = "asking"]

LoopHead(s) == IF task[s].stop THEN Stopped ELSE [task[s] EXCEPT !.pc = "asking"]

NextCheck(s) ==
  /\ task[s].pc = "resting"
  /\ Goto(s, LoopHead(s))
  /\ UNCHANGED <<state, table, row>>

Stop(s) ==
  /\ task[s].pc \in {"asking", "resting", "draining"}
  /\ task' = [task EXCEPT ![s].stop = TRUE]
  /\ UNCHANGED <<state, table, row>>
-----------------------------------------------------------------------------
\* API calls on the versions themselves.
Operate(m) ==
  /\ state' \in {[state EXCEPT ![m] = s] :
       s \in {LoadPath(state[m]).state, SleepPath(state[m]).state, UnloadPath(state[m]).state}}
  /\ UNCHANGED <<table, row, task>>

Continue(t) ==
  \/ CommitStart(t) \/ Refuse(t) \/ CommitAdvance(t) \/ RouteAdvance(t)
  \/ BeginRollback(t) \/ SwitchBack(t) \/ CommitRollback(t)

Check(s) == NotDegraded(s) \/ Degraded(s) \/ NextCheck(s)

Next ==
  \/ \E t \in Callers :
       \/ Continue(t) \/ DatabaseFails(t)
       \/ \E d \in Deployments :
            Start(t, d) \/ \E op \in {"advance", "rollback"} : Read(t, d, op)
  \/ \E s \in Supervisors :
       Check(s) \/ Stop(s) \/ \E d \in Deployments : Watch(s, d)
  \/ \E t \in Callers \cup Supervisors : DrainOver(t)
  \/ \E m \in Operated : Operate(m)

\* The database and the metrics provider answer or fail, drains end and the
\* interval passes; nothing makes anybody call.
Fairness ==
  /\ \A t \in Callers : WF_vars(Continue(t))
  /\ \A s \in Supervisors : WF_vars(Check(s))
  /\ \A t \in Callers \cup Supervisors : WF_vars(DrainOver(t))

Spec == Init /\ [][Next]_vars /\ Fairness
-----------------------------------------------------------------------------
(***************************************************************************)
(* Properties                                                              *)
(***************************************************************************)

\* As long as the baseline serves, a deployment in progress between two versions of
\* one name never draws a larger share of the name's traffic to v2 than its stage
\* allows.
CanaryNeverExceedsStage ==
  \A d \in Deployments, n \in Names :
    LET serving == Serving \cap Versions[n]
        running == row[d].status = "IN_PROGRESS"
    IN running /\ Candidate[d] \in Versions[n] /\ Baseline[d] \in serving =>
         100 * EffectiveWeight(table, serving, Candidate[d])
           <= Stages[row[d].stage] * TotalWeight(table, serving)

\* A deployment that is ROLLED_BACK sends nothing to v2, awake or not, once no
\* handler is at work.
RolledBackMeansV1 ==
  \A d \in Deployments :
    row[d].status = "ROLLED_BACK" /\ (\A t \in Callers : task[t] = Idle) =>
      Routable(table, Models) \cap {Baseline[d], Candidate[d]} = {Baseline[d]}

\* Short of the stage that gives v2 everything, a baseline that serves stays
\* routable: whatever rollbacks of either kind, advances after them, failing
\* database calls and calls on v2 leave behind, requests have somewhere to go.
BaselineStaysRoutable ==
  \A d \in Deployments :
    /\ Baseline[d] \in Serving
    /\ Stages[IF row[d] = NoRow THEN 1 ELSE row[d].stage] < 100
    => Baseline[d] \in Routable(table, Serving)

\* A rollback that has begun to stop v2 ends, also when others move v2 meanwhile.
RollbackEnds ==
  \A t \in Callers \cup Supervisors :
    (task[t].pc \in {"draining", "drained", "routed"})
      ~> (task[t].pc \notin {"draining", "drained", "routed"})

\* A supervisor that is told to stop does, whatever its provider and its rollback
\* do.
SupervisorStops ==
  \A s \in Supervisors :
    (task[s].pc \in {"asking", "resting", "draining"} /\ task[s].stop) ~> (task[s] = Stopped)
=============================================================================
