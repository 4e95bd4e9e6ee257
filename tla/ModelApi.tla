------------------------------ MODULE ModelApi ------------------------------
(***************************************************************************)
(* The API's handlers for one model id: register, delete and the calls     *)
(* that move the model, a canary's rollback of it among them.  Each works  *)
(* on two stores, the ModelRegistry in memory and the row of               *)
(* model_versions.                                                         *)
(*                                                                         *)
(* A handler suspends at every database call; what it asked for takes      *)
(* effect there in one step and the handler goes on in a later one.  In    *)
(* memory it suspends only in a drain.  Ids do not interact.  A call that  *)
(* is answered with an error before it has changed anything is a stutter   *)
(* and left out, and so is what rollback does once v2 is stopped (Canary). *)
(***************************************************************************)
EXTENDS ModelStates

CONSTANTS
  Callers,         \* API requests in progress at once
  Objects,         \* bound: Model objects that exist at once
  Faults,          \* what may go wrong meanwhile: "database", "restart"
  None             \* no object, no row, nobody

ASSUME ApiAssumption == None \notin ModelState \cup Objects \cup Callers

VARIABLES
  model,           \* the state of each Model object
  registry,        \* the object that ModelRegistry holds for the id
  row,             \* model_versions.status of the id
  deployed,        \* a row of canary_deployments names the id as its v2
  call,            \* where each request is
  alone,           \* history: the caller in progress that has had no company
  left             \* history: how the last call left the stores, if it was alone

vars == <<model, registry, row, deployed, call, alone, left>>
history == <<alone, left>>

Idle == [pc |-> "idle"]

Call ==
  [pc : {"idle", "inserted", "deleting", "deleted", "deploying"}]
  \cup [pc : {"draining"}, object : Objects]
  \cup [pc : {"moved"}, object : Objects \cup {None}]
  \cup [pc : {"read"}, object : Objects \cup {None}, seen : ModelState]
  \cup [pc : {"writing"}, object : Objects \cup {None}, status : ModelState]

\* "agreed": the stores hold the same; "missing": exactly one of them has the id;
\* "paired": both have it; "unknown": calls have overlapped or failed since.
Outcomes == {"agreed", "missing", "paired", "unknown"}

ApiTypeOK ==
  /\ model \in [Objects -> ModelState]
  /\ registry \in Objects \cup {None}
  /\ row \in ModelState \cup {None}
  /\ deployed \in BOOLEAN
  /\ call \in [Callers -> Call]
  /\ alone \in Callers \cup {None}
  /\ left \in Outcomes

Goto(t, to) == call' = [call EXCEPT ![t] = to]

\* A request begins, alone or beside others.
Begins(t) ==
  /\ call[t] = Idle
  /\ \/ (\A u \in Callers : call[u] = Idle) /\ alone' = t /\ UNCHANGED left
     \/ (\E u \in Callers : call[u] # Idle) /\ alone' = None /\ left' = "unknown"

\* It returns; if it was alone, its way says how it leaves the stores.
Return(t, outcome) ==
  /\ Goto(t, Idle)
  /\ left' = IF alone = t THEN outcome ELSE left
  /\ alone' = IF alone = t THEN None ELSE alone

\* Objects that neither the registry nor a handler refers to.
Unused ==
  {o \in Objects : o # registry
     /\ \A t \in Callers :
          call[t].pc \in {"draining", "moved", "read"} => call[t].object # o}
-----------------------------------------------------------------------------
Init ==
  /\ model = [o \in Objects |-> "IDLE"]
  /\ registry = None
  /\ row = None
  /\ deployed = FALSE
  /\ call = [t \in Callers |-> Idle]
  /\ alone = None
  /\ left = "agreed"

(***************************************************************************)
(* register_model: the row first, whose key keeps the id unique, then the  *)
(* object.  If the registry has the id already, the row stays.             *)
(***************************************************************************)
InsertRow(t) ==
  /\ Begins(t)
  /\ row = None
  /\ row' = "IDLE"
  /\ Goto(t, [pc |-> "inserted"])
  /\ UNCHANGED <<model, registry, deployed>>

RegisterModel(t) ==
  /\ call[t].pc = "inserted"
  /\ \/ /\ registry = None
        /\ \E o \in Unused :
             registry' = o /\ model' = [model EXCEPT ![o] = "IDLE"]
        /\ Return(t, "agreed")
     \/ /\ registry # None
        /\ Return(t, "paired")
        /\ UNCHANGED <<registry, model>>
  /\ UNCHANGED <<row, deployed>>

(***************************************************************************)
(* load_model, wake_model, sleep_model and unload_model: memory first.     *)
(***************************************************************************)
Paths(s) == {LoadPath(s), SleepPath(s), UnloadPath(s)}

Move(t) ==
  /\ Begins(t)
  /\ registry # None
  /\ \E path \in Paths(model[registry]) :
       path.legal /\ model' = [model EXCEPT ![registry] = path.state]
  /\ Goto(t, [pc |-> "moved", object |-> registry])
  /\ UNCHANGED <<registry, row, deployed>>

\* A row that is gone is not brought back.
ReadRow(t) ==
  /\ call[t].pc = "moved"
  /\ \/ row = None /\ Return(t, IF call[t].object = None THEN "agreed" ELSE "missing")
     \/ /\ row # None
        /\ Goto(t, [pc |-> "read", object |-> call[t].object, seen |-> row])
        /\ UNCHANGED history
  /\ UNCHANGED <<model, registry, row, deployed>>

\* Mutants: the status is taken from the row that was read; the object is stored.
Mut_SeenStatus(t) == call[t].seen
Mut_WholeObject(t) == call[t].object

\* The object that was moved, as it is when the row has arrived; a rollback that
\* found none in memory takes v2 to sleep.
NewStatus(t) == IF call[t].object = None THEN "SLEEPING" ELSE model[call[t].object]
Written(t) == IF call[t].object = None THEN "missing" ELSE "agreed"

\* The ORM writes a column only if its value differs from the one read.
SetStatus(t) ==
  /\ call[t].pc = "read"
  /\ \/ NewStatus(t) = call[t].seen /\ Return(t, Written(t))
     \/ /\ NewStatus(t) # call[t].seen
        /\ Goto(t, [pc |-> "writing", object |-> call[t].object, status |-> NewStatus(t)])
        /\ UNCHANGED history
  /\ UNCHANGED <<model, registry, row, deployed>>

\* The commit.  A row deleted meanwhile cannot be updated, which is an error.
WriteRow(t) ==
  /\ call[t].pc = "writing"
  /\ row' = IF row = None THEN None ELSE call[t].status
  /\ Return(t, Written(t))
  /\ UNCHANGED <<model, registry, deployed>>

(***************************************************************************)
(* A canary with the id as v2: start_canary's check and its row, and what  *)
(* execute_rollback does to v2.  It goes on as a move does, except that it *)
(* also writes the row of a model that is not in memory.                   *)
(***************************************************************************)
StartCanary(t) ==
  /\ Begins(t)
  /\ registry # None
  /\ model[registry] = "ACTIVE"
  /\ Goto(t, [pc |-> "deploying"])
  /\ UNCHANGED <<model, registry, row, deployed>>

InsertDeployment(t) ==
  /\ call[t].pc = "deploying"
  /\ deployed' = TRUE
  /\ Return(t, left)
  /\ UNCHANGED <<model, registry, row>>

\* An ACTIVE v2 is drained, which takes a while if requests are in flight.
Rollback(t) ==
  /\ deployed
  /\ Begins(t)
  /\ \/ /\ registry # None => model[registry] # "ACTIVE"
        /\ Goto(t, [pc |-> "moved", object |-> registry])
        /\ UNCHANGED model
     \/ /\ registry # None
        /\ model[registry] = "ACTIVE"
        /\ \E after \in {[pc |-> "draining", state |-> "DRAINING"],
                        [pc |-> "moved", state |-> "SLEEPING"]} :
             /\ model' = [model EXCEPT ![registry] = after.state]
             /\ Goto(t, [pc |-> after.pc, object |-> registry])
  /\ UNCHANGED <<registry, row, deployed>>

\* If others have moved v2 on meanwhile, the drain's last transition raises.
DrainOver(t) ==
  /\ call[t].pc = "draining"
  /\ LET path == SleepPath(model[call[t].object])
     IN \/ /\ path.legal
           /\ model' = [model EXCEPT ![call[t].object] = path.state]
           /\ Goto(t, [pc |-> "moved", object |-> call[t].object])
           /\ UNCHANGED history
        \/ ~path.legal /\ Return(t, "unknown") /\ UNCHANGED model
  /\ UNCHANGED <<registry, row, deployed>>

(***************************************************************************)
(* delete_model: the row, if it says IDLE, and then the object, if it is   *)
(* really in a terminal state.  Deleting a row that is gone only warns.    *)
(* The ORM would clear the id in the deployments that name it, where it    *)
(* may not be null: such a delete fails.                                   *)
(***************************************************************************)
ReadForDelete(t) ==
  /\ Begins(t)
  /\ row = "IDLE"
  /\ Goto(t, [pc |-> "deleting"])
  /\ UNCHANGED <<model, registry, row, deployed>>

DeleteRow(t) ==
  /\ call[t].pc = "deleting"
  /\ \/ /\ ~deployed
        /\ row' = None
        /\ Goto(t, [pc |-> "deleted"])
        /\ UNCHANGED history
     \/ deployed /\ Return(t, left) /\ UNCHANGED row
  /\ UNCHANGED <<model, registry, deployed>>

Unregistered ==
  IF registry # None /\ IsTerminal(model[registry]) THEN None ELSE registry

UnregisterModel(t) ==
  /\ call[t].pc = "deleted"
  /\ registry' = Unregistered
  /\ Return(t, IF Unregistered = None THEN "agreed" ELSE "missing")
  /\ UNCHANGED <<model, row, deployed>>
-----------------------------------------------------------------------------
\* A database call fails, or its answer is lost: what is done stays done.
DatabaseFails(t) ==
  /\ "database" \in Faults
  /\ call[t].pc \notin {"idle", "read", "draining"}
  /\ Goto(t, Idle)
  /\ alone' = None /\ left' = "unknown"
  /\ UNCHANGED <<model, registry, row, deployed>>

\* lifespan: the server comes back with the rows and an empty registry.
Restart ==
  /\ "restart" \in Faults
  /\ registry' = None
  /\ call' = [t \in Callers |-> Idle]
  /\ alone' = None /\ left' = "unknown"
  /\ UNCHANGED <<model, row, deployed>>

Next ==
  \/ \E t \in Callers :
       \/ InsertRow(t) \/ RegisterModel(t)
       \/ Move(t) \/ ReadRow(t) \/ SetStatus(t) \/ WriteRow(t)
       \/ StartCanary(t) \/ InsertDeployment(t) \/ Rollback(t) \/ DrainOver(t)
       \/ ReadForDelete(t) \/ DeleteRow(t) \/ UnregisterModel(t)
       \/ DatabaseFails(t)
  \/ Restart

Spec == Init /\ [][Next]_vars
-----------------------------------------------------------------------------
(***************************************************************************)
(* Properties                                                              *)
(***************************************************************************)

Agree == IF registry = None THEN row = None ELSE row = model[registry]
Quiet == \A t \in Callers : call[t] = Idle

\* The stores stand as the last call said.
AsLeft ==
  /\ left = "agreed" => Agree
  /\ left = "missing" => (registry = None) # (row = None)
  /\ left = "paired" => registry # None /\ row # None

\* How the stores stand when nothing is in progress.  Calls that run one after the
\* other keep them in step.  After calls that overlapped or failed they may hold
\* anything, until a call that runs alone gets through: a move, a register or a
\* delete brings them back together, with two exceptions that no move repairs.  An
\* id whose row is gone, as after a delete that overlapped a load, or that is not in
\* memory, as after a restart or for a rollback that writes only the row, is left in
\* exactly one of the stores; and a register that memory refuses leaves the id in
\* both, with whatever states.
SequentialCallsAgree == Quiet => AsLeft
=============================================================================
