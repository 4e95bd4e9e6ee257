------------------------------- MODULE Drain -------------------------------
(***************************************************************************)
(* Draining one model: the Drainer of router/drain.py polls the model's    *)
(* in-flight counter until it is zero or a deadline passes, and forces the *)
(* counter to zero in the second case; drain_and_sleep then puts the model *)
(* to sleep.  Requests raise and lower the counter, several drains may run *)
(* at once, and the management API moves the model meanwhile.              *)
(*                                                                         *)
(* The persistence callback is the default one, so a transition never      *)
(* suspends: the only suspension point of a drain is the sleep between two *)
(* polls, and a step here is what runs between two of those.  Time is      *)
(* abstract: the deadline may have passed at any poll.                     *)
(***************************************************************************)
EXTENDS ModelStates, Integers, FiniteSets

CONSTANTS
  Requests,    \* requests the proxy may send to the model
  Drainers     \* tasks that drain it

ASSUME DrainAssumption == IsFiniteSet(Requests)

VARIABLES
  state,       \* Model.state
  pending,     \* Model.pending_requests
  req,         \* where each request is
  drainer      \* where each drain is, and how it ended

vars == <<state, pending, req, drainer>>

\* "cut": in flight when a drain forced the counter; "late": such a request that
\* has finished since, and has decremented the counter all the same.
ReqState == {"new", "running", "done", "cut", "late"}
DrainState == {"idle", "polling", "natural", "forced", "failed"}

In(s) == {r \in Requests : req[r] = s}
Running == In("running")
Late == In("late")

DrainTypeOK ==
  /\ state \in ModelState
  /\ pending \in Nat
  /\ req \in [Requests -> ReqState]
  /\ drainer \in [Drainers -> DrainState]
-----------------------------------------------------------------------------
Init ==
  /\ state = "ACTIVE"
  /\ pending = 0
  /\ req = [r \in Requests |-> "new"]
  /\ drainer = [d \in Drainers |-> "idle"]

\* The proxy picks an ACTIVE model and counts the request before forwarding it.
Admit(r) ==
  /\ req[r] = "new"
  /\ CanServe(state)
  /\ pending' = pending + 1
  /\ req' = [req EXCEPT ![r] = "running"]
  /\ UNCHANGED <<state, drainer>>

\* Mutant: the clamp at zero is missing.
Mut_Unclamped(n) == n - 1

Decremented(n) == IF n = 0 THEN 0 ELSE n - 1

\* A request ends and decrements the counter, also when a forced drain has
\* stopped waiting for it: nothing cancels it.
Finish(r) ==
  /\ req[r] \in {"running", "cut"}
  /\ pending' = Decremented(pending)
  /\ req' = [req EXCEPT ![r] = IF @ = "cut" THEN "late" ELSE "done"]
  /\ UNCHANGED <<state, drainer>>

\* drain_and_sleep's last step: SLEEPING from wherever the model is by now, or an
\* IllegalTransitionError out of the drain.
Conclude(d, from, outcome) ==
  /\ state' = SleepPath(from).state
  /\ drainer' = [drainer EXCEPT ![d] = IF SleepPath(from).legal THEN outcome ELSE "failed"]

\* Drainer.start joins a drain in progress and refuses any other state.
Begin(d) ==
  /\ drainer[d] = "idle"
  /\ UNCHANGED <<pending, req>>
  /\ \/ /\ state \in {"ACTIVE", "DRAINING"}
        /\ pending = 0
        /\ Conclude(d, "DRAINING", "natural")
     \/ /\ state \in {"ACTIVE", "DRAINING"}
        /\ pending > 0
        /\ state' = "DRAINING"
        /\ drainer' = [drainer EXCEPT ![d] = "polling"]
     \/ /\ state \notin {"ACTIVE", "DRAINING"}
        /\ drainer' = [drainer EXCEPT ![d] = "failed"]
        /\ UNCHANGED state

\* Mutant: the poll stops one request early.
Mut_OneLeft(n) == n <= 1

NoneLeft(n) == n = 0

\* The next poll finds the counter at zero.
Drained(d) ==
  /\ drainer[d] = "polling"
  /\ NoneLeft(pending)
  /\ Conclude(d, state, "natural")
  /\ UNCHANGED <<pending, req>>

\* Mutants: force() gives up on one request only, or is never called.
Mut_ForceOne(n) == n - 1
Mut_NeverPassed(d) == FALSE

Forced(n) == 0
DeadlinePassed(d) == drainer[d] = "polling" /\ pending > 0

\* The deadline passes first: force() gives up on the requests in flight.
TimeOut(d) ==
  /\ DeadlinePassed(d)
  /\ pending' = Forced(pending)
  /\ req' = [r \in Requests |-> IF req[r] = "running" THEN "cut" ELSE req[r]]
  /\ Conclude(d, state, "forced")

\* The caller has its answer and may drain the model again later.
Return(d) ==
  /\ drainer[d] \in {"natural", "forced", "failed"}
  /\ drainer' = [drainer EXCEPT ![d] = "idle"]
  /\ UNCHANGED <<state, pending, req>>

\* The management API moves the model without asking who is draining it.
Operate ==
  /\ state' \in {LoadPath(state).state, SleepPath(state).state, UnloadPath(state).state}
  /\ UNCHANGED <<pending, req, drainer>>

Poll(d) == Drained(d) \/ TimeOut(d)

Next ==
  \/ \E r \in Requests : Admit(r) \/ Finish(r)
  \/ \E d \in Drainers : Begin(d) \/ Poll(d) \/ Return(d)
  \/ Operate

\* The event loop resumes a sleeping drain and its clock reaches the deadline;
\* nothing makes a request finish.
Fairness == \A d \in Drainers : WF_vars(Poll(d))

Spec == Init /\ [][Next]_vars /\ Fairness
-----------------------------------------------------------------------------
(***************************************************************************)
(* Properties                                                              *)
(***************************************************************************)

\* The counter never counts a request that is not in flight, so that no drain
\* waits in vain; and it misses at most one request in flight for every request
\* that finished after a forced drain had given up on it.
CounterTracksRequests ==
  /\ pending <= Cardinality(Running)
  /\ Cardinality(Running) - Cardinality(Late) <= pending

\* A drain that reports a natural end (True) leaves no request running, as long
\* as no late decrement of an earlier forced drain has hidden one.
NaturalDrainIsClean ==
  [][\A d \in Drainers :
       drainer'[d] = "natural" /\ drainer[d] # "natural" => Running = {} \/ Late # {}]_vars

\* Every drain ends, although requests may run for ever.
DrainEnds == \A d \in Drainers : (drainer[d] = "polling") ~> (drainer[d] # "polling")
=============================================================================
