---------------------------- MODULE ModelStates ----------------------------
(***************************************************************************)
(* The vocabulary every component shares: the states of a model version,   *)
(* the table of legal transitions, the predicates the code asks of a       *)
(* state, and what a path of transitions does when nothing runs in         *)
(* between.                                                                *)
(***************************************************************************)

ModelState == {"IDLE", "LOADING", "ACTIVE", "DRAINING", "SLEEPING", "UNLOADING", "ERROR"}

TRANSITIONS ==
  [IDLE      |-> {"LOADING"},
   LOADING   |-> {"ACTIVE", "ERROR"},
   ACTIVE    |-> {"DRAINING", "SLEEPING", "ERROR"},
   DRAINING  |-> {"SLEEPING", "ERROR"},
   SLEEPING  |-> {"LOADING", "UNLOADING", "ERROR"},
   UNLOADING |-> {"IDLE", "ERROR"},
   ERROR     |-> {"IDLE"}]

IsValidTransition(from, to) == to \in TRANSITIONS[from]

CanServe(s) == s = "ACTIVE"
IsOnGpu(s) == s \in {"LOADING", "ACTIVE", "DRAINING", "SLEEPING"}
IsTerminal(s) == s \in {"IDLE", "ERROR"}

(***************************************************************************)
(* With the default persistence callback nothing suspends inside           *)
(* transition(), so `for target in path: await model.transition(target)`   *)
(* is one step of the event loop.  It stops at the first illegal           *)
(* transition and keeps the states it has already gone through.            *)
(***************************************************************************)
At(s) == [state |-> s, legal |-> TRUE]
Then(done, to) ==
  IF done.legal /\ IsValidTransition(done.state, to)
    THEN [state |-> to, legal |-> TRUE]
    ELSE [state |-> done.state, legal |-> FALSE]

\* Mutant: a load that forgets its second transition.
Mut_LoadStops(s) == Then(At(s), "LOADING")

LoadPath(s) == Then(Then(At(s), "LOADING"), "ACTIVE")
SleepPath(s) == Then(At(s), "SLEEPING")
UnloadPath(s) == Then(Then(Then(Then(At(s), "DRAINING"), "SLEEPING"), "UNLOADING"), "IDLE")
=============================================================================
