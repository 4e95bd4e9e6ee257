------------------------------ MODULE Service ------------------------------
(***************************************************************************)
(* What hot swaps promise to the clients of one GPU: at every moment some  *)
(* model serves, or a swap is in the gap between releasing its old model   *)
(* and loading its new one; a swap that succeeds has brought its new model *)
(* into service; and gaps end.                                             *)
(***************************************************************************)
CONSTANTS Models, Swaps

VARIABLES
  awake,       \* the models that serve
  phase        \* how far each swap is

vars == <<awake, phase>>

Phases == {"idle", "deciding", "gap", "retiring", "done", "failed"}

ServiceTypeOK ==
  /\ awake \subseteq Models
  /\ phase \in [Swaps -> Phases]

Init ==
  /\ awake \in (SUBSET Models) \ {{}}
  /\ phase = [s \in Swaps |-> "idle"]

\* Swap s goes from one of the given phases to another.
Go(s, from, to) ==
  /\ phase[s] \in from
  /\ phase' = [phase EXCEPT ![s] = to]

\* The models that stop and start serving in a step.
Stopping == awake \ awake'
Starting == awake' \ awake
AtMostOne(S) == \A x, y \in S : x = y

Call(s) == Go(s, {"idle"}, "deciding") /\ UNCHANGED awake

\* The old model stops serving first; it may have been stopped already.
Release(s) ==
  /\ Go(s, {"deciding"}, "gap")
  /\ Starting = {} /\ AtMostOne(Stopping)

\* The new model serves; the old one has stopped, or does so now and is drained.
Load(s) ==
  /\ \/ Go(s, {"deciding", "gap"}, "done")
     \/ Go(s, {"deciding"}, "retiring")
  /\ Starting # {} /\ AtMostOne(Starting) /\ AtMostOne(Stopping)

Retire(s) == Go(s, {"retiring"}, "done") /\ UNCHANGED awake

\* A swap that fails may leave its old model stopped.
Fail(s) ==
  /\ Go(s, {"deciding", "gap", "retiring"}, "failed")
  /\ Starting = {} /\ AtMostOne(Stopping)

Return(s) == Go(s, {"done", "failed"}, "idle") /\ UNCHANGED awake

\* An operator brings a model into service.
Wake == Stopping = {} /\ UNCHANGED phase

InService == awake # {} \/ \E s \in Swaps : phase[s] = "gap"

Next ==
  /\ \/ Wake
     \/ \E s \in Swaps :
          Call(s) \/ Release(s) \/ Load(s) \/ Retire(s) \/ Fail(s) \/ Return(s)
  /\ InService'

GapsEnd == \A s \in Swaps : (phase[s] = "gap") ~> (phase[s] # "gap")

Safety == Init /\ [][Next]_vars

Spec == Safety /\ GapsEnd
=============================================================================
