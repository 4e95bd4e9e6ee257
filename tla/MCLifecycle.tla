---------------------------- MODULE MCLifecycle ----------------------------
(***************************************************************************)
(* An instance of Lifecycle for TLC.  Locks of different models do not     *)
(* interact, so one model is enough; of two tasks one waits while the      *)
(* other goes round and round through the lock.                            *)
(***************************************************************************)
EXTENDS Lifecycle
CONSTANTS m1, t1, t2, none
MCModels == {m1}
MCTasks == {t1, t2}
=============================================================================
