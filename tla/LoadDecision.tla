---------------------------- MODULE LoadDecision ----------------------------
(***************************************************************************)
(* One call of can_load: a GPU with some models loaded and awake, memory   *)
(* held by others, and a model to load.  The properties compare the        *)
(* decision with what carrying it out would do to the GPU.                 *)
(***************************************************************************)
EXTENDS GpuMemory, Sequences

CONSTANTS
  Profiles,    \* memory profiles of models
  Totals,      \* sizes of GPUs
  Foreign,     \* memory held by the context and other processes
  Overhead,    \* cuda_context_overhead_gb, which only a refusal's text looks at
  MaxLoaded    \* bound: models loaded at once

ASSUME LoadAssumption ==
  /\ Profiles \subseteq [weight : Nat, kv : Nat]
  /\ Totals \subseteq Nat /\ Foreign \subseteq Nat /\ Overhead \in Nat
  /\ MaxLoaded \in Nat

VARIABLES ask, answer

vars == <<ask, answer>>

Loadings == UNION {[1..n -> Profiles] : n \in 0..MaxLoaded}
Gpu(total, foreign, loaded) == [total |-> total, used |-> foreign + SumTotal(loaded)]
NoAnswer == [strategy |-> "none"]

\* Every GPU that holds what is loaded on it.
Init ==
  /\ ask \in {a \in [total : Totals, foreign : Foreign, loaded : Loadings, new : Profiles] :
                a.foreign + SumTotal(a.loaded) <= a.total}
  /\ answer = NoAnswer

Decide ==
  /\ answer = NoAnswer
  /\ answer' = CanLoad(Gpu(ask.total, ask.foreign, ask.loaded), Total(ask.new),
                       SumKv(ask.loaded), SumTotal(ask.loaded))
  /\ UNCHANGED ask

Spec == Init /\ [][Decide]_vars

Answered == answer # NoAnswer

\* What stays on the GPU beside the new model once the strategy is carried out on
\* all loaded models.
Remaining(strategy) ==
  ask.foreign + CASE strategy = "DIRECT"     -> SumTotal(ask.loaded)
                  [] strategy = "SLEEP_OLD"  -> SumTotal(ask.loaded) - SumKv(ask.loaded)
                  [] strategy = "UNLOAD_OLD" -> 0

Fits(strategy) == Remaining(strategy) + Total(ask.new) <= ask.total
-----------------------------------------------------------------------------
\* A decision that may be carried out leaves the GPU within its size (never OOM,
\* the reason can_load exists), if it is carried out on every loaded model.
ProceedNeverOverflows ==
  Answered /\ answer.strategy # "INSUFFICIENT" => Fits(answer.strategy)

\* With what others hold on the GPU left as it is, no strategy that disturbs the
\* loaded models less would have been enough, and a refusal means that none is.
CheapestSufficientStrategy ==
  Answered =>
    /\ answer.strategy # "DIRECT" => ~Fits("DIRECT")
    /\ answer.strategy \in {"UNLOAD_OLD", "INSUFFICIENT"} => ~Fits("SLEEP_OLD")
    /\ answer.strategy = "INSUFFICIENT" => ~Fits("UNLOAD_OLD")

\* SPEC.md:220-221, gpu_memory.py:14 and 174 and types.py:77 have UNLOAD_OLD and
\* INSUFFICIENT told apart by an empty GPU, its size less the context.
Documented ==
  IF Total(ask.new) <= ask.total - Overhead THEN "UNLOAD_OLD" ELSE "INSUFFICIENT"

\* The code tells them apart by what is free and what unloading frees (230-232).  It
\* departs from what is documented only because others hold more than the context,
\* when it refuses what an empty GPU would take, or less, when it loads what would
\* not fit beside the context that it expects; never by how the loaded models share
\* the memory.
DepartsByForeignMemory ==
  /\ Answered /\ answer.strategy \in {"UNLOAD_OLD", "INSUFFICIENT"}
  /\ answer.strategy # Documented
  => IF answer.strategy = "INSUFFICIENT" THEN ask.foreign > Overhead ELSE ask.foreign < Overhead

\* free_after_load_gb is the memory that is really left afterwards.
FreeAfterIsExact ==
  Answered /\ answer.strategy # "INSUFFICIENT" =>
    answer.free_after = ask.total - Remaining(answer.strategy) - Total(ask.new)
=============================================================================
