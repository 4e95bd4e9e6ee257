----------------------------- MODULE GpuMemory -----------------------------
(***************************************************************************)
(* The memory arithmetic of scheduler/gpu_memory.py: what a model needs    *)
(* and which of four strategies can_load picks.                            *)
(*                                                                         *)
(* The code computes in floating-point GB.  Here every amount is an exact  *)
(* integer in units of 1/80000 GB, the unit in which the byte and percent  *)
(* tables below make weight and KV cache whole numbers for whole billions  *)
(* of parameters and whole percents of utilization; rounding is left out,  *)
(* and so are the ValueErrors for parameters and utilizations out of range *)
(* and for unknown types, which no profile here provokes.                  *)
(***************************************************************************)
EXTENDS Integers, Sums

GB == 80000

\* Half bytes per parameter, and percents.
DTYPE_BYTES == [fp32 |-> 8, fp16 |-> 4, bf16 |-> 4, int8 |-> 2, int4 |-> 1]
QUANT_OVERHEAD == [none |-> 0, gptq |-> 5, awq |-> 5, gguf |-> 3]

\* P * B * (1 + Q), in units: one half byte per billion parameters is GB / 2.
WeightMemory(params, dtype, quant) ==
  params * DTYPE_BYTES[dtype] * (100 + QUANT_OVERHEAD[quant]) * (GB \div 200)

\* W * 0.25 * U with U in percent.
KvCacheFromWeight(weight, utilization) == (weight \div 400) * utilization

ModelProfile(params, dtype, quant, utilization) ==
  LET weight == WeightMemory(params, dtype, quant)
  IN [weight |-> weight, kv |-> KvCacheFromWeight(weight, utilization)]

Total(profile) == profile.weight + profile.kv

FreeMemory(gpu) == IF gpu.used >= gpu.total THEN 0 ELSE gpu.total - gpu.used

Strategies == {"DIRECT", "SLEEP_OLD", "UNLOAD_OLD", "INSUFFICIENT"}
Decision(strategy, after) == [strategy |-> strategy, free_after |-> after]

\* Mutant: the second branch counts what unloading would free.
Mut_SleepCountsAll(gpu, required, kv, all) ==
  LET free == FreeMemory(gpu)
  IN CASE free >= required       -> Decision("DIRECT", free - required)
       [] free < required /\ free + all >= required
                                 -> Decision("SLEEP_OLD", free + all - required)
       [] OTHER                  -> Decision("INSUFFICIENT", 0)

\* Mutant: the branches tried in the opposite order.
Mut_UnloadFirst(gpu, required, kv, all) ==
  LET free == FreeMemory(gpu)
  IN CASE free >= required       -> Decision("DIRECT", free - required)
       [] free < required /\ free + all >= required
                                 -> Decision("UNLOAD_OLD", free + all - required)
       [] OTHER                  -> Decision("INSUFFICIENT", 0)

\* Mutant: the reported remainder forgets what the strategy frees.
Mut_AfterForgets(gpu, required, kv, all) ==
  LET free == FreeMemory(gpu)
  IN CASE free >= required -> Decision("DIRECT", free - required)
       [] free < required /\ free + kv >= required -> Decision("SLEEP_OLD", 0)
       [] free + kv < required /\ free + all >= required -> Decision("UNLOAD_OLD", 0)
       [] OTHER -> Decision("INSUFFICIENT", 0)

\* Mutant: the third branch sums the KV caches once more.
Mut_UnloadCountsKv(gpu, required, kv, all) ==
  LET free == FreeMemory(gpu)
  IN CASE free >= required -> Decision("DIRECT", free - required)
       [] free < required /\ free + kv >= required
            -> Decision("SLEEP_OLD", free + kv - required)
       [] OTHER -> Decision("INSUFFICIENT", 0)

(***************************************************************************)
(* can_load's decision tree.  kv and all are the sums over the loaded      *)
(* models of their KV caches and of their whole footprints; callers pass   *)
(* profiles, which do not say whether a model is awake.                    *)
(***************************************************************************)
CanLoad(gpu, required, kv, all) ==
  LET free == FreeMemory(gpu)
  IN CASE free >= required -> Decision("DIRECT", free - required)
       [] free < required /\ free + kv >= required
            -> Decision("SLEEP_OLD", free + kv - required)
       [] free < required /\ free + kv < required /\ free + all >= required
            -> Decision("UNLOAD_OLD", free + all - required)
       [] OTHER -> Decision("INSUFFICIENT", 0)

\* The sums over a list of profiles.
SumKv(loaded) == SumOver([i \in DOMAIN loaded |-> loaded[i].kv], DOMAIN loaded)
SumTotal(loaded) == SumOver([i \in DOMAIN loaded |-> Total(loaded[i])], DOMAIN loaded)
=============================================================================
