-------------------------- MODULE GpuMemoryProofs --------------------------
(***************************************************************************)
(* can_load's arithmetic for every GPU and every load, in terms of what is *)
(* on the GPU: foreign memory, and the weights and KV caches of the loaded *)
(* models.  The reading may be stale: what matters is that it does not     *)
(* show less than what is in use when the decision is carried out.  What   *)
(* the runs check of a list of loaded models follows, for lists of any     *)
(* length.                                                                 *)
(***************************************************************************)
EXTENDS LoadDecision, SumProofs

Reading(total, used) == [total |-> total, used |-> used]

\* A strategy that may proceed fits, if it is carried out on every loaded model
\* and the reading of the GPU is exact or overstates what is in use.
THEOREM DecisionIsSafe ==
  ASSUME NEW total \in Nat, NEW used \in Nat, NEW required \in Nat,
         NEW foreign \in Nat, NEW weight \in Nat, NEW kv \in Nat,
         foreign + weight + kv <= total,
         foreign + weight + kv <= used,
         NEW strategy,
         strategy = CanLoad(Reading(total, used), required, kv, weight + kv).strategy
  PROVE  /\ strategy = "DIRECT" => foreign + weight + kv + required <= total
         /\ strategy = "SLEEP_OLD" => foreign + weight + required <= total
         /\ strategy = "UNLOAD_OLD" => foreign + required <= total
<1> DEFINE free == FreeMemory(Reading(total, used))
<1>1. /\ free \in Nat
      /\ free + foreign + weight + kv <= total
  BY DEF FreeMemory, Reading
<1>. HIDE DEF free
<1>2. CASE free >= required
  BY <1>1, <1>2 DEF CanLoad, Decision, free
<1>3. CASE free < required /\ free + kv >= required
  <2>1. strategy = "SLEEP_OLD"
    BY <1>1, <1>3 DEF CanLoad, Decision, free
  <2>2. QED
    BY <1>1, <1>3, <2>1
<1>4. CASE free < required /\ free + kv < required /\ free + (weight + kv) >= required
  <2>1. strategy = "UNLOAD_OLD"
    BY <1>1, <1>4 DEF CanLoad, Decision, free
  <2>2. QED
    BY <1>1, <1>4, <2>1
<1>5. CASE free < required /\ free + kv < required /\ free + (weight + kv) < required
  <2>1. strategy = "INSUFFICIENT"
    BY <1>1, <1>5 DEF CanLoad, Decision, free
  <2>2. QED
    BY <2>1
<1>6. QED
  BY <1>1, <1>2, <1>3, <1>4, <1>5

\* With an exact reading no strategy that disturbs less would have fitted, and a
\* refusal means that the new model does not fit even with every model unloaded.
THEOREM DecisionIsCheapest ==
  ASSUME NEW total \in Nat, NEW required \in Nat,
         NEW foreign \in Nat, NEW weight \in Nat, NEW kv \in Nat,
         foreign + weight + kv <= total,
         NEW strategy,
         strategy = CanLoad(Reading(total, foreign + weight + kv),
                            required, kv, weight + kv).strategy
  PROVE  /\ strategy \in Strategies
         /\ strategy # "DIRECT" => foreign + weight + kv + required > total
         /\ strategy \in {"UNLOAD_OLD", "INSUFFICIENT"} => foreign + weight + required > total
         /\ strategy = "INSUFFICIENT" => foreign + required > total
<1> DEFINE free == FreeMemory(Reading(total, foreign + weight + kv))
<1>1. free = total - (foreign + weight + kv) /\ free \in Nat
  BY DEF FreeMemory, Reading
<1>. HIDE DEF free
<1>2. CASE free >= required
  <2>1. strategy = "DIRECT"
    BY <1>1, <1>2 DEF CanLoad, Decision, free
  <2>2. QED
    BY <2>1 DEF Strategies
<1>3. CASE free < required /\ free + kv >= required
  <2>1. strategy = "SLEEP_OLD"
    BY <1>1, <1>3 DEF CanLoad, Decision, free
  <2>2. QED
    BY <1>1, <1>3, <2>1 DEF Strategies
<1>4. CASE free < required /\ free + kv < required /\ free + (weight + kv) >= required
  <2>1. strategy = "UNLOAD_OLD"
    BY <1>1, <1>4 DEF CanLoad, Decision, free
  <2>2. QED
    BY <1>1, <1>4, <2>1 DEF Strategies
<1>5. CASE free < required /\ free + kv < required /\ free + (weight + kv) < required
  <2>1. strategy = "INSUFFICIENT"
    BY <1>1, <1>5 DEF CanLoad, Decision, free
  <2>2. QED
    BY <1>1, <1>5, <2>1 DEF Strategies
<1>6. QED
  BY <1>1, <1>2, <1>3, <1>4, <1>5
-----------------------------------------------------------------------------
(***************************************************************************)
(* The specification LoadDecision: one list of loaded models, one answer.  *)
(***************************************************************************)

\* The KV caches of the loaded models are a part of what they hold.
LEMMA LoadedSums ==
  ASSUME NEW loaded \in Loadings
  PROVE  /\ SumKv(loaded) \in Nat /\ SumTotal(loaded) \in Nat
         /\ SumKv(loaded) <= SumTotal(loaded)
<1>1. PICK n \in 0..MaxLoaded : loaded \in [1..n -> Profiles]
  BY DEF Loadings
<1>2. DOMAIN loaded = 1..n /\ IsFiniteSet(1..n)
  BY <1>1, LoadAssumption, FS_Interval
<1>. DEFINE kv == [i \in 1..n |-> loaded[i].kv]
            all == [i \in 1..n |-> Total(loaded[i])]
<1>3. \A i \in 1..n : loaded[i].weight \in Nat /\ loaded[i].kv \in Nat
  BY <1>1, LoadAssumption
<1>4. /\ \A i \in 1..n : kv[i] \in Nat
      /\ \A i \in 1..n : all[i] \in Nat
      /\ \A i \in 1..n : kv[i] \in Int /\ all[i] \in Int /\ kv[i] <= all[i]
  BY <1>3 DEF Total
<1>5. SumKv(loaded) = SumOver(kv, 1..n) /\ SumTotal(loaded) = SumOver(all, 1..n)
  BY <1>2 DEF SumKv, SumTotal
<1>. HIDE DEF kv, all
<1>. QED
  BY <1>2, <1>4, <1>5, SumNat, SumMonotonic

Verdict ==
  CanLoad(Gpu(ask.total, ask.foreign, ask.loaded), Total(ask.new),
          SumKv(ask.loaded), SumTotal(ask.loaded))

\* The inductive invariant: what is asked is a GPU that holds its load, and the
\* answer is can_load's.
IInv ==
  /\ ask \in [total : Totals, foreign : Foreign, loaded : Loadings, new : Profiles]
  /\ ask.foreign + SumTotal(ask.loaded) <= ask.total
  /\ answer \in {NoAnswer, Verdict}

LEMMA IInvHolds == Spec => []IInv
<1>1. Init => IInv
  BY DEF Init, IInv
<1>2. IInv /\ [Decide]_vars => IInv'
  BY DEF IInv, Decide, vars, Verdict
<1>. QED
  BY <1>1, <1>2, PTL DEF Spec

\* The memory in use, split for the theorems above.
LEMMA Amounts ==
  ASSUME IInv
  PROVE  \E weight \in Nat :
           /\ SumTotal(ask.loaded) = weight + SumKv(ask.loaded)
           /\ ask.foreign + weight + SumKv(ask.loaded) <= ask.total
           /\ ask.foreign \in Nat /\ ask.total \in Nat /\ Total(ask.new) \in Nat
           /\ SumKv(ask.loaded) \in Nat
           /\ Verdict = CanLoad(Reading(ask.total, ask.foreign + weight + SumKv(ask.loaded)),
                                Total(ask.new), SumKv(ask.loaded),
                                weight + SumKv(ask.loaded))
<1>. DEFINE kv == SumKv(ask.loaded)
            all == SumTotal(ask.loaded)
            weight == all - kv
<1>1. ask.foreign \in Nat /\ ask.total \in Nat /\ ask.loaded \in Loadings
  BY LoadAssumption DEF IInv
<1>2. Total(ask.new) \in Nat
  <2>1. ask.new.weight \in Nat /\ ask.new.kv \in Nat
    BY LoadAssumption DEF IInv
  <2>. QED
    BY <2>1 DEF Total
<1>3. kv \in Nat /\ all \in Nat /\ kv <= all
  BY <1>1, LoadedSums
<1>4. ask.foreign + all <= ask.total
  BY DEF IInv
<1>5. Verdict = CanLoad(Reading(ask.total, ask.foreign + all), Total(ask.new), kv, all)
  BY DEF Verdict, Gpu, Reading
<1>. HIDE DEF kv, all
<1>6. weight \in Nat /\ all = weight + kv /\ ask.foreign + weight + kv = ask.foreign + all
  BY <1>1, <1>3
<1>7. Verdict = CanLoad(Reading(ask.total, ask.foreign + weight + kv), Total(ask.new), kv,
                        weight + kv)
  BY <1>5, <1>6
<1>. HIDE DEF weight
<1>8. ask.foreign + weight + kv <= ask.total
  BY <1>4, <1>6
<1>. QED
  BY <1>1, <1>2, <1>3, <1>6, <1>7, <1>8 DEF kv, all

LEMMA ExactIsSafe ==
  ASSUME NEW total \in Nat, NEW required \in Nat,
         NEW foreign \in Nat, NEW weight \in Nat, NEW kv \in Nat,
         foreign + weight + kv <= total,
         NEW strategy,
         strategy = CanLoad(Reading(total, foreign + weight + kv),
                            required, kv, weight + kv).strategy
  PROVE  /\ strategy = "DIRECT" => foreign + weight + kv + required <= total
         /\ strategy = "SLEEP_OLD" => foreign + weight + required <= total
         /\ strategy = "UNLOAD_OLD" => foreign + required <= total
<1>. DEFINE used == foreign + weight + kv
<1>1. used \in Nat /\ foreign + weight + kv <= used
  OBVIOUS
<1>2. strategy = CanLoad(Reading(total, used), required, kv, weight + kv).strategy
  OBVIOUS
<1>. HIDE DEF used
<1>. QED
  BY <1>1, <1>2, DecisionIsSafe

\* What ProceedNeverOverflows says of can_load, for any loaded models: a decision
\* that may be carried out, and is so on all of them, leaves the GPU within its size.
THEOREM ProceedIsSafe == Spec => []ProceedNeverOverflows
<1>1. ASSUME IInv
      PROVE  ProceedNeverOverflows
  <2>. SUFFICES ASSUME Answered, answer.strategy # "INSUFFICIENT"
                PROVE  Fits(answer.strategy)
    BY DEF ProceedNeverOverflows
  <2>1. answer = Verdict
    BY <1>1 DEF IInv, Answered
  <2>2. PICK weight \in Nat :
           /\ SumTotal(ask.loaded) = weight + SumKv(ask.loaded)
           /\ ask.foreign + weight + SumKv(ask.loaded) <= ask.total
           /\ ask.foreign \in Nat /\ ask.total \in Nat /\ Total(ask.new) \in Nat
           /\ SumKv(ask.loaded) \in Nat
           /\ Verdict = CanLoad(Reading(ask.total, ask.foreign + weight + SumKv(ask.loaded)),
                                Total(ask.new), SumKv(ask.loaded),
                                weight + SumKv(ask.loaded))
    BY <1>1, Amounts
  <2>4. /\ answer.strategy = "DIRECT" =>
             ask.foreign + weight + SumKv(ask.loaded) + Total(ask.new) <= ask.total
        /\ answer.strategy = "SLEEP_OLD" => ask.foreign + weight + Total(ask.new) <= ask.total
        /\ answer.strategy = "UNLOAD_OLD" => ask.foreign + Total(ask.new) <= ask.total
    BY <2>1, <2>2, ExactIsSafe
  <2>5. answer.strategy \in Strategies
    BY <2>1, <2>2, DecisionIsCheapest
  <2>6. CASE answer.strategy = "DIRECT"
    BY <2>2, <2>4, <2>6 DEF Fits, Remaining
  <2>7. CASE answer.strategy = "SLEEP_OLD"
    BY <2>2, <2>4, <2>7 DEF Fits, Remaining
  <2>8. CASE answer.strategy = "UNLOAD_OLD"
    BY <2>2, <2>4, <2>8 DEF Fits, Remaining
  <2>. QED
    BY <2>5, <2>6, <2>7, <2>8 DEF Strategies
<1>. QED
  BY <1>1, IInvHolds, PTL

\* What CheapestSufficientStrategy says: nothing that disturbs the loaded models less
\* would have done.
THEOREM StrategyIsCheapest == Spec => []CheapestSufficientStrategy
<1>1. ASSUME IInv
      PROVE  CheapestSufficientStrategy
  <2>. SUFFICES ASSUME Answered
                PROVE  /\ answer.strategy # "DIRECT" => ~Fits("DIRECT")
                       /\ answer.strategy \in {"UNLOAD_OLD", "INSUFFICIENT"} => ~Fits("SLEEP_OLD")
                       /\ answer.strategy = "INSUFFICIENT" => ~Fits("UNLOAD_OLD")
    BY DEF CheapestSufficientStrategy
  <2>1. answer = Verdict
    BY <1>1 DEF IInv, Answered
  <2>2. PICK weight \in Nat :
           /\ SumTotal(ask.loaded) = weight + SumKv(ask.loaded)
           /\ ask.foreign + weight + SumKv(ask.loaded) <= ask.total
           /\ ask.foreign \in Nat /\ ask.total \in Nat /\ Total(ask.new) \in Nat
           /\ SumKv(ask.loaded) \in Nat
           /\ Verdict = CanLoad(Reading(ask.total, ask.foreign + weight + SumKv(ask.loaded)),
                                Total(ask.new), SumKv(ask.loaded),
                                weight + SumKv(ask.loaded))
    BY <1>1, Amounts
  <2>3. /\ answer.strategy # "DIRECT" =>
             ask.foreign + weight + SumKv(ask.loaded) + Total(ask.new) > ask.total
        /\ answer.strategy \in {"UNLOAD_OLD", "INSUFFICIENT"} =>
             ask.foreign + weight + Total(ask.new) > ask.total
        /\ answer.strategy = "INSUFFICIENT" => ask.foreign + Total(ask.new) > ask.total
    BY <2>1, <2>2, DecisionIsCheapest
  <2>4. Fits("DIRECT") => ask.foreign + weight + SumKv(ask.loaded) + Total(ask.new) <= ask.total
    BY <2>2 DEF Fits, Remaining
  <2>5. Fits("SLEEP_OLD") => ask.foreign + weight + Total(ask.new) <= ask.total
    BY <2>2 DEF Fits, Remaining
  <2>6. Fits("UNLOAD_OLD") => ask.foreign + Total(ask.new) <= ask.total
    BY <2>2 DEF Fits, Remaining
  <2>7. \A a, b \in Int : a > b => ~(a <= b)
    OBVIOUS
  <2>. QED
    BY <2>2, <2>3, <2>4, <2>5, <2>6, <2>7
<1>. QED
  BY <1>1, IInvHolds, PTL

\* Where can_load departs from the documented rule of the empty GPU, for any loaded
\* models: only by what others hold beyond, or short of, the context.
THEOREM DepartureIsForeign == Spec => []DepartsByForeignMemory
<1>1. ASSUME IInv
      PROVE  DepartsByForeignMemory
  <2>. SUFFICES ASSUME Answered
                PROVE  /\ answer.strategy = "INSUFFICIENT" /\ Total(ask.new) <= ask.total - Overhead
                            => ask.foreign > Overhead
                       /\ answer.strategy = "UNLOAD_OLD" /\ ~(Total(ask.new) <= ask.total - Overhead)
                            => ask.foreign < Overhead
    BY DEF DepartsByForeignMemory, Documented
  <2>1. answer = Verdict
    BY <1>1 DEF IInv, Answered
  <2>2. PICK weight \in Nat :
           /\ SumTotal(ask.loaded) = weight + SumKv(ask.loaded)
           /\ ask.foreign + weight + SumKv(ask.loaded) <= ask.total
           /\ ask.foreign \in Nat /\ ask.total \in Nat /\ Total(ask.new) \in Nat
           /\ SumKv(ask.loaded) \in Nat
           /\ Verdict = CanLoad(Reading(ask.total, ask.foreign + weight + SumKv(ask.loaded)),
                                Total(ask.new), SumKv(ask.loaded),
                                weight + SumKv(ask.loaded))
    BY <1>1, Amounts
  <2>3. answer.strategy = "INSUFFICIENT" => ask.foreign + Total(ask.new) > ask.total
    BY <2>1, <2>2, DecisionIsCheapest
  <2>4. answer.strategy = "UNLOAD_OLD" => ask.foreign + Total(ask.new) <= ask.total
    BY <2>1, <2>2, ExactIsSafe
  <2>5. Overhead \in Nat
    BY LoadAssumption
  <2>. QED
    BY <2>2, <2>3, <2>4, <2>5
<1>. QED
  BY <1>1, IInvHolds, PTL

\* free_after_load_gb, as FreeAfterIsExact reads it, for any loaded models.
THEOREM FreeAfterIsTrue == Spec => []FreeAfterIsExact
<1>1. ASSUME IInv
      PROVE  FreeAfterIsExact
  <2>. SUFFICES ASSUME Answered, answer.strategy # "INSUFFICIENT"
                PROVE  answer.free_after
                         = ask.total - Remaining(answer.strategy) - Total(ask.new)
    BY DEF FreeAfterIsExact
  <2>. DEFINE kv == SumKv(ask.loaded)
              all == SumTotal(ask.loaded)
              required == Total(ask.new)
              free == ask.total - (ask.foreign + all)
  <2>1. answer = Verdict
    BY <1>1 DEF IInv, Answered
  <2>2. /\ ask.foreign \in Nat /\ ask.total \in Nat /\ required \in Nat
        /\ kv \in Nat /\ all \in Nat /\ ask.foreign + all <= ask.total
    BY <1>1, Amounts
  <2>3. FreeMemory(Gpu(ask.total, ask.foreign, ask.loaded)) = free /\ free \in Nat
    BY <2>2 DEF FreeMemory, Gpu
  <2>4. answer = LET f == free
                 IN CASE f >= required -> Decision("DIRECT", f - required)
                      [] f < required /\ f + kv >= required
                           -> Decision("SLEEP_OLD", f + kv - required)
                      [] f < required /\ f + kv < required /\ f + all >= required
                           -> Decision("UNLOAD_OLD", f + all - required)
                      [] OTHER -> Decision("INSUFFICIENT", 0)
    BY <2>1, <2>3 DEF Verdict, CanLoad
  <2>5. /\ Remaining("DIRECT") = ask.foreign + all
        /\ Remaining("SLEEP_OLD") = ask.foreign + (all - kv)
        /\ Remaining("UNLOAD_OLD") = ask.foreign + 0
    BY DEF Remaining
  <2>. HIDE DEF kv, all, required
  <2>6. CASE free >= required
    <3>1. answer = Decision("DIRECT", free - required)
      BY <2>2, <2>3, <2>4, <2>6
    <3>. QED
      BY <2>2, <2>5, <3>1 DEF Decision, required
  <2>7. CASE free < required /\ free + kv >= required
    <3>1. answer = Decision("SLEEP_OLD", free + kv - required)
      BY <2>2, <2>3, <2>4, <2>7
    <3>. QED
      BY <2>2, <2>5, <3>1 DEF Decision, required
  <2>8. CASE free < required /\ free + kv < required /\ free + all >= required
    <3>1. answer = Decision("UNLOAD_OLD", free + all - required)
      BY <2>2, <2>3, <2>4, <2>8
    <3>. QED
      BY <2>2, <2>5, <3>1 DEF Decision, required
  <2>9. CASE free < required /\ free + kv < required /\ free + all < required
    <3>1. answer = Decision("INSUFFICIENT", 0)
      BY <2>2, <2>3, <2>4, <2>9
    <3>. QED
      BY <3>1 DEF Decision
  <2>. QED
    BY <2>2, <2>3, <2>6, <2>7, <2>8, <2>9
<1>. QED
  BY <1>1, IInvHolds, PTL
=============================================================================
