---------------------------- MODULE RolloutRules ----------------------------
(***************************************************************************)
(* The rules that judge a canary: the statistics of metrics_collector.py,  *)
(* the thresholds of strategy.py with should_advance, and the rollback     *)
(* checker.  No state: constant operators, like the code's pure functions. *)
(*                                                                         *)
(* A metric is a set with one fraction <<numerator, denominator>>, or the  *)
(* empty set for None and for NaN, which no comparison of the code holds   *)
(* for.  The code computes in floating point; here fractions are exact.    *)
(***************************************************************************)
EXTENDS Integers, Sequences, FiniteSets, SequencesExt, Sums

(***************************************************************************)
(* Statistics of samples, which are integers.                              *)
(***************************************************************************)
Ascending(values) == \A i, j \in DOMAIN values : i <= j => values[i] <= values[j]

\* sorted(values)
Sorted(values) ==
  LET In(order) == [i \in DOMAIN values |-> values[order[i]]]
  IN In(CHOOSE order \in Bijection(DOMAIN values, DOMAIN values) : Ascending(In(order)))

\* percentile: linear interpolation between the neighbours of rank p(n-1)/100.
Percentile(values, p) ==
  LET s == Sorted(values)
      rank == p * (Len(s) - 1)
      lower == rank \div 100 + 1
      frac == rank % 100
  IN IF s = <<>> THEN {}
     ELSE IF frac = 0 THEN {<<s[lower], 1>>}
     ELSE {<<s[lower] * (100 - frac) + s[lower + 1] * frac, 100>>}

Mean(values) ==
  IF values = <<>> THEN {} ELSE {<<SumOver(values, DOMAIN values), Len(values)>>}

\* collect_version_metrics_from_samples.
MetricsOf(s) ==
  [ttft_p50   |-> Percentile(s.ttft, 50),
   ttft_p99   |-> Percentile(s.ttft, 99),
   tpot_mean  |-> Mean(s.tpot),
   throughput |-> s.throughput,
   error_rate |-> IF s.requests > 0 THEN {<<s.errors, s.requests>>} ELSE {}]

\* MetricsCollector's own ways: nothing without Prometheus; with it two quantiles,
\* each missing when its query fails for whatever reason.
NoMetrics ==
  [ttft_p50 |-> {}, ttft_p99 |-> {}, tpot_mean |-> {}, throughput |-> {}, error_rate |-> {}]
Collected(p50, p99) == [NoMetrics EXCEPT !.ttft_p50 = p50, !.ttft_p99 = p99]

\* Mutant: the samples below the bucket are not taken off.
Mut_FromZero(below, bucket, target) ==
  LET width == bucket.count - below.count
  IN IF width = 0 THEN {<<bucket.le, 1>>}
     ELSE {<<100 * width * below.le + target * (bucket.le - below.le), 100 * width>>}

\* Where the target, a hundredfold count, lies between the bucket's bounds.
Interpolated(below, bucket, target) ==
  LET width == bucket.count - below.count
  IN IF width = 0 THEN {<<bucket.le, 1>>}
     ELSE {<<100 * width * below.le + (target - 100 * below.count) * (bucket.le - below.le),
             100 * width>>}

\* estimate_percentile_from_buckets: cumulative counts per upper bound, the last
\* bucket being the unbounded one; interpolation within the first bucket that
\* reaches the target.
EstimateFromBuckets(buckets, p) ==
  LET last == Len(buckets)
      total == buckets[last].count
      i == SelectInSeq(buckets, LAMBDA b : 100 * b.count >= p * total)
      below == IF i = 1 THEN [le |-> 0, count |-> 0] ELSE buckets[i - 1]
  IN IF last = 0 \/ total = 0 THEN {}
     ELSE IF i = last THEN {<<below.le, 1>>}
     ELSE Interpolated(below, buckets[i], p * total)
-----------------------------------------------------------------------------
(***************************************************************************)
(* Thresholds, in percent.                                                 *)
(***************************************************************************)
CanaryConfig ==
  [ttft_p50 |-> 20, ttft_p99 |-> 30, tpot_mean |-> 15, throughput |-> 10, error_rate |-> 2,
   min_sample_size |-> 64]

\* v2's metric exceeds v1's by more than limit percent of it; a metric that either
\* lacks, and a v1 of zero, are skipped.
Rises(v1, v2, limit) ==
  \E x \in v1, y \in v2 :
    x[1] > 0 /\ 100 * (y[1] * x[2] - x[1] * y[2]) > limit * x[1] * y[2]

Drops(v1, v2, limit) ==
  \E x \in v1, y \in v2 :
    x[1] > 0 /\ 100 * (x[1] * y[2] - y[1] * x[2]) > limit * x[1] * y[2]

\* Mutant: the error rate is compared the wrong way round.
Mut_FewerErrors(v1, v2, limit) ==
  \E x \in v1, y \in v2 : 100 * (x[1] * y[2] - y[1] * x[2]) > limit * x[2] * y[2]

RisesBy(v1, v2, limit) ==
  \E x \in v1, y \in v2 : 100 * (y[1] * x[2] - x[1] * y[2]) > limit * x[2] * y[2]

\* _check_performance_thresholds.
Degraded(m1, m2, config) ==
  {k \in {"ttft_p50", "ttft_p99", "tpot_mean"} : Rises(m1[k], m2[k], config[k])}
  \cup {k \in {"throughput"} : Drops(m1[k], m2[k], config[k])}
  \cup {k \in {"error_rate"} : RisesBy(m1[k], m2[k], config[k])}

\* RollbackChecker.check and check_and_rollback.
ShouldRollback(m1, m2, config) == Degraded(m1, m2, config) # {}

TerminalStages == {"COMPLETED", "ROLLED_BACK"}

\* Mutant: a version that is worse, but significantly so, may go on.
Mut_AnySignificant(stage, m1, m2, evaluation, config) ==
  /\ stage \notin TerminalStages
  /\ Degraded(m1, m2, config) = {}
  /\ \E e \in evaluation : e.samples >= config.min_sample_size /\ e.p # "high"

\* should_advance; evaluation is the set of at most one evaluation.  Its p-value is
\* kept as whether it is below 0.05, "low" or "high"; none counts as low.
CanAdvance(stage, m1, m2, evaluation, config) ==
  /\ stage \notin TerminalStages
  /\ Degraded(m1, m2, config) = {}
  /\ \E e \in evaluation :
       e.samples >= config.min_sample_size /\ e.p # "high" /\ ~(e.v2 < e.v1)
=============================================================================
