----------------------------- MODULE Evaluation -----------------------------
(***************************************************************************)
(* POST /api/eval/compare: an A/B evaluation over VLLMClient, the judge's  *)
(* scores, Welch's test and the row, which should_advance reads with the   *)
(* rules of RolloutRules; the other tasks use the client and the adapter   *)
(* meanwhile.                                                              *)
(*                                                                         *)
(* A score is in hundredths and stands for the mean of its three           *)
(* dimensions.  What the test computes is kept as far as its callers look: *)
(* whether p is below 0.05, and nondeterministic where only arithmetic     *)
(* decides it.                                                             *)
(***************************************************************************)
EXTENDS Client, RolloutRules, Sums

CONSTANTS
  Evaluators,      \* the tasks that serve POST /api/eval/compare
  Prompts,         \* the number of prompts in a request
  Judgements,      \* what the judge may answer: none that can be read, or two raw scores
  MinSamples,      \* min_sample_size
  SampleValues,    \* latencies of requests, of which a version has
  MaxSamples,      \*   at most this many
  Bounds           \* finite bucket bounds of a latency histogram, ascending

ASSUME EvaluationAssumption ==
  /\ Evaluators \subseteq Tasks
  /\ Prompts \in Nat \ {0}
  /\ "chat" \in Ops
  /\ \A judgement \in Judgements : judgement \subseteq (SUBSET Int) \X (SUBSET Int)
  /\ SampleValues \subseteq Nat /\ MaxSamples \in Nat
  /\ Bounds \in Seq(Nat) /\ Ascending(Bounds)

VARIABLE
  evaluation       \* where each evaluator is in its request

evaluationVars == <<call, backend, evaluation>>

Asking == {"v1", "v2", "judge"}
Refusals == {"missing", "too_few", "undefined", "unsaved"}
Scores == 0..100

\* The row of an evaluation that was not refused.
Row ==
  [samples : 2..Prompts, v1 : 0..(100 * Prompts), v2 : 0..(100 * Prompts),
   p : {"low", "high"}, recommendation : {"advance", "hold", "rollback"}]

EvaluationTypeOK ==
  /\ ClientTypeOK
  /\ \A t \in Evaluators :
       \/ evaluation[t].at \in {"none"} \cup Refusals
       \/ /\ evaluation[t].at \in Asking
          /\ evaluation[t].left \in 1..Prompts
          /\ {evaluation[t].v1, evaluation[t].v2} \subseteq Endpoints
          /\ Len(evaluation[t].scores) + evaluation[t].left <= Prompts
          /\ \A i \in DOMAIN evaluation[t].scores : evaluation[t].scores[i] \in Scores \X Scores
       \/ /\ evaluation[t].at \in {"saving", "created"}
          /\ evaluation[t].row \in Row

EvaluationInit ==
  /\ ClientInit
  /\ evaluation = [t \in Evaluators |-> [at |-> "none"]]

Evaluating(t) == t \in Evaluators /\ evaluation[t].at \in Asking \cup {"saving"}
-----------------------------------------------------------------------------
\* _clamp_score: what is missing or no number is 0.5.  NaN ends as 1.0, like every
\* number above it.
Clamp(raw) ==
  IF raw = {} THEN 50
  ELSE LET score == CHOOSE x \in raw : TRUE
       IN IF score < 0 THEN 0 ELSE IF score > 100 THEN 100 ELSE score

\* parse_judge_response: no pair when the answer holds no JSON object.
Parsed(judgement) == {<<Clamp(raw[1]), Clamp(raw[2])>> : raw \in judgement}

Sum(scores, version) == SumOver([i \in DOMAIN scores |-> scores[i][version]], DOMAIN scores)
Constant(scores, version) == \A i \in DOMAIN scores : scores[i][version] = scores[1][version]

\* welch_ttest: the p-values it can give, or that it raises.  The mean of equal
\* floating-point scores may differ from them in the last digit, and then their
\* deviation is no zero.
Welch(scores) ==
  IF Sum(scores, 1) = Sum(scores, 2) THEN {"high"}
  ELSE IF Constant(scores, 1) /\ Constant(scores, 2) THEN {"low", "raises"}
  ELSE {"low", "high"}

\* TTestResult.recommendation.
Recommendation(p, v1, v2) ==
  IF p # "low" THEN "hold" ELSE IF v2 > v1 THEN "advance" ELSE "rollback"

\* The row of aggregate_evaluations, with sums for the means.
RowOf(scores, p) ==
  LET v1 == Sum(scores, 1)
      v2 == Sum(scores, 2)
  IN [samples |-> Len(scores), v1 |-> v1, v2 |-> v2, p |-> p,
      recommendation |-> Recommendation(p, v1, v2)]

\* What the request goes on to when its prompts are done; nothing catches the
\* ValueError of the test.
Aggregated(scores) ==
  IF Len(scores) < 2 THEN {[at |-> "too_few"]}
  ELSE {IF p = "raises" THEN [at |-> "undefined"] ELSE [at |-> "saving", row |-> RowOf(scores, p)] :
          p \in Welch(scores)}
-----------------------------------------------------------------------------
\* The next chat of the evaluation; the judge is asked at v1's endpoint.
Ask(t, who, e) ==
  /\ evaluation' = [evaluation EXCEPT ![t] = [e EXCEPT !.at = who]]
  /\ Begin(t, "chat", IF who = "v2" THEN e.v2 ELSE e.v1)

\* A prompt begins with the question to v1.
Begins(v1, v2, left, scores) ==
  [at |-> "v1", v1 |-> v1, v2 |-> v2, left |-> left, scores |-> scores]

Compare(t, e1, e2) ==
  /\ ~InCall(t) /\ ~Evaluating(t)
  /\ \/ Ask(t, "v1", Begins(e1, e2, Prompts, <<>>))
     \/ /\ evaluation' = [evaluation EXCEPT ![t] = [at |-> "missing"]]
        /\ UNCHANGED <<call, backend>>

\* The loop over the prompts.
NextPrompt(t, scores) ==
  LET e == evaluation[t] IN
  IF e.left > 1
    THEN Ask(t, "v1", Begins(e.v1, e.v2, e.left - 1, scores))
    ELSE /\ \E a \in Aggregated(scores) : evaluation' = [evaluation EXCEPT ![t] = a]
         /\ UNCHANGED <<call, backend>>

\* evaluate_pair asks v1, v2 and the judge in turn; whatever it raises, the prompt is
\* left out of the results.
Continue(t) ==
  LET e == evaluation[t] IN
  /\ e.at \in Asking /\ ~InCall(t)
  /\ \/ /\ call[t].at # "ok"
        /\ NextPrompt(t, e.scores)
     \/ /\ call[t].at = "ok" /\ e.at = "v1"
        /\ Ask(t, "v2", e)
     \/ /\ call[t].at = "ok" /\ e.at = "v2"
        /\ Ask(t, "judge", e)
     \/ /\ call[t].at = "ok" /\ e.at = "judge"
        /\ \E judgement \in Judgements :
             IF Parsed(judgement) = {} THEN NextPrompt(t, e.scores)
             ELSE \E pair \in Parsed(judgement) : NextPrompt(t, Append(e.scores, pair))

\* The commit of the row, or its failure.
Save(t) ==
  /\ evaluation[t].at = "saving"
  /\ evaluation' = [evaluation EXCEPT ![t].at = "created"]
  /\ UNCHANGED <<call, backend>>

DatabaseFails(t) ==
  /\ evaluation[t].at = "saving"
  /\ evaluation' = [evaluation EXCEPT ![t] = [at |-> "unsaved"]]
  /\ UNCHANGED <<call, backend>>
-----------------------------------------------------------------------------
Next ==
  \/ \E t \in Tasks, op \in Ops, e \in Endpoints :
       ~Evaluating(t) /\ Begin(t, op, e) /\ UNCHANGED evaluation
  \/ \E t \in Tasks : Proceed(t) /\ UNCHANGED evaluation
  \/ \E t \in Evaluators, e1 \in Endpoints, e2 \in Endpoints : Compare(t, e1, e2)
  \/ \E t \in Evaluators : Continue(t) \/ Save(t) \/ DatabaseFails(t)

Spec ==
  /\ EvaluationInit /\ [][Next]_evaluationVars
  /\ ClientFairness
  /\ \A t \in Evaluators : WF_evaluationVars(Continue(t) \/ Save(t) \/ DatabaseFails(t))
-----------------------------------------------------------------------------
(***************************************************************************)
(* Properties of the runs of calls.                                        *)
(***************************************************************************)
Busy(t) == InCall(t) \/ Evaluating(t)

\* Every call of the client and the adapter, and every evaluation, comes to an end
\* although backends lose requests and answers: attempts and prompts are bounded.
CallsEnd == \A t \in Tasks : Busy(t) ~> ~Busy(t)

Samples == UNION {[1..n -> SampleValues] : n \in 1..MaxSamples}
Config == [CanaryConfig EXCEPT !.min_sample_size = MinSamples]

\* A version's metrics, when all its requests take as long as the samples say and
\* errors of ten fail.
MetricsFrom(samples, errors) ==
  MetricsOf([ttft |-> samples, tpot |-> samples, throughput |-> {<<10 - errors, 1>>},
             requests |-> 10, errors |-> errors])

\* What an evaluation's row recommends is what should_advance decides from it: a
\* stage is left behind on a recommendation to advance that rests on enough
\* samples, unless the rollback checker finds v2 degraded by the same metrics.
AdviceAgrees ==
  \A t \in Evaluators :
    evaluation[t].at = "created" =>
      \A x, y \in SampleValues :
        LET m1 == MetricsFrom(<<x>>, 0)
            m2 == MetricsFrom(<<y>>, 0)
            row == evaluation[t].row
        IN CanAdvance("STAGE_10", m1, m2, {row}, Config)
             <=> /\ row.recommendation = "advance"
                 /\ row.samples >= MinSamples
                 /\ ~ShouldRollback(m1, m2, Config)

AtMost(samples, bound) == Cardinality({i \in DOMAIN samples : samples[i] <= bound})

\* The cumulative buckets of samples; the last one is unbounded.  The collector
\* has Prometheus's histogram_quantile (external) estimate from them; for it stands
\* here the module's own estimate_percentile_from_buckets, which nothing calls yet.
Histogram(samples) ==
  [i \in 1..(Len(Bounds) + 1) |->
     IF i > Len(Bounds) THEN [le |-> 0, count |-> Len(samples)]
     ELSE [le |-> Bounds[i], count |-> AtMost(samples, Bounds[i])]]

CollectedFrom(samples) ==
  LET buckets == Histogram(samples)
  IN Collected(EstimateFromBuckets(buckets, 50), EstimateFromBuckets(buckets, 99))

\* Metrics of v1 and v2, computed from samples or estimated from histograms, when no
\* request is slower at v2 than its counterpart at v1, and v2 fails no more of them.
NoWorse ==
  LET pairs == {s \in Samples \X Samples :
                  /\ Len(s[1]) = Len(s[2])
                  /\ \A i \in DOMAIN s[1] : s[2][i] <= s[1][i]}
      errors == {e \in (0..2) \X (0..2) : e[2] <= e[1]}
  IN {<<MetricsFrom(s[1], e[1]), MetricsFrom(s[2], e[2])>> : s \in pairs, e \in errors}
     \cup {<<CollectedFrom(s[1]), CollectedFrom(s[2])>> : s \in pairs}

\* A v2 that an evaluation recommends on enough samples, and that is no worse than v1
\* request by request, is let through by should_advance: neither the interpolated
\* percentiles nor the estimates from buckets nor the thresholds turn it against
\* itself.
NoWorseAdvances ==
  \A t \in Evaluators :
    (/\ evaluation[t].at = "created"
     /\ evaluation[t].row.recommendation = "advance"
     /\ evaluation[t].row.samples >= MinSamples)
      => \A m \in NoWorse : CanAdvance("STAGE_10", m[1], m[2], {evaluation[t].row}, Config)
=============================================================================
