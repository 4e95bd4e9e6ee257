# vLLMonline in TLA+

vLLMonline is an asyncio server that manages versions of a model behind vLLM
backends: it loads, sleeps and unloads them on one GPU, swaps one for another,
splits traffic between two versions during a canary and rolls back. This
directory holds TLA+ models of that logic, the TLC configurations that check
them and TLAPS proofs about them. Paths below are relative to `src/`.

## The system

Everything runs on one event loop. A coroutine loses control only where it
really suspends: at a database call, at the subprocess that reads the GPU, at
the sleep between two polls of a drain, at an HTTP call, in a persistence
callback that suspends. Awaiting a free `asyncio.Lock`, or a coroutine that
never suspends, is not such a place. A step of these models is what runs
between two of them, so the interleavings TLC explores are those the event loop
can produce.

| Component | Source | State | Operations | Interacts with |
|---|---|---|---|---|
| Model lifecycle, registry | `scheduler/types.py`, `scheduler/lifecycle.py` | `Model.state`, `pending_requests`, lock, persistence callback; the registry's dictionary | `transition`, `increment_pending`, `decrement_pending`, `register`, `unregister` | called by the API, the engine, the drain; the callback writes `model_versions` |
| GPU memory decision | `scheduler/gpu_memory.py` | none | `calculate_weight_memory`, `build_model_profile`, `can_load` | the engine |
| GPU providers | `gpu_info.py` | none | `to_gpu_state` | the engine |
| Drainer | `router/drain.py` | the drain's task, the model's counter | `start`, `wait`, `force`, `run`, `drain_and_sleep` | the engine, the rollback executor |
| Hot swap engine | `scheduler/engine.py` | none of its own | `hot_swap` | registry, GPU decision, drain |
| Management API, rows | `api/routes.py`, `db/models.py`, `db/session.py`, `api/schemas.py` | `model_versions` rows beside the registry | register, delete, load, wake, sleep, unload | registry, database |
| Routing table | `router/proxy.py` | weights, disabled versions | `set_split`, `get_active_entries`, `select` | canary handlers write it, the proxy reads it |
| Canary, rollback | `api/routes.py`, `canary/rollback.py`, `canary/strategy.py` | `canary_deployments` row, stop event | start, advance, rollback, `execute_rollback`, supervisor | routing table, drain, registry, database |
| Proxy, request metrics | `server.py`, `router/middleware.py` | gauge and counters of requests in flight | proxying with and without a stream | routing table, backends |
| vLLM client, adapter | `vllm/` | HTTP client | chat, models, health, streams; sleep, wake with its warm-up, LoRA; retries | backends |
| Metrics collector | `canary/metrics_collector.py` | none | percentiles, means, estimates from buckets | Prometheus; read by the supervisor's provider |
| A/B evaluation | `eval/`, `api/routes.py` | `eval_results` rows | compare: v1, v2 and the judge for each prompt, Welch's test, recommendation | vLLM client; its row is what `should_advance` takes |
| Configuration, Prometheus registry, portal, scripts, migrations | `config.py`, `metrics.py`, `static/`, `scripts/`, `alembic/` | | | |

The components that the server starts do not use all of each other: nothing in
the server increments `pending_requests`, sets a persistence callback, starts
the supervisor, creates a `HotSwapEngine` or an adapter, or asks `should_advance`.
Those are exercised as a library
(by the tests and by whoever embeds them), and they are modelled as what they
promise there.

The hard behaviours are calls that run between the polls of a 30 second drain;
decisions taken from a GPU reading that has aged; requests that outlive a forced
drain and decrement a counter that was reset; handlers that check a row, suspend,
and act on what they saw; memory and database written in two steps; rollbacks
and swaps that fail in the middle; one routing table for every model name;
streams that break or lose their client; answers that are lost and calls that
are repeated. `PROJECT.json` lists each at its line under
`hazards`, with the properties that cover it.

What makes each component correct:
- lifecycle: only legal transitions, also in the saved history; memory and
  database agree unless a save failed; the counter stays a count;
- GPU decision: what it lets through fits, and nothing cheaper would;
- drain: it ends; `True` means that nothing was cut;
- hot swap: the GPU never overflows, service is interrupted only while a swap
  on a tight GPU is under way, and the result tells the truth;
- API: registry and rows agree once calls that did not overlap have returned, and
  the next call that runs alone repairs what others have left, as far as it can;
- canary: v2's share stays within the stage; a rollback is final and ends, and
  leaves v1 to serve; a supervisor that is stopped ends;
- proxy: what gauge and totals say follows from the ways in which requests ended;
- client and adapter: what a backend has answered is not sent again, and success
  means that the operation was carried out;
- evaluation: it ends whatever fails, and what it recommends is what
  `should_advance` goes by.

## Modules

| Module | Models | State, actions |
|---|---|---|
| `ModelStates` | states, transition table, predicates, the API's transition paths | constant operators; EXTENDed by the modules below |
| `Lifecycle` | `Model` and `ModelRegistry` with a callback that suspends and may raise | per model the state, counter, lock, what is saved and whether the latest save was lost; per task the call it is in |
| `GpuMemory` | the memory arithmetic and `can_load` | constant operators in exact units of 1/80000 GB |
| `LoadDecision` | `can_load` asked about every load of a GPU | one decision per behaviour |
| `Drain` | one model's requests, drains and API calls | `state`, `pending`, what became of each request, where each drain is |
| `HotSwap` | `hot_swap` as steps between its suspension points, composed of `ModelStates`, `GpuMemory`, drains, API calls | per swap a program counter with what the coroutine remembers |
| `ModelApi` | the management API's handlers for one model id and a canary's rollback of it, with failing database calls and restarts | `model`, `registry`, `row`, `deployed` (a deployment's foreign key refers to the row), and where each call is; `alone` and `left` are history |
| `Routing` | the routing table and effective weights | constant operators in percents |
| `Service` | abstract: what swaps promise to the clients of a GPU, `Safety` and that gaps end | `awake`, the phase of each swap; implemented by `HotSwap` |
| `Canary` | handlers, executor and supervisors on several deployments that share one routing table, composed of `ModelStates` and `Routing` | `table`, a row per deployment, per task what it has read |
| `Serving` | the proxy and its metrics in front of `Canary`, which it extends | `req`, and `gauge` and `total` per label of the metrics; a request arrives, opens, streams, and ends in one of nine ways |
| `Client` | `VLLMClient` and `VLLMAdapter` over a network that loses requests and answers | per task its call with the attempt; `backend` is what each backend was made to be |
| `RolloutRules` | percentiles and estimates, the thresholds, the rollback checker, `should_advance` | constant operators in exact fractions |
| `Evaluation` | `POST /api/eval/compare` over `Client`, its row judged by `RolloutRules` | per evaluator the prompt, the scores so far, the row |
| `Sums` | the sums of the code, over lists and dictionaries | one constant operator |
| `SumProofs` | what sums over finite sets are | lemmas that the others cite |
| `LifecycleProofs`, `GpuMemoryProofs`, `DrainProofs`, `HotSwapProofs`, `ModelApiProofs`, `ServingProofs`, `ClientProofs` | theorems about `Lifecycle`, `LoadDecision`, `Drain`, `HotSwap` with `Service`, `ModelApi`, `Serving` with `Canary`, `Evaluation` with `Client` | |

`MC*` modules give the constants the values that a configuration file cannot
write. Two bounds limit what the code leaves open: `MaxPending` (a model at that
count admits no further request) and `Objects` of `ModelApi`, which limits
nothing once there is one more than there are callers, as an object nobody refers
to may be used again. The modules are listed in the order to read them.

Some correspondences that are not one to one:
- A request handler's `for target in path: await model.transition(target)` is
  one step (`Then`, `LoadPath`, ...), since nothing suspends in it with the
  default callback; it keeps the states gone through before an illegal one.
- In `Lifecycle` the callback does suspend: `Transit` sets the state and enters
  it, `Saved` or `SaveFailed` leaves it, `Release` gives up the lock.
- A drain's polls are the steps `Drained` (the counter is zero) and `TimeOut`
  (the deadline came first and `force` resets the counter). The seconds are
  abstracted: any poll may be the one that finds the deadline passed.
- A handler's database call has two halves: what the row is when it is read or
  written, and the later step in which the handler goes on.
- A `Client` task's call is one record that goes from sending to backing off and
  back; `answered` says, as history, that the backend has answered an attempt of
  the request being sent. A wake goes on with its warm-up's requests in the same
  record. What a request does to a backend (`Effect`) is external.
- `Evaluation`'s Welch's test gives the p-values' side of 0.05 that exact
  arithmetic decides and both sides elsewhere. Scores that are constant and differ
  raise, or are decided by a rounding error: the mean of equal floating-point
  scores need not equal them.
- `Serving`'s `Finalize` has the number of times that the code calls `_finalize`
  for one request: twice for a stream that breaks, never for one abandoned or ended
  by an exception other than `httpx.HTTPError`. The metrics' label is what follows
  the last dash of a version's id (`proxy.py:186`): `qwen-v1` and `llama-v1` share
  one, so gauge and totals are per `Label`, not per version.
- `execute_rollback` is in two modules: what it does to v2 and to v2's row of
  `model_versions` in `ModelApi`, where it overlaps the management calls, and the
  drain, the routes and the deployment's row in `Canary`.
- `ModelApi`'s `left` is how the last call that ran alone leaves the two stores
  (`agreed`; `missing`: exactly one has the id; `paired`: both have it, in whatever
  states), or `unknown` once calls overlap or fail.
- `Collected` takes the bucket estimate of `estimate_percentile_from_buckets` for
  the answer to a `histogram_quantile` query, which Prometheus computes
  (`metrics_collector.py:163-170`) and nothing of which is in this repository; the
  local function, which is what could be checked, is not called by the program yet.
- The code computes in floating-point GB. Here memory is a whole number of units
  of 1/80000 GB, in which bytes per parameter, the quantization overheads and the
  KV share (a quarter of the weight, times the utilization) come out whole;
  rounding to two decimals for display is left out. `HotSwap` only adds and
  compares amounts, so its instances use small numbers.

## Runs

| Run | Instance | Shows |
|---|---|---|
| `lifecycle` | one model (locks of different models do not interact), two tasks, counter to 2 | the lock keeps memory and saved history in step when saves suspend, overlap or fail; every call returns |
| `load_decision` | six real models (7B to 70B, fp32 to int4), GPUs of 24 to 192 GB, up to two models loaded, 0, 2 or 30 GB held by others | a decision that proceeds fits when carried out, is the least disturbing one that does, and reports what will be free; from the documented decision on an empty GPU it departs only where others hold more or less than the context's 2 GB |
| `drain` | three requests, two overlapping drains, API calls | the counter never exceeds the requests in flight and misses at most one per late request; a natural end is clean but for those; drains end |
| `hotswap_memory` | two models, one swap, three sizes of foreign memory, sleep and unload calls | the GPU does not overflow although its reading is stale (the operators only stop models, which is the harmless side of a stale reading); where both models fit, `zero_downtime` tells the truth |
| `hotswap_service` | three models, two concurrent swaps, load calls on one of them, a GPU too small for two models awake | no model serves only while a swap has released its old one, the gap closes, and the swaps implement `Service` |
| `serving` | v1, v2 and a third version, stages 10, 50, 100, one caller, one supervisor that may be stopped, calls on v2 and the third version, one chat request; v1 and the third version share a label | v2 never has more than its stage; ROLLED_BACK means v2 is not routable; short of the last stage, a v1 that serves stays routable; gauge and totals are what the request's end makes of them, two ways of never being reported among them; rollbacks and the supervisor end |
| `evaluation` | two tasks on one backend with chat, health, sleep, wake and LoRA calls, two attempts; one task evaluates three prompts with judgements that are unreadable, in favour of v2 or of v1 | what was answered is not sent again; success means done; calls and evaluations end; the recommendation is what `should_advance` decides; a v2 no slower and no more faulty, request by request, is let through |
| `api` | three calls at once on one id, a rollback of it among them, database failures, restarts; symmetric in callers and objects | calls that do not overlap keep row and model in step; whatever others left, a call that runs alone brings the two back in step, or leaves the id in exactly one store where its row or its object is gone, or in both after a register that memory refuses |
| `hotswap_oom` (violation) | three models, one swap | the GPU overflows |
| `canary_race` (violation) | two callers | ROLLED_BACK with v2 routable |
| `canary_names` (violation) | two deployments of two model names, one caller | v2 has half of the traffic at the stage of 10% |
| `proxy_drain` (violation) | one deployment, one request | a request in flight on a model that was drained and sleeps |

Why the bounds are enough: the hazards are about two actors (two tasks on a
model, two drains, two swaps, an advance and a rollback), and a third model or
version is the fewest that make `can_load` and the routing weights take their
mixed branches. Three prompts let their means be equal and,
with `MinSamples` 3, one fail while two remain, the fewest the test accepts and too
few for `should_advance`; two
attempts tell the last from the others. Two samples per version, at a bucket's
edge, inside one and beyond the last bound, give interpolation and each exit of
the estimate. One request is enough for gauge and totals, which are sums over the
requests; that labels are shared by several of them is what the theorems add. Counters need to reach two, so that a reset and a single
decrement differ. Three stages give a first, a middle and a last one; 50 is the
one that no named stage equals. `Foreign` stands for the CUDA context and other
processes; it stays fixed in a behaviour and is chosen so that each branch of
`can_load` is reached in some run.

The violation runs are described under `findings` in `PROJECT.json`, each with
the line that promises otherwise:
- `hotswap_oom`: `can_load` counts on releasing every model on the GPU, at its
  full size even if asleep, while `hot_swap` releases only the old one;
- `canary_race`: `advance` sets its split after a commit without looking again;
- `canary_names`: `set_split` replaces the weights of all model names;
- `proxy_drain`: a drain waits for `pending_requests`, which the proxy never counts.

Five more disagreements were met that no run keeps. A swap that released old by
force still reports `zero_downtime` (`engine.py:142` drops what the drain
returned), which is why `DirectZeroDowntimeIsTrue` speaks of GPUs where every swap
is DIRECT. Where a DIRECT swap is possible, two overlapping swaps in opposite
directions may both succeed and leave nothing serving, which is why
`hotswap_service` has a tight GPU. A row may keep the older state when two calls
that move a model commit in the opposite order, so `SequentialCallsAgree` speaks of
calls that do not overlap. The client's documentation (`client.py:6-7` and `204`)
says that a 5xx is retried, and so do the adapter's (`adapter.py:178-179` and `193`,
the former of every error); `VLLMHTTPError` is not among the exceptions that are
(`adapter.py:173`, `client.py:116`), and `AnsweredIsNotRepeated` states what the code does.
`SPEC.md:220-221`, `gpu_memory.py:14` and `174` and `types.py:77` tell UNLOAD_OLD and
INSUFFICIENT apart by whether the load fits an empty GPU, its size less the
context; the code asks whether it fits what is free and what unloading all models
frees (`gpu_memory.py:230-232`). On a GPU of 48 GB with 30 GB held by other
processes, or by a context larger than expected, it refuses a load that the
documents would have unload the old models; with less held than 2 GB it lets through
one that they refuse. `DepartsByForeignMemory` bounds the difference to those cases.

`hotswap_memory` stays clear of what those show: it has no third model.
`hotswap_service` has three, and passes through states in which the GPU holds more
than its size, as `hotswap_oom` shows; the models' memory is then only a number, and
the run asks whether something serves. A GPU that really runs out of memory in such
a state may fail the load, which the model leaves out. `serving` has one caller and one model name, and its properties do not count on a
drain to wait. In `Canary` a drain may end at once or not, so nothing depends on
what the proxy counts.

## Fairness

A drain that is polling is resumed by the event loop and its clock reaches the
deadline, so the step that ends a drain is weakly fair; finishing a request is
not, since a backend may never answer. `asyncio.Lock` wakes its waiters in FIFO
order, so entering a lock that is freed again and again is strongly fair in
`Lifecycle`. A handler goes on after a database call,
and that call returns; the lifecycle's callback returns or raises. A supervisor's
provider returns or raises, and its interval passes; `SupervisorStops` assumes no
more. An attempt of the client has timeouts (connect, read, write, pool) and the
wait between two is bounded, so a task's call proceeds; so does an evaluation
between its calls. No fairness makes a client call, an operator load a model, a
backend answer a stream or a metric degrade.

## Refinement

`HotSwap` implements `Service` (`SwapsServe`, in the run `hotswap_service`) under
the mapping `awake <- Serving` and `phase <-` the swap's program counter with
`reading` and `read` as `deciding` and `releasing` as `gap`. Every step of the
event loop (a poll, an API call, a request) is a step of `Service` or a stutter;
the invariant in its `Next`, that some model serves or a swap is in its gap, and
`GapsEnd` are what a client of the GPU can rely on. The mapping is checked on a
tight GPU only, where it is meant to hold. Its safety half (`Service`'s `Safety`:
the initial states, and every step a step or a stutter) is the theorem
`SwapsServeSafely`, for any number of models and swaps; `GapsEnd` rests on
fairness and stays with TLC.

## Proofs

Every invariant and action property of the passing runs is a theorem, for every
value of the constants that satisfies the modules' assumptions (finite sets of
tasks and requests where a cardinality is taken, sizes and samples that are
natural numbers, ascending stages and bucket bounds). Some theorems assume more,
and say so in their statement: hypotheses under which the property is meant to
hold. The violation runs show three of them fail without: `hotswap_oom`,
`canary_race` and `canary_names`.

- `LifecycleProofs`: `IInv` adds to the type invariant that a model's lock is
  owned by exactly the task inside its callback (`LockInv`), that a free lock
  means an up-to-date database or a lost save (`FreeInv`), and that what is being
  written is the state in memory, one legal transition ahead (`SaveIsCurrent`).
  `DurableMirrorsState` alone is not inductive: without the exclusion a second
  save could end in between.
- `DrainProofs`: `IInv` is the type invariant and the exact account of the
  counter: it lies between the running requests less the late ones and the
  running requests. The proof counts the requests that each step moves from one
  set to another; `NaturalIsClean` follows, as a counter at zero then leaves
  either no running request or a late one.
- `ModelApiProofs`: `SequentialCallsAgree` speaks of moments with no call in
  progress and says nothing of the steps between; `IInv` adds what a call that
  has run alone knows at each of its suspension points (the registry still holds
  its object, the row is as it was read, what it will write is the model's
  state; `AloneInv`), and that a call that has changed nothing still finds the
  stores as the one before left them (`LeftInv`). Calls in company promise nothing,
  and the history records that.
- `ClientProofs`: `SuccessMeansDone` needs to know, at the last step of a call,
  what became of its first one. `IInv` says of a record that a request still to be
  sent has not been answered (`Good`), and of a call that is alone
  that no other operation is under way on its backend and that, once its own
  request has been run, the backend is as it made it (`Undisturbed`). The theorems
  are about `Evaluation`'s specification, each of whose steps is a step of the
  client or leaves the calls alone (`EvaluationStep`); that needs an invariant of
  its own, that an evaluation asks backends that exist.
  For `Evaluation` itself `EvaluatorsInv` says that an evaluation asks backends
  that exist, never has more results than prompts, and stores a row
  whose recommendation is drawn from its own numbers (`Sound`): a low p-value only
  where the means differ. `AdviceAgrees` follows; without that conjunct a
  recommendation to roll back could be one to advance to `should_advance`, which
  compares the means only by `v2 < v1`.
  `NoWorseAdvances` is about data. `SortedDominates` shows by counting (the pigeon
  hole: k elements cannot all be among k - 1) that the k-th smallest sample does not
  rise when no sample does; `PercentileFalls` and `MeanFalls` follow.
  `EstimateFalls` finds the bucket that reaches the percentile (`EstimateIs`); with
  smaller samples it is an earlier one, whose upper bound is no more than the
  later one's lower bound, or the same, where fewer samples are below the bucket
  and more up to its end (`SameBucket`). Metrics that do not rise pass every
  threshold (`IsNotDegraded`).
- `GpuMemoryProofs`: the decision tree is followed branch by branch, for any
  reading that does not understate the memory in use and, for the cheapest
  strategy and `free_after_load_gb`, an exact one. `DepartureIsForeign` is the arithmetic of an
  exact reading, in which free memory and the loaded models' add up to the GPU less
  what others hold. `IInv` says that the models
  asked about fit the GPU and that the answer is `can_load`'s; the sums over the
  models on the GPU are those of `SumProofs`.
- `HotSwapProofs`, besides the types:
  - `NeverOutOfMemory` needs `MemoryInv`: the GPU is within its size, a reading in
    use understates nothing (`Used <= used`), and a swap that is releasing its old
    model has room for the new one next to what the release keeps. Theorem
    `SwapOfTwoFits` assumes two models, one swap at a time and operators that only
    stop models. With a third model `hotswap_oom` shows the overflow; a load by
    somebody else would make the reading an understatement.
  - `DirectZeroDowntimeIsTrue` needs `CalmInv`: on a GPU where all models fit,
    `can_load` answers DIRECT, so no swap is ever releasing with its new model
    still unloaded. Any number of models, one swap at a time, no operator's loads.
  - `GapIsASwap` needs `GapInv`: some model is on the GPU and serves or drains, a
    draining one is drained for a swap in its gap, and what a swap has read is at
    least one model's size, so that `can_load` never answers DIRECT
    (`NeverDirect`). Theorems `GapIsBetween` and `SwapsServeSafely` assume that no
    two models fit, that operators only load and that a model serves at the start;
    any number of models and concurrent swaps.

  `hotswap_memory` and `hotswap_service` are instances of these hypotheses.
- `ServingProofs`: `CanaryInv` (types, and that a handler past its first read has
  a row) and the accounts of the metrics hold for any number of deployments,
  callers, supervisors, versions and requests; an account changes by what one
  request moves between two sets (`EndMoves`, `CountStep`). What the routing table
  says of the canary needs `RouteInv`: the table is untouched, or a split of the
  deployment that gives v2 no more than the row's stage, and nothing once v2 is or
  is about to be `ROLLED_BACK`; and a handler that has read the row still sees the
  row as it is (`UpToDate`). That is true of one deployment of two different
  versions whose calls come one after the other (`OneDeployment`, `TwoVersions`,
  `OneCaller`), under any names, with any number of supervisors,
  requests, operators and further versions; `canary_race` and `canary_names` show
  that it fails for two callers and for two deployments. Nothing in the program
  makes v1 and v2 differ or share a model name: `start_canary` (`routes.py:552-571`)
  and `CanaryStartRequest` (`schemas.py:93-119`) check neither. With v1 = v2 the
  split is that one version's, with all of the traffic at any stage, and a
  rollback shuts it out, so `TwoVersions` is a hypothesis of the three theorems;
  the types and the accounts do without. `RolledBackMeansV1` and
  `BaselineStaysRoutable` follow at once; `CanaryNeverExceedsStage` needs the
  arithmetic of `get_active_entries` too (`CanaryShare`), where a split falls back
  to even weights.
- `SumProofs`: the community modules define a sum by a recursive function, and
  induction over finite sets is by a smallest counterexample, as the strict subset
  ordering of a finite set is well founded (`SubsetInduction`). `PartialsExist` and
  `PartialsAgree` show that there is one such function, from which follow that a
  sum does not depend on the order, grows with its terms, and changes by the change
  of one term.

Two definitions are written for the proofs. `Sorted` is chosen among the orders of
the samples, as the prover knows nothing of the library's sort. `Service` begins in
`(SUBSET Models) \ {{}}`: without the parentheses it would be the subsets of
`Models \ {{}}`, the empty one among them, a mistake that no run could show, since a
weaker promise is easier to keep.

Left to TLC: liveness (`CallsReturn`, `DrainEnds`, `GapCloses`, the `GapsEnd` half of
`SwapsServe`, `RollbackEnds`, `SupervisorStops`, `CallsEnd`), as the prover has no
`ENABLED` and so no rule for fairness; that `can_load`'s weight arithmetic comes out
whole, which is checked over the sizes of real models; and that the violation runs'
properties fail.

## Not modelled

- Logging, wording of answers, schemas, display rounding, and the `ValueError`s of
  `gpu_memory.py` for sizes that are not positive or unknown types
  (`gpu_memory.py:84-92`, `118-123`), which come before any state is touched.
- Loads that fail because the GPU is full: a model moves through its states whatever
  the memory says, as it does in the code, where no backend is asked.
- The p-value of Welch's test, Cohen's d and the sample size formula:
  floating-point arithmetic. The supervisor of `Canary` may find v2 degraded at
  any time; `RolloutRules` says when it does, on metrics.
- A request that a backend carries out after its attempt has timed out: an
  attempt's effect comes before the client goes on.
- Times of tokens, health and readiness probes, handlers that only read (lists,
  status, report), event rows.
- Loading configuration, migrations, the portal and the scripts.
- Text: parsing of `nvidia-smi`, `rocm-smi` and Prometheus output and of streams,
  reports. A provider is the memory in use at the moment it ran, or the exception
  that it raises (`ReadFails`).
- `record_*` counters of a model, `set_weight` and `clear_weights`: nothing in
  the program reads the former or calls the latter.

## Plan

Every safety property of the passing runs is proved. What is left:

1. Two deployments of one table and two callers: which weaker promise survives
   `canary_names` and `canary_race` (a table that is some deployment's split, v2's
   share within the largest stage), as an invariant and then as a theorem.
2. Swaps on a GPU between the two that are covered: several models of which some
   fit together, where `hotswap_oom` marks the limit of what can be promised.
3. The action properties that the liveness properties rest on, one step at a time:
   that a poll, a rollback or an attempt never goes back, so that only fairness is
   left to TLC.
