------------------------------ MODULE Serving ------------------------------
(***************************************************************************)
(* The proxy of server.py in front of a canary: chat requests draw a       *)
(* version from the routing table, or fall back to the default backend     *)
(* when none is routable, and are counted by router/middleware.py in a     *)
(* gauge of requests in flight and in a total per outcome.                 *)
(*                                                                         *)
(* Canary's handlers, supervisor and operators run meanwhile; nothing      *)
(* stops a request that has been forwarded.  The text of a request or an   *)
(* answer, the choice between versions by chance, and the times of tokens  *)
(* are left out.                                                           *)
(***************************************************************************)
EXTENDS Canary

CONSTANTS
  Requests,        \* chat requests, each asking for a model name
  Default,         \* the default backend
  Label            \* the model_version label of the metrics, per backend

ASSUME ServingAssumption == Default \notin Models /\ IsFiniteSet(Requests)

VARIABLES
  req,             \* where each request is
  gauge,           \* REQUESTS_IN_FLIGHT per label
  total            \* REQUESTS_TOTAL per label and status

requestVars == <<req, gauge, total>>
servingVars == <<vars, requestVars>>

Targets == Models \cup {Default}

\* select takes what follows the last dash of a version's id, so that versions of
\* different names share a label; the default backend's is "unknown".
Labels == {Label[m] : m \in Targets}
InFlight == {"posted", "opening", "streaming"}

\* How a request ended: "answered" and "refused" with the backend's answer, of
\* success or not (or a 500, if the error is not JSON); "unreadable" with a 500 in
\* place of a success that is not JSON;
\* "unnoticed" with a whole stream that says the backend's error; "failed" with an
\* answer of the proxy's own; "raised" with an exception that is not an
\* httpx.HTTPError (an endpoint that is no URL); "broken" and "malformed" with a
\* stream cut by the connection or by a chunk the instrumentation cannot read;
\* "abandoned" by its client.
Ended ==
  {"answered", "unreadable", "refused", "unnoticed", "failed", "raised", "broken",
   "malformed", "abandoned"}

ServingTypeOK ==
  /\ CanaryTypeOK
  /\ req \in [Requests -> [at : {"new"}] \cup [at : InFlight \cup Ended, to : Targets]]
  /\ gauge \in [Labels -> Int]
  /\ total \in [Labels -> [success : Nat, error : Nat]]

ServingInit ==
  /\ Init
  /\ req = [r \in Requests |-> [at |-> "new"]]
  /\ gauge = [l \in Labels |-> 0]
  /\ total = [l \in Labels |-> [success |-> 0, error |-> 0]]
-----------------------------------------------------------------------------
\* select can draw any routable version, as their weights are positive; its
\* NoActiveVersionError means the default backend.
Drawn(n) ==
  LET routable == Routable(table, Serving \cap Versions[n])
  IN IF routable = {} THEN {Default} ELSE routable

\* RequestMetrics.start comes before the request is sent, for a stream even before
\* the response that will open it is returned.
Arrive(r, n, stream) ==
  /\ req[r].at = "new"
  /\ \E m \in Drawn(n) :
       /\ gauge' = [gauge EXCEPT ![Label[m]] = @ + 1]
       /\ req' = [req EXCEPT ![r] = [at |-> IF stream THEN "opening" ELSE "posted", to |-> m]]
  /\ UNCHANGED <<vars, total>>

\* Mutants: an error is taken off the gauge, or counted, once however often it is
\* reported.
Mut_DecOnce(r, status, times) ==
  /\ total' = [total EXCEPT ![Label[req[r].to]][status] = @ + times]
  /\ gauge' = [gauge EXCEPT ![Label[req[r].to]] = @ - IF times > 0 THEN 1 ELSE 0]
Mut_IncOnce(r, status, times) ==
  /\ total' = [total EXCEPT ![Label[req[r].to]][status] = @ + IF times > 0 THEN 1 ELSE 0]
  /\ gauge' = [gauge EXCEPT ![Label[req[r].to]] = @ - times]

\* _finalize, called that many times for one request.
Finalize(r, status, times) ==
  /\ total' = [total EXCEPT ![Label[req[r].to]][status] = @ + times]
  /\ gauge' = [gauge EXCEPT ![Label[req[r].to]] = @ - times]

End(r, from, how, status, times) ==
  /\ req[r].at = from
  /\ req' = [req EXCEPT ![r].at = how]
  /\ Finalize(r, status, times)
  /\ UNCHANGED vars

\* _proxy_nonstream runs to its end also when the client has gone.  The answer is
\* counted before it is parsed.
Post(r) ==
  \/ End(r, "posted", "answered", "success", 1)
  \/ End(r, "posted", "unreadable", "success", 1)
  \/ End(r, "posted", "refused", "error", 1)
  \/ End(r, "posted", "failed", "error", 1)
  \/ End(r, "posted", "raised", "error", 0)

\* The status of the response that opens a stream is not looked at.
Open(r) ==
  /\ req[r].at = "opening"
  /\ req' = [req EXCEPT ![r].at = "streaming"]
  /\ UNCHANGED <<vars, gauge, total>>

\* A backend that cannot be reached fails before instrument_stream: the client has
\* been promised a 200 and gets an empty one.  A stream that breaks is reported by
\* instrument_stream and, being an httpx.HTTPError, again by chunk_generator.
Stream(r) ==
  \/ End(r, "opening", "failed", "error", 1)
  \/ End(r, "opening", "raised", "error", 0)
  \/ End(r, "streaming", "answered", "success", 1)
  \/ End(r, "streaming", "unnoticed", "success", 1)
  \/ End(r, "streaming", "broken", "error", 2)
  \/ End(r, "streaming", "malformed", "error", 1)

\* The client of a stream disconnects: the generator is cancelled, and neither of
\* its handlers catches that.
Abandon(r) ==
  \/ End(r, "opening", "abandoned", "error", 0)
  \/ End(r, "streaming", "abandoned", "error", 0)

ServingNext ==
  \/ Next /\ UNCHANGED requestVars
  \/ \E r \in Requests :
       \/ \E n \in Names, stream \in BOOLEAN : Arrive(r, n, stream)
       \/ Post(r) \/ Open(r) \/ Stream(r) \/ Abandon(r)

\* As in Canary; nothing makes a backend answer.
ServingSpec == ServingInit /\ [][ServingNext]_servingVars /\ Fairness
-----------------------------------------------------------------------------
(***************************************************************************)
(* Properties                                                              *)
(***************************************************************************)

\* The requests under label l in one of these situations.
Count(l, situations) ==
  Cardinality({r \in Requests : req[r].at \in situations /\ Label[req[r].to] = l})

\* Ends that the metrics never hear of.
Unreported == {"abandoned", "raised"}

\* What the metrics, which call the gauge the requests in flight, really say: each
\* stream abandoned by its client and each request ended by an exception that the
\* proxy does not expect stays in the gauge of its label, and each stream that broke
\* is taken off it twice; short of those ends the gauge is exact.
GaugeAccount ==
  \A l \in Labels :
    gauge[l] = Count(l, InFlight) + Count(l, Unreported) - Count(l, {"broken"})

\* What the totals, which the error rate under a label is taken from, really say: a
\* stream that broke counts twice, an answer that cannot be parsed and a stream that
\* carries the backend's error count as successes, and the unreported ends not at
\* all.
TotalAccount ==
  \A l \in Labels :
    /\ total[l].error = Count(l, {"refused", "failed", "malformed"}) + 2 * Count(l, {"broken"})
    /\ total[l].success = Count(l, {"answered", "unreadable", "unnoticed"})

\* Nothing is in flight on a version that has been put to sleep by a drain, which
\* says it waits for the requests in flight.
NoRequestOnSleepingModel ==
  \A r \in Requests :
    req[r].at \in InFlight /\ req[r].to \in Models => state[req[r].to] # "SLEEPING"
=============================================================================
