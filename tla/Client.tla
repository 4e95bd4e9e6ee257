------------------------------- MODULE Client -------------------------------
(***************************************************************************)
(* VLLMClient and VLLMAdapter of vllm/: calls to backends over a network   *)
(* that loses requests and answers, with retries.                          *)
(*                                                                         *)
(* A task makes one call at a time and suspends in every attempt, in the   *)
(* wait between two of them and in the wait after a sleep.  A lost answer  *)
(* (a read timeout, a reset connection) means that the backend has run the *)
(* call; a refusal (any status that is no success) that it has not.  What  *)
(* a backend is asked is left out but for what changes it.                 *)
(***************************************************************************)
EXTENDS Integers, FiniteSets

CONSTANTS
  Tasks,           \* users of the client and of the adapter
  Endpoints,       \* backends
  Ops,             \* the calls they make
  RetryMax         \* retry_max_attempts, of the client and of the adapter

\* VLLMClient's methods and VLLMAdapter's.
Methods == {"chat", "list_models", "health", "stream_chat"}
Operations == {"sleep", "wake", "load_lora", "unload_lora"}

ASSUME ClientAssumption ==
  /\ RetryMax \in Nat \ {0}
  /\ Ops \subseteq Methods \cup Operations

VARIABLES
  call,            \* where each task is in its call
  backend          \* external: what each backend has been made to be

clientVars == <<call, backend>>

\* Two methods make a single attempt.
MaxAttempts(request) == IF request \in {"health", "stream_chat"} THEN 1 ELSE RetryMax

Waits == {"sending", "backoff", "settling"}
Results == {"ok", "refused", "unreachable", "garbled"}

\* op is what the task called and request what is being sent for it: a wake that
\* has been answered goes on with the requests of its warm-up.  answered says that
\* the backend has answered an attempt of the request, whatever with; alone that no
\* other operation on the backend overlapped this one.
Call ==
  [at : Waits, op : Ops, request : Ops \cup {"chat", "list_models"},
   to : Endpoints, attempt : 1..RetryMax, answered : BOOLEAN, alone : BOOLEAN]

ClientTypeOK ==
  /\ call \in [Tasks -> [at : {"none"} \cup Results] \cup Call]
  /\ backend \in [Endpoints -> [asleep : BOOLEAN, lora : BOOLEAN]]

ClientInit ==
  /\ call = [t \in Tasks |-> [at |-> "none"]]
  /\ backend = [e \in Endpoints |-> [asleep |-> FALSE, lora |-> FALSE]]

InCall(t) == call[t].at \in Waits
Sending(c, request) ==
  [c EXCEPT !.at = "sending", !.request = request, !.attempt = 1, !.answered = FALSE]
-----------------------------------------------------------------------------
\* The tasks' calls after t begins one: operations under way on the same backend
\* overlap it.
Begun(t, op, e) ==
  LET others == {u \in Tasks \ {t} :
                   InCall(u) /\ call[u].to = e /\ {op, call[u].op} \subseteq Operations}
      c == [at |-> "sending", op |-> op, request |-> op, to |-> e, attempt |-> 1,
            answered |-> FALSE, alone |-> others = {}]
  IN [u \in Tasks |->
        IF u = t THEN c ELSE IF u \in others THEN [call[u] EXCEPT !.alone = FALSE] ELSE call[u]]

Begin(t, op, e) ==
  /\ ~InCall(t)
  /\ call' = Begun(t, op, e)
  /\ UNCHANGED backend

\* External: what running a request makes of a backend.
Effect(request, b) ==
  CASE request = "sleep"       -> [b EXCEPT !.asleep = TRUE]
    [] request = "wake"        -> [b EXCEPT !.asleep = FALSE]
    [] request = "load_lora"   -> [b EXCEPT !.lora = TRUE]
    [] request = "unload_lora" -> [b EXCEPT !.lora = FALSE]
    [] OTHER                   -> b

Run(t) == backend' = [backend EXCEPT ![call[t].to] = Effect(call[t].request, @)]

WarmingUp(c) == c.op = "wake" /\ c.request # "wake"

\* Mutant: a warm-up that fails is begun again.
Mut_WarmAgain(c, result) ==
  IF WarmingUp(c) THEN Sending(c, "list_models") ELSE [at |-> result]

\* A call whose last attempt ended with no success.  The warm-up only logs it, as it
\* does the errors that _request raises; wake has succeeded all the same.
Failed(c, result) == [at |-> IF WarmingUp(c) THEN "ok" ELSE result]

\* Mutants: one attempt too many; the adapter returns None when its attempts are used up.
Mut_OneMore(c) ==
  IF c.attempt < MaxAttempts(c.request) + 1 THEN [c EXCEPT !.at = "backoff"]
  ELSE Failed(c, "unreachable")
Mut_GiveUpQuietly(c) ==
  IF c.attempt < MaxAttempts(c.request) THEN [c EXCEPT !.at = "backoff"] ELSE [at |-> "ok"]

\* A call whose attempt ended with no answer.
AfterLoss(c) ==
  IF c.attempt < MaxAttempts(c.request) THEN [c EXCEPT !.at = "backoff"]
  ELSE Failed(c, "unreachable")

\* The request does not reach the backend.
Unreached(t) ==
  /\ call[t].at = "sending"
  /\ call' = [call EXCEPT ![t] = AfterLoss(@)]
  /\ UNCHANGED backend

\* The backend runs the request and its answer is lost.
AnswerLost(t) ==
  /\ call[t].at = "sending"
  /\ call' = [call EXCEPT ![t] = AfterLoss(@)]
  /\ Run(t)

\* Mutant: errors are tried again, as the comments of both modules say.
Mut_RetryRefusals(c) == AfterLoss(c)

\* Neither a 4xx nor a 5xx is tried again: VLLMHTTPError is not among the exceptions
\* that are.
AfterRefusal(c) == Failed(c, "refused")

Refused(t) ==
  /\ call[t].at = "sending"
  /\ call' = [call EXCEPT ![t] = AfterRefusal([call[t] EXCEPT !.answered = TRUE])]
  /\ UNCHANGED backend

Finished(results) == [at : results]

\* Where an answer of success can lead.  An answer that is no JSON is None to the
\* adapter and an exception from the client, which the warm-up does not catch.  The
\* warm-up asks for the models when wake has not been given a name, and then for a
\* completion if there is one.
AfterAnswer(c) ==
  CASE c.request = "sleep" -> {[c EXCEPT !.at = "settling"]}
    [] c.request = "wake"  -> {Sending(c, "list_models"), Sending(c, "chat")}
    [] c.request = "list_models" ->
         Finished({"ok", "garbled"}) \cup (IF WarmingUp(c) THEN {Sending(c, "chat")} ELSE {})
    [] c.request = "chat"  -> Finished({"ok", "garbled"})
    [] OTHER -> Finished({"ok"})

Answered(t) ==
  /\ call[t].at = "sending"
  /\ \E c \in AfterAnswer([call[t] EXCEPT !.answered = TRUE]) : call' = [call EXCEPT ![t] = c]
  /\ Run(t)

Retry(t) ==
  /\ call[t].at = "backoff"
  /\ call' = [call EXCEPT ![t].at = "sending", ![t].attempt = @ + 1]
  /\ UNCHANGED backend

\* sleep returns True after a fixed wait, without looking at the memory.
Settle(t) ==
  /\ call[t].at = "settling"
  /\ call' = [call EXCEPT ![t] = [at |-> "ok"]]
  /\ UNCHANGED backend

Attempt(t) == Unreached(t) \/ AnswerLost(t) \/ Refused(t) \/ Answered(t)
Proceed(t) == Attempt(t) \/ Retry(t) \/ Settle(t)

ClientNext ==
  \E t \in Tasks : Proceed(t) \/ \E op \in Ops, e \in Endpoints : Begin(t, op, e)

\* Attempts have timeouts, and the waits are bounded.
ClientFairness == \A t \in Tasks : WF_clientVars(Proceed(t))
-----------------------------------------------------------------------------
(***************************************************************************)
(* Properties.                                                             *)
(***************************************************************************)
\* A request that a backend has answered, with a success that cannot be read or with
\* an error of any status, is not sent again, neither by the client nor by the
\* adapter: what is repeated was not delivered, or its answer was lost.  The comments
\* promise otherwise: client.py:6-7 and 204 and adapter.py:193 have a 5xx repeated,
\* adapter.py:178-179 every error.
AnsweredIsNotRepeated ==
  \A t \in Tasks : call[t].at \in {"sending", "backoff"} => ~call[t].answered

\* An operation of the adapter that returns True, and that no other on its backend
\* overlapped, has left the backend as it says, whatever was lost and tried again
\* on the way.
SuccessMeansDone ==
  [][\A t \in Tasks :
       (InCall(t) /\ call'[t].at = "ok" /\ call[t].alone)
         => backend'[call[t].to] = Effect(call[t].op, backend'[call[t].to])]_clientVars
=============================================================================
