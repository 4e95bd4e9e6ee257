---------------------------- MODULE ClientProofs ----------------------------
(***************************************************************************)
(* Theorems about the calls of Client under evaluations, for any number of *)
(* tasks, backends and attempts.                                           *)
(*                                                                         *)
(* A step changes the record of one task, so most of the invariant is      *)
(* about one record: Good says what is known of a call in progress, and    *)
(* the lemmas that every way an attempt can end keeps it.  What a task     *)
(* knows of its backend depends on the others: Undisturbed.  Every step of *)
(* an evaluation is a step of the client or leaves its calls alone; what   *)
(* is known of the evaluation itself is EvaluatorsInv.  The sections after *)
(* that are about the statistics that judge a canary, which fall with the  *)
(* samples, and the thresholds, which such metrics pass.                   *)
(***************************************************************************)
EXTENDS Evaluation, SumProofs

Rest == [at : {"none"} \cup Results]

\* What is known of a call in progress: no attempt at its request has been
\* answered, the attempts fit, and only a wake goes on to other requests.
Good(c) ==
  /\ c.at \in {"sending", "backoff"} => ~c.answered
  /\ c.at = "backoff" => c.attempt < RetryMax
  /\ c.at = "settling" => c.op = "sleep"
  /\ c.request # c.op => c.op = "wake" /\ c.request \in {"chat", "list_models"}

GoodCall == {c \in Call : Good(c)}
Backend == [asleep : BOOLEAN, lora : BOOLEAN]

CallsInv ==
  /\ call \in [Tasks -> Rest \cup GoodCall]
  /\ backend \in [Endpoints -> Backend]

\* The call has changed its backend already.
Past(c) == c.at = "settling" \/ WarmingUp(c)

Together(c, d) == c.to = d.to /\ c.op \in Operations /\ d.op \in Operations

\* A call that is alone shares its backend with no other operation, and once past its
\* own request still finds there what it has made of it.
Undisturbed(t) ==
  InCall(t) /\ call[t].alone =>
    /\ \A u \in Tasks \ {t} : InCall(u) => ~Together(call[t], call[u])
    /\ Past(call[t]) => Effect(call[t].op, backend[call[t].to]) = backend[call[t].to]

IInv == CallsInv /\ \A t \in Tasks : Undisturbed(t)
-----------------------------------------------------------------------------
(***************************************************************************)
(* One record and one backend.                                             *)
(***************************************************************************)
LEMMA InCallIsGood == ASSUME CallsInv, NEW t \in Tasks, InCall(t) PROVE call[t] \in GoodCall
  BY DEF CallsInv, InCall, Rest, Results, Waits

LEMMA FailedRests ==
  ASSUME NEW c, NEW result \in Results PROVE Failed(c, result) \in Rest
  BY DEF Failed, Rest, Results

LEMMA LossIsGood ==
  ASSUME NEW c \in Call, ~c.answered,
         c.request # c.op => c.op = "wake" /\ c.request \in {"chat", "list_models"}
  PROVE  AfterLoss(c) \in Rest \cup GoodCall
<1>1. CASE c.attempt < MaxAttempts(c.request)
  <2>1. c.attempt < RetryMax
    BY <1>1, ClientAssumption DEF MaxAttempts, Call
  <2>2. [c EXCEPT !.at = "backoff"] \in Call
    BY DEF Call, Waits
  <2> QED
    BY <1>1, <2>1, <2>2 DEF AfterLoss, GoodCall, Good, Call
<1>2. CASE ~(c.attempt < MaxAttempts(c.request))
  BY <1>2, FailedRests DEF AfterLoss, Results
<1> QED
  BY <1>1, <1>2

LEMMA SendingIsGood ==
  ASSUME NEW c \in Call, c.op = "wake", NEW request \in {"chat", "list_models"}
  PROVE  /\ Sending(c, request) \in GoodCall
         /\ Sending(c, request).op = c.op
         /\ Sending(c, request).to = c.to
         /\ Sending(c, request).alone = c.alone
<1> DEFINE s == Sending(c, request)
<1>1. /\ s.at = "sending" /\ s.request = request /\ s.attempt = 1
      /\ s.answered = FALSE /\ s.op = c.op /\ s.to = c.to /\ s.alone = c.alone
  BY DEF Sending, Call
<1>2. s \in Call
  <2>1. 1 \in 1..RetryMax
    BY ClientAssumption
  <2>2. request \in Ops \cup {"chat", "list_models"} /\ "sending" \in Waits
    BY DEF Waits
  <2> QED
    BY <2>1, <2>2 DEF Sending, Call
<1>3. Good(s)
  BY <1>1 DEF Good
<1> QED
  BY <1>1, <1>2, <1>3 DEF GoodCall

\* Whatever is answered.
LEMMA AnswerIsGood ==
  ASSUME NEW c \in Call,
         c.request # c.op => c.op = "wake" /\ c.request \in {"chat", "list_models"},
         NEW d \in AfterAnswer(c)
  PROVE  /\ d \in Rest \cup GoodCall
         /\ d.at \in Waits => d.op = c.op /\ d.to = c.to /\ d.alone = c.alone
<1>1. CASE c.request = "sleep"
  BY <1>1 DEF AfterAnswer, GoodCall, Good, Call, Waits
<1>2. CASE c.request = "wake"
  BY <1>2, SendingIsGood DEF AfterAnswer
<1>3. CASE c.request = "list_models"
  BY <1>3, SendingIsGood DEF AfterAnswer, Finished, WarmingUp, Rest, Results, Waits
<1>4. CASE c.request \notin {"sleep", "wake", "list_models"}
  BY <1>4 DEF AfterAnswer, Finished, Rest, Results, Waits
<1> QED
  BY <1>1, <1>2, <1>3, <1>4

LEMMA EffectType ==
  ASSUME NEW b \in Backend, NEW request PROVE Effect(request, b) \in Backend
  BY DEF Effect, Backend

LEMMA EffectTwice ==
  ASSUME NEW b \in Backend, NEW op
  PROVE  Effect(op, Effect(op, b)) = Effect(op, b)
  BY DEF Effect, Backend

LEMMA NoEffect ==
  ASSUME NEW b, NEW request, request \notin Operations PROVE Effect(request, b) = b
  BY DEF Effect, Operations
-----------------------------------------------------------------------------
(***************************************************************************)
(* One step of one task.                                                   *)
(***************************************************************************)
\* t goes on with d: what has then come true of its backend was so before or is the
\* effect of this step.
Outcome(t, d) ==
  /\ d \in Rest \cup GoodCall
  /\ call' = [call EXCEPT ![t] = d]
  /\ backend' = backend \/ Run(t)
  /\ d.at \in Waits => d.op = call[t].op /\ d.to = call[t].to /\ d.alone = call[t].alone
  /\ d.at = "ok" \/ (d.at \in Waits /\ Past(d))
       => Past(call[t]) \/ (Run(t) /\ call[t].request = call[t].op)

LEMMA LossOutcome ==
  ASSUME NEW d \in GoodCall, ~d.answered
  PROVE  /\ AfterLoss(d) \in Rest \cup GoodCall
         /\ AfterLoss(d).at \in Waits => /\ AfterLoss(d).op = d.op
                                        /\ AfterLoss(d).to = d.to
                                        /\ AfterLoss(d).alone = d.alone
         /\ AfterLoss(d).at = "ok" \/ (AfterLoss(d).at \in Waits /\ Past(AfterLoss(d)))
              => WarmingUp(d)
<1>1. AfterLoss(d) \in Rest \cup GoodCall
  BY LossIsGood DEF GoodCall, Good
<1>2. CASE d.attempt < MaxAttempts(d.request)
  <2>1. AfterLoss(d) = [d EXCEPT !.at = "backoff"]
    BY <1>2 DEF AfterLoss
  <2>2. /\ AfterLoss(d).at = "backoff" /\ AfterLoss(d).op = d.op
        /\ AfterLoss(d).request = d.request /\ AfterLoss(d).to = d.to
        /\ AfterLoss(d).alone = d.alone
    BY <2>1 DEF Call, GoodCall
  <2> QED
    BY <1>1, <2>2 DEF Past, WarmingUp
<1>3. CASE ~(d.attempt < MaxAttempts(d.request))
  <2>1. AfterLoss(d) = Failed(d, "unreachable")
    BY <1>3 DEF AfterLoss
  <2>2. AfterLoss(d).at = IF WarmingUp(d) THEN "ok" ELSE "unreachable"
    BY <2>1 DEF Failed
  <2> QED
    BY <1>1, <2>2 DEF Waits
<1> QED
  BY <1>2, <1>3

LEMMA ProceedOutcome ==
  ASSUME CallsInv, NEW t \in Tasks, Proceed(t)
  PROVE  InCall(t) /\ \E d : Outcome(t, d)
<1> DEFINE c == call[t]
<1>1. InCall(t)
  BY DEF Proceed, Attempt, Unreached, AnswerLost, Refused, Answered, Retry, Settle,
         InCall, Waits
<1>2. c \in Call /\ Good(c) /\ c \in GoodCall
  BY <1>1, InCallIsGood DEF GoodCall
<1>3. CASE Unreached(t)
  <2>1. call' = [call EXCEPT ![t] = AfterLoss(c)] /\ backend' = backend
    BY <1>3 DEF Unreached
  <2>2. ~c.answered
    BY <1>2, <1>3 DEF Unreached, Good
  <2> QED
    BY <1>1, <1>2, <2>1, <2>2, LossOutcome DEF Outcome, Past
<1>4. CASE AnswerLost(t)
  <2>1. call' = [call EXCEPT ![t] = AfterLoss(c)] /\ Run(t)
    BY <1>4 DEF AnswerLost
  <2>2. ~c.answered
    BY <1>2, <1>4 DEF AnswerLost, Good
  <2> QED
    BY <1>1, <1>2, <2>1, <2>2, LossOutcome DEF Outcome, Past
<1>5. CASE Refused(t)
  <2> DEFINE a == [c EXCEPT !.answered = TRUE]
  <2>1. call' = [call EXCEPT ![t] = Failed(a, "refused")] /\ backend' = backend
    BY <1>5 DEF Refused, AfterRefusal
  <2>2. a.op = c.op /\ a.request = c.request
    BY <1>2 DEF Call
  <2> HIDE DEF a
  <2>3. Failed(a, "refused") \in Rest
    BY FailedRests DEF Results
  <2>4. Failed(a, "refused").at = IF WarmingUp(c) THEN "ok" ELSE "refused"
    BY <2>2 DEF Failed, WarmingUp
  <2> QED
    BY <1>1, <2>1, <2>3, <2>4 DEF Outcome, Past, Waits
<1>6. CASE Answered(t)
  <2> DEFINE a == [c EXCEPT !.answered = TRUE]
  <2>1. PICK d \in AfterAnswer(a) : call' = [call EXCEPT ![t] = d]
    BY <1>6 DEF Answered
  <2>2. Run(t)
    BY <1>6 DEF Answered
  <2>3. /\ a \in Call
        /\ a.op = c.op /\ a.request = c.request /\ a.to = c.to /\ a.alone = c.alone
    BY <1>2 DEF Call
  <2>4. a.request # a.op => a.op = "wake" /\ a.request \in {"chat", "list_models"}
    BY <1>2, <2>3 DEF Good
  <2> HIDE DEF a
  <2>5. /\ d \in Rest \cup GoodCall
        /\ d.at \in Waits => d.op = c.op /\ d.to = c.to /\ d.alone = c.alone
    BY <2>3, <2>4, AnswerIsGood
  <2>6. c.request = c.op \/ WarmingUp(c)
    BY <1>2 DEF Good, WarmingUp
  <2> QED
    BY <1>1, <2>1, <2>2, <2>5, <2>6 DEF Outcome, Past
<1>7. CASE Retry(t)
  <2> DEFINE d == [c EXCEPT !.at = "sending", !.attempt = @ + 1]
  <2>1. call' = [call EXCEPT ![t] = d] /\ backend' = backend
    BY <1>7, <1>2 DEF Retry, CallsInv
  <2>2. ~c.answered /\ c.attempt < RetryMax
    BY <1>2, <1>7 DEF Retry, Good
  <2>3. /\ d.at = "sending" /\ d.attempt = c.attempt + 1 
        /\ d.answered = c.answered /\ d.op = c.op /\ d.request = c.request /\ d.to = c.to
        /\ d.alone = c.alone
    BY <1>2 DEF Call
  <2>4. d \in Call
    <3>1. c.attempt + 1 \in 1..RetryMax
      BY <1>2, <2>2, ClientAssumption DEF Call
    <3> QED
      BY <1>2, <3>1 DEF Call, Waits
  <2>5. Good(d)
    BY <1>2, <2>2, <2>3 DEF Good, Call
  <2> HIDE DEF d
  <2> QED
    BY <1>1, <2>1, <2>3, <2>4, <2>5 DEF Outcome, Past, WarmingUp, GoodCall
<1>8. CASE Settle(t)
  <2>1. call' = [call EXCEPT ![t] = [at |-> "ok"]] /\ backend' = backend /\ Past(c)
    BY <1>8 DEF Settle, Past
  <2> QED
    BY <1>1, <2>1 DEF Outcome, Rest, Results, Waits
<1> QED
  BY <1>3, <1>4, <1>5, <1>6, <1>7, <1>8 DEF Proceed, Attempt

\* What a call is asked to do is one of the operations only while it is its own request.
LEMMA RunOf ==
  ASSUME CallsInv, NEW t \in Tasks, InCall(t), Run(t), NEW e \in Endpoints
  PROVE  /\ backend'[e] \in Backend
         /\ e # call[t].to \/ call[t].request # call[t].op \/ call[t].op \notin Operations
              => backend'[e] = backend[e]
         /\ e = call[t].to /\ call[t].request = call[t].op
              => backend'[e] = Effect(call[t].op, backend[e])
<1>1. call[t] \in Call /\ Good(call[t])
  BY InCallIsGood DEF GoodCall
<1>2. backend[e] \in Backend
  BY DEF CallsInv
<1>3. backend'[e] = IF e = call[t].to THEN Effect(call[t].request, backend[e]) ELSE backend[e]
  BY DEF Run, CallsInv
<1>4. call[t].request # call[t].op => call[t].request \notin Operations
  BY <1>1 DEF Good, Operations
<1> QED
  BY <1>1, <1>2, <1>3, <1>4, EffectType, NoEffect

\* What a task that begins a call makes of the tasks' calls.
LEMMA BeginOf ==
  ASSUME CallsInv, NEW t \in Tasks, NEW op \in Ops, NEW e \in Endpoints, Begin(t, op, e)
  PROVE  /\ call' \in [Tasks -> Rest \cup GoodCall]
         /\ backend' = backend
         /\ ~InCall(t)
         /\ /\ call'[t].at = "sending" /\ call'[t].op = op /\ call'[t].request = op
            /\ call'[t].to = e
            /\ call'[t].alone => \A u \in Tasks \ {t} :
                                   InCall(u) /\ call[u].to = e
                                     => ~({op, call[u].op} \subseteq Operations)
         /\ \A u \in Tasks \ {t} :
              \/ call'[u] = call[u] /\ ~(/\ InCall(u) /\ call[u].to = e
                                       /\ {op, call[u].op} \subseteq Operations)
              \/ /\ InCall(u) /\ call'[u] \in GoodCall /\ call'[u].at = call[u].at
                 /\ call'[u].op = call[u].op /\ call'[u].to = call[u].to /\ ~call'[u].alone
<1> DEFINE others == {u \in Tasks \ {t} :
                       InCall(u) /\ call[u].to = e /\ {op, call[u].op} \subseteq Operations}
           c == [at |-> "sending", op |-> op, request |-> op, to |-> e, attempt |-> 1,
                 answered |-> FALSE, alone |-> others = {}]
<1>1. /\ call' = [u \in Tasks |->
                    IF u = t THEN c
                    ELSE IF u \in others THEN [call[u] EXCEPT !.alone = FALSE] ELSE call[u]]
      /\ backend' = backend /\ ~InCall(t)
  BY DEF Begin, Begun
<1>2. c \in GoodCall
  <2>1. (others = {}) \in BOOLEAN /\ 1 \in 1..RetryMax
    BY ClientAssumption
  <2>2. c \in Call
    BY <2>1 DEF Call, Waits
  <2>3. Good(c)
    BY DEF Good
  <2> QED
    BY <2>2, <2>3 DEF GoodCall
<1>3. \A u \in others : /\ [call[u] EXCEPT !.alone = FALSE] \in GoodCall
                        /\ [call[u] EXCEPT !.alone = FALSE].at = call[u].at
                        /\ [call[u] EXCEPT !.alone = FALSE].op = call[u].op
                        /\ [call[u] EXCEPT !.alone = FALSE].to = call[u].to
                        /\ ~[call[u] EXCEPT !.alone = FALSE].alone
  <2> SUFFICES ASSUME NEW u \in others
               PROVE  /\ [call[u] EXCEPT !.alone = FALSE] \in GoodCall
                      /\ [call[u] EXCEPT !.alone = FALSE].at = call[u].at
                      /\ [call[u] EXCEPT !.alone = FALSE].op = call[u].op
                      /\ [call[u] EXCEPT !.alone = FALSE].to = call[u].to
                      /\ ~[call[u] EXCEPT !.alone = FALSE].alone
    OBVIOUS
  <2>1. call[u] \in Call /\ Good(call[u])
    BY InCallIsGood DEF GoodCall
  <2> DEFINE d == [call[u] EXCEPT !.alone = FALSE]
  <2>2. /\ d.at = call[u].at /\ d.op = call[u].op /\ d.request = call[u].request
        /\ d.attempt = call[u].attempt /\ d.answered = call[u].answered
        /\ d.to = call[u].to
        /\ d.alone = FALSE
    BY <2>1 DEF Call
  <2>3. d \in Call
    BY <2>1 DEF Call
  <2>4. Good(d)
    BY <2>1, <2>2 DEF Good
  <2> QED
    BY <2>2, <2>3, <2>4 DEF GoodCall
<1>4. \A u \in Tasks : call[u] \in Rest \cup GoodCall
  BY DEF CallsInv
<1>5. call' \in [Tasks -> Rest \cup GoodCall]
  <2>1. \A u \in Tasks :
          (IF u = t THEN c
           ELSE IF u \in others THEN [call[u] EXCEPT !.alone = FALSE] ELSE call[u])
             \in Rest \cup GoodCall
    BY <1>2, <1>3, <1>4
  <2> QED
    BY <1>1, <2>1
<1>6. call'[t] = c
  BY <1>1
<1>7. \A u \in Tasks \ {t} : call'[u] = IF u \in others THEN [call[u] EXCEPT !.alone = FALSE]
                                       ELSE call[u]
  BY <1>1
<1>8. \A u \in others : InCall(u)
  OBVIOUS
<1>9. /\ call'[t].at = "sending" /\ call'[t].op = op /\ call'[t].request = op
      /\ call'[t].to = e /\ call'[t].alone = (others = {})
  BY <1>6
<1>10. others = {} => \A u \in Tasks \ {t} :
                        InCall(u) /\ call[u].to = e
                          => ~({op, call[u].op} \subseteq Operations)
  OBVIOUS
<1>11. \A u \in Tasks \ {t} :
         \/ call'[u] = call[u] /\ ~(/\ InCall(u) /\ call[u].to = e
                                  /\ {op, call[u].op} \subseteq Operations)
         \/ /\ InCall(u) /\ call'[u] \in GoodCall /\ call'[u].at = call[u].at
            /\ call'[u].op = call[u].op /\ call'[u].to = call[u].to /\ ~call'[u].alone
  <2> SUFFICES ASSUME NEW u \in Tasks \ {t}
               PROVE  \/ call'[u] = call[u] /\ ~(/\ InCall(u) /\ call[u].to = e
                                               /\ {op, call[u].op} \subseteq Operations)
                      \/ /\ InCall(u) /\ call'[u] \in GoodCall /\ call'[u].at = call[u].at
                         /\ call'[u].op = call[u].op /\ call'[u].to = call[u].to
                         /\ ~call'[u].alone
    OBVIOUS
  <2>1. CASE u \in others
    <3>1. call'[u] = [call[u] EXCEPT !.alone = FALSE]
      BY <1>7, <2>1
    <3> QED
      BY <1>3, <1>8, <2>1, <3>1
  <2>2. CASE u \notin others
    BY <1>7, <2>2
  <2> QED
    BY <2>1, <2>2
<1> HIDE DEF others, c
<1> QED
  BY <1>1, <1>5, <1>9, <1>10, <1>11
-----------------------------------------------------------------------------
(***************************************************************************)
(* The invariant.                                                          *)
(***************************************************************************)
LEMMA InvInit == ClientInit => IInv
<1> SUFFICES ASSUME ClientInit PROVE IInv
  OBVIOUS
<1>1. [at |-> "none"] \in Rest /\ [asleep |-> FALSE, lora |-> FALSE] \in Backend
  BY DEF Rest, Backend
<1>2. CallsInv
  BY <1>1 DEF ClientInit, CallsInv
<1>3. \A t \in Tasks : ~InCall(t)
  BY DEF ClientInit, InCall, Waits
<1> QED
  BY <1>2, <1>3 DEF IInv, Undisturbed

LEMMA InvBegin ==
  ASSUME IInv, NEW t \in Tasks, NEW op \in Ops, NEW e \in Endpoints, Begin(t, op, e)
  PROVE  IInv'
<1>1. CallsInv
  BY DEF IInv
<1> DEFINE Overlaps(u) == InCall(u) /\ call[u].to = e /\ {op, call[u].op} \subseteq Operations
<1>2. call' \in [Tasks -> Rest \cup GoodCall] /\ backend' = backend
  BY <1>1, BeginOf
<1>3. /\ call'[t].at = "sending" /\ call'[t].op = op /\ call'[t].request = op
      /\ call'[t].to = e
      /\ call'[t].alone => \A u \in Tasks \ {t} : ~Overlaps(u)
  BY <1>1, BeginOf
<1>4. \A u \in Tasks \ {t} :
        \/ call'[u] = call[u] /\ ~Overlaps(u)
        \/ /\ InCall(u) /\ call'[u].at = call[u].at /\ ~call'[u].alone
           /\ call'[u].op = call[u].op /\ call'[u].to = call[u].to
  BY <1>1, BeginOf
<1>5. CallsInv'
  BY <1>1, <1>2 DEF CallsInv
<1>6. ASSUME NEW u \in Tasks \ {t}, InCall(u)', call'[u].alone
      PROVE  call'[u] = call[u] /\ ~Overlaps(u) /\ InCall(u)
  BY <1>4, <1>6 DEF InCall
<1>7. ASSUME NEW u \in Tasks, InCall(u)', call'[u].alone, NEW w \in Tasks \ {u}, InCall(w)'
      PROVE  ~Together(call'[u], call'[w])
  <2>1. CASE u = t
    <3>1. ~Overlaps(w)
      BY <1>3, <1>7, <2>1
    <3>2. InCall(w) /\ call'[w].op = call[w].op /\ call'[w].to = call[w].to
      BY <1>4, <1>7, <2>1 DEF InCall
    <3> QED
      BY <1>3, <2>1, <3>1, <3>2 DEF Together
  <2>2. CASE u # t /\ w = t
    BY <1>3, <1>6, <1>7, <2>2 DEF Together
  <2>3. CASE u # t /\ w # t
    <3>1. call'[u] = call[u] /\ ~Overlaps(u) /\ InCall(u)
      BY <1>6, <1>7, <2>3
    <3>2. InCall(w) /\ ~Together(call[u], call[w])
      BY <1>4, <1>7, <2>3, <3>1 DEF IInv, Undisturbed, InCall
    <3>3. CASE call'[w] = call[w]
      BY <3>1, <3>2, <3>3
    <3>4. CASE call'[w] # call[w]
      <4>1. call'[w].op = call[w].op /\ call'[w].to = call[w].to
        BY <1>4, <2>3, <3>4
      <4> QED
        BY <3>1, <3>2, <4>1 DEF Together
    <3> QED
      BY <3>3, <3>4
  <2> QED
    BY <2>1, <2>2, <2>3
<1>8. ASSUME NEW u \in Tasks, InCall(u)', call'[u].alone, Past(call'[u])
      PROVE  Effect(call'[u].op, backend'[call'[u].to]) = backend'[call'[u].to]
  <2>1. CASE u = t
    BY <1>3, <1>8, <2>1 DEF Past, WarmingUp
  <2>2. CASE u # t
    <3>1. call'[u] = call[u] /\ InCall(u)
      BY <1>6, <1>8, <2>2
    <3> QED
      BY <1>2, <1>8, <3>1 DEF IInv, Undisturbed
  <2> QED
    BY <2>1, <2>2
<1> QED
  BY <1>5, <1>7, <1>8 DEF IInv, Undisturbed

\* What another task sees of a step of t.
LEMMA ProceedElsewhere ==
  ASSUME IInv, NEW t \in Tasks, NEW d, InCall(t), Outcome(t, d),
         NEW u \in Tasks \ {t}, InCall(u), call[u].alone, Past(call[u])
  PROVE  Effect(call[u].op, backend'[call[u].to]) = backend'[call[u].to]
<1>1. CallsInv /\ ~Together(call[u], call[t])
  BY DEF IInv, Undisturbed
<1>2. Effect(call[u].op, backend[call[u].to]) = backend[call[u].to]
  BY DEF IInv, Undisturbed
<1>3. call[u] \in Call /\ Good(call[u])
  BY <1>1, InCallIsGood DEF GoodCall
<1>4. call[u].op \in Operations /\ call[u].to \in Endpoints
  BY <1>3 DEF Past, WarmingUp, InCall, Good, Operations, Call
<1>5. CASE backend' = backend
  BY <1>2, <1>5
<1>6. CASE Run(t)
  <2>1. call[u].to # call[t].to \/ call[t].op \notin Operations
    BY <1>1, <1>4 DEF Together
  <2>2. backend'[call[u].to] = backend[call[u].to]
    BY <1>1, <1>4, <1>6, <2>1, RunOf
  <2> QED
    BY <1>2, <2>2
<1> QED
  BY <1>5, <1>6 DEF Outcome

\* A step of t after which its call counts as done leaves the effect of the call.
LEMMA ProceedDone ==
  ASSUME IInv, NEW t \in Tasks, NEW d, InCall(t), Outcome(t, d), call[t].alone,
         d.at = "ok" \/ (d.at \in Waits /\ Past(d))
  PROVE  Effect(call[t].op, backend'[call[t].to]) = backend'[call[t].to]
<1>1. CallsInv
  BY DEF IInv
<1>2. call[t] \in Call /\ Good(call[t])
  BY <1>1, InCallIsGood DEF GoodCall
<1>3. call[t].to \in Endpoints
  BY <1>2 DEF Call
<1>4. backend[call[t].to] \in Backend
  BY <1>1, <1>3 DEF CallsInv
<1>5. CASE Run(t) /\ call[t].request = call[t].op
  BY <1>1, <1>3, <1>4, <1>5, RunOf, EffectTwice
<1>6. CASE Past(call[t]) /\ ~(Run(t) /\ call[t].request = call[t].op)
  <2>1. Effect(call[t].op, backend[call[t].to]) = backend[call[t].to]
    BY <1>6 DEF IInv, Undisturbed
  <2>2. backend'[call[t].to] = backend[call[t].to]
    BY <1>1, <1>3, <1>6, RunOf DEF Outcome
  <2> QED
    BY <2>1, <2>2
<1> QED
  BY <1>5, <1>6 DEF Outcome

LEMMA InvProceed ==
  ASSUME IInv, NEW t \in Tasks, Proceed(t)
  PROVE  IInv'
<1>1. CallsInv
  BY DEF IInv
<1>2. PICK d : InCall(t) /\ Outcome(t, d)
  BY <1>1, ProceedOutcome
<1>3. call'[t] = d /\ \A u \in Tasks \ {t} : call'[u] = call[u]
  BY <1>1, <1>2 DEF Outcome, CallsInv
<1>4. CallsInv'
  <2>1. call' \in [Tasks -> Rest \cup GoodCall]
    BY <1>1, <1>2 DEF Outcome, CallsInv
  <2>2. CASE backend' = backend
    BY <1>1, <2>1, <2>2 DEF CallsInv
  <2>3. CASE Run(t)
    <3>1. \A e \in Endpoints : backend'[e] \in Backend
      BY <1>1, <1>2, <2>3, RunOf
    <3> QED
      BY <1>1, <2>1, <2>3, <3>1 DEF CallsInv, Run
  <2> QED
    BY <1>2, <2>2, <2>3 DEF Outcome
<1>5. ASSUME NEW u \in Tasks, InCall(u)'
      PROVE  /\ InCall(u) /\ call'[u].op = call[u].op /\ call'[u].to = call[u].to
             /\ call'[u].alone = call[u].alone
  <2>1. CASE u = t
    BY <1>2, <1>3, <1>5, <2>1 DEF Outcome, InCall
  <2>2. CASE u # t
    BY <1>3, <1>5, <2>2 DEF InCall
  <2> QED
    BY <2>1, <2>2
<1>6. ASSUME NEW u \in Tasks, InCall(u)', call'[u].alone, NEW w \in Tasks \ {u}, InCall(w)'
      PROVE  ~Together(call'[u], call'[w])
  <2>1. ~Together(call[u], call[w])
    BY <1>5, <1>6 DEF IInv, Undisturbed
  <2> QED
    BY <1>5, <1>6, <2>1 DEF Together
<1>7. ASSUME NEW u \in Tasks, InCall(u)', call'[u].alone, Past(call'[u])
      PROVE  Effect(call'[u].op, backend'[call'[u].to]) = backend'[call'[u].to]
  <2>1. /\ InCall(u) /\ call'[u].op = call[u].op /\ call'[u].to = call[u].to /\ call[u].alone
    BY <1>5, <1>7
  <2>2. CASE u = t
    <3>1. d.at \in Waits /\ Past(d)
      BY <1>3, <1>7, <2>2 DEF InCall
    <3>2. Effect(call[t].op, backend'[call[t].to]) = backend'[call[t].to]
      BY <1>2, <2>1, <2>2, <3>1, ProceedDone
    <3> QED
      BY <2>1, <2>2, <3>2
  <2>3. CASE u # t
    <3>1. Past(call[u])
      BY <1>3, <1>7, <2>3
    <3>2. Effect(call[u].op, backend'[call[u].to]) = backend'[call[u].to]
      BY <1>2, <2>1, <2>3, <3>1, ProceedElsewhere
    <3> QED
      BY <2>1, <3>2
  <2> QED
    BY <2>2, <2>3
<1> QED
  BY <1>4, <1>6, <1>7 DEF IInv, Undisturbed

LEMMA InvStep == IInv /\ [ClientNext]_clientVars => IInv'
<1> SUFFICES ASSUME IInv, [ClientNext]_clientVars PROVE IInv'
  OBVIOUS
<1>1. CASE \E t \in Tasks : Proceed(t)
  BY <1>1, InvProceed
<1>2. CASE \E t \in Tasks, op \in Ops, e \in Endpoints : Begin(t, op, e)
  BY <1>2, InvBegin
<1>3. CASE UNCHANGED clientVars
  <2>1. call' = call /\ backend' = backend
    BY <1>3 DEF clientVars
  <2> QED
    BY <2>1 DEF IInv, CallsInv, Undisturbed, InCall
<1> QED
  BY <1>1, <1>2, <1>3 DEF ClientNext
-----------------------------------------------------------------------------
(***************************************************************************)
(* The client under evaluations.  An evaluation asks backends that exist,  *)
(* has no more pairs of scores than prompts behind it, and its row says    *)
(* "low" only of means that differ: that, and not the recommendation, is   *)
(* what should_advance asks for.                                           *)
(***************************************************************************)
Undecided == [at : {"none"} \cup Refusals]
Pairs == Seq(Scores \X Scores)
Progress == [at : Asking, v1 : Endpoints, v2 : Endpoints, left : 1..Prompts, scores : Pairs]
Underway == {e \in Progress : Len(e.scores) + e.left <= Prompts}

Sound(r) ==
  /\ r.recommendation = Recommendation(r.p, r.v1, r.v2)
  /\ r.p = "low" => r.v1 # r.v2
SoundRow == {r \in Row : Sound(r)}
Decided == [at : {"saving", "created"}, row : SoundRow]

EvaluatorsInv == evaluation \in [Evaluators -> Undecided \cup Underway \cup Decided]

LEMMA Replaced ==
  ASSUME EvaluatorsInv, NEW t, NEW e \in Undecided \cup Underway \cup Decided,
         evaluation' = [evaluation EXCEPT ![t] = e]
  PROVE  EvaluatorsInv'
BY DEF EvaluatorsInv

\* Where an evaluation is says what it holds.
LEMMA Holds ==
  ASSUME EvaluatorsInv, NEW t \in Evaluators
  PROVE  /\ evaluation[t].at \in Asking => evaluation[t] \in Underway
         /\ evaluation[t].at \in {"saving", "created"} => evaluation[t] \in Decided
         /\ evaluation[t].at \in {"none"} \cup Refusals \cup Asking \cup {"saving", "created"}
<1>1. evaluation[t] \in Undecided \cup Underway \cup Decided
  BY DEF EvaluatorsInv
<1>2. CASE evaluation[t] \in Undecided
  BY <1>2 DEF Undecided, Refusals, Asking
<1>3. CASE evaluation[t] \in Underway
  <2>1. evaluation[t].at \in Asking
    BY <1>3 DEF Underway, Progress
  <2>. QED
    BY <1>3, <2>1 DEF Asking
<1>4. CASE evaluation[t] \in Decided
  <2>1. evaluation[t].at \in {"saving", "created"}
    BY <1>4 DEF Decided
  <2>. QED
    BY <1>4, <2>1 DEF Asking
<1>. QED
  BY <1>1, <1>2, <1>3, <1>4

LEMMA UnderwayFields ==
  ASSUME NEW e \in Underway
  PROVE  /\ e.at \in Asking /\ e.v1 \in Endpoints /\ e.v2 \in Endpoints
         /\ e.left \in 1..Prompts /\ e.scores \in Pairs
         /\ Len(e.scores) + e.left <= Prompts
BY DEF Underway, Progress

LEMMA IsUnderway ==
  ASSUME NEW at \in Asking, NEW v1 \in Endpoints, NEW v2 \in Endpoints,
         NEW left \in 1..Prompts, NEW scores \in Pairs, Len(scores) + left <= Prompts
  PROVE  [at |-> at, v1 |-> v1, v2 |-> v2, left |-> left, scores |-> scores] \in Underway
BY DEF Underway, Progress

LEMMA Asks ==
  ASSUME EvaluatorsInv, NEW t \in Evaluators, NEW who \in Asking, NEW e \in Underway,
         Ask(t, who, e)
  PROVE  ClientNext /\ EvaluatorsInv'
<1>1. ClientNext
  BY EvaluationAssumption, UnderwayFields DEF Ask, ClientNext
<1>2. [e EXCEPT !.at = who]
        = [at |-> who, v1 |-> e.v1, v2 |-> e.v2, left |-> e.left, scores |-> e.scores]
  BY DEF Underway, Progress
<1>3. [e EXCEPT !.at = who] \in Underway
  <2>1. /\ e.v1 \in Endpoints /\ e.v2 \in Endpoints /\ e.left \in 1..Prompts
        /\ e.scores \in Pairs /\ Len(e.scores) + e.left <= Prompts
    BY UnderwayFields
  <2> QED
    BY <1>2, <2>1, IsUnderway
<1>4. evaluation' = [evaluation EXCEPT ![t] = [e EXCEPT !.at = who]]
  BY DEF Ask
<1> QED
  BY <1>1, <1>3, <1>4, Replaced

\* The sums of the scores, which stand for the means.
LEMMA SumOfScores ==
  ASSUME NEW scores \in Pairs, Len(scores) <= Prompts, NEW version \in {1, 2}
  PROVE  Sum(scores, version) \in 0 .. 100 * Prompts
<1> DEFINE D == DOMAIN scores
           f == [i \in D |-> scores[i][version]]
<1>1. D = 1..Len(scores) /\ Len(scores) \in Nat
  BY DEF Pairs
<1>2. IsFiniteSet(D) /\ Cardinality(D) = Len(scores)
  <2>1. 1 \in Int /\ Len(scores) \in Int
    BY <1>1
  <2>2. IsFiniteSet(1..Len(scores))
        /\ Cardinality(1..Len(scores)) = IF 1 > Len(scores) THEN 0 ELSE Len(scores) - 1 + 1
    BY <2>1, FS_Interval
  <2> HIDE DEF D
  <2> QED
    BY <1>1, <2>2
<1>3. \A i \in D : f[i] \in 0..100
  <2> SUFFICES ASSUME NEW i \in D PROVE f[i] \in 0..100
    OBVIOUS
  <2>1. scores[i] \in Scores \X Scores
    BY DEF Pairs
  <2>2. scores[i][version] \in Scores
    BY <2>1
  <2> QED
    BY <2>2 DEF Scores
<1> HIDE DEF f, D
<1>4. SumOver(f, D) \in 0 .. 100 * Cardinality(D)
  BY <1>2, <1>3, SumBound
<1>5. 100 * Cardinality(D) <= 100 * Prompts
  BY <1>1, <1>2, EvaluationAssumption
<1>6. SumOver(f, D) \in 0 .. 100 * Prompts
  BY <1>1, <1>2, <1>4, <1>5, EvaluationAssumption
<1> QED
  BY <1>6 DEF Sum, f, D

\* What the results of the prompts lead to.
LEMMA AggregatedIs ==
  ASSUME NEW scores \in Pairs, Len(scores) <= Prompts, NEW a \in Aggregated(scores)
  PROVE  a \in Undecided \cup Decided
<1>1. CASE Len(scores) < 2
  BY <1>1 DEF Aggregated, Undecided, Refusals
<1>2. CASE ~(Len(scores) < 2)
  <2>1. PICK p \in Welch(scores) :
          a = IF p = "raises" THEN [at |-> "undefined"]
              ELSE [at |-> "saving", row |-> RowOf(scores, p)]
    BY <1>2 DEF Aggregated
  <2>2. CASE p = "raises"
    BY <2>1, <2>2 DEF Undecided, Refusals
  <2>3. CASE p # "raises"
    <3> DEFINE v1 == Sum(scores, 1)
               v2 == Sum(scores, 2)
    <3>1. p \in {"low", "high"} /\ (p = "low" => v1 # v2)
      BY <2>3 DEF Welch
    <3>2. v1 \in 0..(100 * Prompts) /\ v2 \in 0..(100 * Prompts)
      BY SumOfScores
    <3>3. Len(scores) \in 2..Prompts
      BY <1>2, EvaluationAssumption DEF Pairs
    <3>4. RowOf(scores, p) = [samples |-> Len(scores), v1 |-> v1, v2 |-> v2, p |-> p,
                              recommendation |-> Recommendation(p, v1, v2)]
      BY DEF RowOf
    <3> HIDE DEF v1, v2
    <3>5. Recommendation(p, v1, v2) \in {"advance", "hold", "rollback"}
      BY DEF Recommendation
    <3>6. RowOf(scores, p) \in Row
      BY <3>1, <3>2, <3>3, <3>4, <3>5 DEF Row
    <3>7. Sound(RowOf(scores, p))
      BY <3>1, <3>4 DEF Sound
    <3> QED
      BY <2>1, <2>3, <3>6, <3>7 DEF Decided, SoundRow
  <2> QED
    BY <2>2, <2>3
<1> QED
  BY <1>1, <1>2

\* One prompt is done.
LEMMA GoesOn ==
  ASSUME EvaluatorsInv, NEW t \in Evaluators, evaluation[t].at \in Asking,
         NEW scores \in Pairs, Len(scores) + evaluation[t].left <= Prompts + 1,
         NextPrompt(t, scores)
  PROVE  [ClientNext]_clientVars /\ EvaluatorsInv'
<1> DEFINE e == evaluation[t]
<1>1. e \in Underway
  BY Holds
<1>2. e.v1 \in Endpoints /\ e.v2 \in Endpoints /\ e.left \in 1..Prompts
  BY <1>1, UnderwayFields
<1>3. Len(scores) \in Nat
  BY DEF Pairs
<1>4. CASE e.left > 1
  <2> DEFINE d == Begins(e.v1, e.v2, e.left - 1, scores)
  <2>1. Ask(t, "v1", d)
    BY <1>4 DEF NextPrompt
  <2>2. e.left - 1 \in 1..Prompts /\ Len(scores) + (e.left - 1) <= Prompts
    BY <1>2, <1>3, <1>4, EvaluationAssumption
  <2>3. d \in Underway
    BY <1>2, <2>2, IsUnderway DEF Begins, Asking
  <2> HIDE DEF d
  <2> QED
    BY <2>1, <2>3, Asks DEF Asking
<1>5. CASE ~(e.left > 1)
  <2>1. PICK a \in Aggregated(scores) : evaluation' = [evaluation EXCEPT ![t] = a]
    BY <1>5 DEF NextPrompt
  <2>2. UNCHANGED clientVars
    BY <1>5 DEF NextPrompt, clientVars
  <2>3. Len(scores) <= Prompts
    BY <1>2, <1>3, EvaluationAssumption
  <2> QED
    BY <2>1, <2>2, <2>3, AggregatedIs, Replaced
<1> QED
  BY <1>4, <1>5

\* A score is made a number between 0 and 100.
LEMMA ParsedIs ==
  ASSUME NEW judgement \in Judgements, NEW pair \in Parsed(judgement)
  PROVE  pair \in Scores \X Scores
<1>1. ASSUME NEW raw \in SUBSET Int
      PROVE  Clamp(raw) \in Scores
  <2>1. CASE raw = {}
    BY <2>1 DEF Clamp, Scores
  <2>2. CASE raw # {}
    <3>1. PICK score : score = CHOOSE x \in raw : TRUE
      OBVIOUS
    <3>2. score \in Int
      BY <2>2, <3>1
    <3>3. Clamp(raw) = IF score < 0 THEN 0 ELSE IF score > 100 THEN 100 ELSE score
      BY <2>2, <3>1 DEF Clamp
    <3> QED
      BY <3>2, <3>3 DEF Scores
  <2> QED
    BY <2>1, <2>2
<1>2. PICK raw \in judgement : pair = <<Clamp(raw[1]), Clamp(raw[2])>>
  BY DEF Parsed
<1>3. raw[1] \in SUBSET Int /\ raw[2] \in SUBSET Int
  BY EvaluationAssumption
<1> QED
  BY <1>1, <1>2, <1>3

LEMMA EvaluationStep ==
  EvaluatorsInv /\ [Next]_evaluationVars => [ClientNext]_clientVars /\ EvaluatorsInv'
<1> SUFFICES ASSUME EvaluatorsInv, [Next]_evaluationVars
             PROVE  [ClientNext]_clientVars /\ EvaluatorsInv'
  OBVIOUS
<1>1. ASSUME evaluation' = evaluation PROVE EvaluatorsInv'
  BY <1>1 DEF EvaluatorsInv
<1>2. CASE \E t \in Tasks, op \in Ops, e \in Endpoints :
             ~Evaluating(t) /\ Begin(t, op, e) /\ UNCHANGED evaluation
  BY <1>1, <1>2 DEF ClientNext
<1>3. CASE \E t \in Tasks : Proceed(t) /\ UNCHANGED evaluation
  BY <1>1, <1>3 DEF ClientNext
<1>4. ASSUME NEW t \in Evaluators, NEW e1 \in Endpoints, NEW e2 \in Endpoints,
             Compare(t, e1, e2)
      PROVE  [ClientNext]_clientVars /\ EvaluatorsInv'
  <2> DEFINE e == Begins(e1, e2, Prompts, <<>>)
  <2>1. CASE Ask(t, "v1", e)
    <3>1. <<>> \in Pairs /\ Len(<<>>) = 0 /\ Prompts \in 1..Prompts /\ 0 + Prompts <= Prompts
      BY EvaluationAssumption DEF Pairs
    <3>2. e \in Underway
      BY <3>1, IsUnderway DEF Begins, Asking
    <3> HIDE DEF e
    <3> QED
      BY <2>1, <3>2, Asks DEF Asking
  <2>2. CASE /\ evaluation' = [evaluation EXCEPT ![t] = [at |-> "missing"]]
             /\ UNCHANGED <<call, backend>>
    <3>1. [at |-> "missing"] \in Undecided
      BY DEF Undecided, Refusals
    <3> QED
      BY <2>2, <3>1, Replaced DEF clientVars
  <2> QED
    BY <1>4, <2>1, <2>2 DEF Compare
<1>5. ASSUME NEW t \in Evaluators, Continue(t)
      PROVE  [ClientNext]_clientVars /\ EvaluatorsInv'
  <2> DEFINE e == evaluation[t]
  <2>1. e.at \in Asking /\ e \in Underway
    BY <1>5, Holds DEF Continue
  <2>2. e.scores \in Pairs /\ Len(e.scores) \in Nat /\ e.left \in 1..Prompts
        /\ Len(e.scores) + e.left <= Prompts
    BY <2>1, UnderwayFields DEF Pairs
  <2>3. CASE NextPrompt(t, e.scores)
    <3>1. Len(e.scores) + e.left <= Prompts + 1
      BY <2>2, EvaluationAssumption
    <3> QED
      BY <2>1, <2>2, <2>3, <3>1, GoesOn
  <2>4. CASE Ask(t, "v2", e) \/ Ask(t, "judge", e)
    BY <2>1, <2>4, Asks DEF Asking
  <2>5. ASSUME NEW judgement \in Judgements, NEW pair \in Parsed(judgement),
               NextPrompt(t, Append(e.scores, pair))
        PROVE  [ClientNext]_clientVars /\ EvaluatorsInv'
    <3>1. pair \in Scores \X Scores
      BY ParsedIs
    <3>2. PICK old : old = e.scores
      OBVIOUS
    <3>3. Append(old, pair) \in Pairs /\ Len(Append(old, pair)) = Len(old) + 1
      BY <2>2, <3>1, <3>2 DEF Pairs
    <3>4. Len(Append(old, pair)) + e.left <= Prompts + 1
      BY <2>2, <3>2, <3>3, EvaluationAssumption
    <3> QED
      BY <2>1, <2>5, <3>2, <3>3, <3>4, GoesOn
  <2> QED
    BY <1>5, <2>3, <2>4, <2>5 DEF Continue
<1>6. ASSUME NEW t \in Evaluators, Save(t)
      PROVE  [ClientNext]_clientVars /\ EvaluatorsInv'
  <2>1. evaluation[t] \in Decided
    BY <1>6, Holds DEF Save
  <2> DEFINE e == [evaluation[t] EXCEPT !.at = "created"]
  <2>2. e \in Decided
    BY <2>1 DEF Decided
  <2>3. evaluation' = [evaluation EXCEPT ![t] = e] /\ UNCHANGED clientVars
    BY <1>6 DEF Save, EvaluatorsInv, clientVars
  <2> QED
    BY <2>2, <2>3, Replaced
<1>7. ASSUME NEW t \in Evaluators, DatabaseFails(t)
      PROVE  [ClientNext]_clientVars /\ EvaluatorsInv'
  <2>1. [at |-> "unsaved"] \in Undecided
    BY DEF Undecided, Refusals
  <2> QED
    BY <1>7, <2>1, Replaced DEF DatabaseFails, clientVars
<1>8. CASE UNCHANGED evaluationVars
  BY <1>1, <1>8 DEF evaluationVars, clientVars
<1> QED
  BY <1>2, <1>3, <1>4, <1>5, <1>6, <1>7, <1>8 DEF Next

LEMMA EvaluationBegins == EvaluationInit => IInv /\ EvaluatorsInv
<1> SUFFICES ASSUME EvaluationInit PROVE IInv /\ EvaluatorsInv
  OBVIOUS
<1>1. EvaluatorsInv
  BY DEF EvaluationInit, EvaluatorsInv, Undecided
<1> QED
  BY <1>1, InvInit DEF EvaluationInit

LEMMA InvHolds == Spec => [](IInv /\ EvaluatorsInv)
<1>1. IInv /\ EvaluatorsInv /\ [Next]_evaluationVars => IInv' /\ EvaluatorsInv'
  BY InvStep, EvaluationStep
<1> QED
  BY <1>1, EvaluationBegins, PTL DEF Spec

LEMMA EvaluationCalls == Spec => [][ClientNext]_clientVars
BY EvaluationBegins, EvaluationStep, PTL DEF Spec
-----------------------------------------------------------------------------
(***************************************************************************)
(* The theorems.                                                           *)
(***************************************************************************)
\* Calls keep their shape however often they are tried: the attempts at a request
\* never pass retry_max_attempts.
THEOREM ClientTyped == Spec => []ClientTypeOK
<1>1. IInv => ClientTypeOK
  BY DEF IInv, CallsInv, ClientTypeOK, GoodCall, Rest, Backend
<1> QED
  BY <1>1, InvHolds, PTL

\* VLLMClient and VLLMAdapter send no request again that has been answered, whatever
\* the answer; what they repeat was not delivered or its answer was lost.
THEOREM NothingAnsweredRepeats == Spec => []AnsweredIsNotRepeated
<1>1. IInv => AnsweredIsNotRepeated
  <2> SUFFICES ASSUME IInv, NEW t \in Tasks, call[t].at \in {"sending", "backoff"}
               PROVE  ~call[t].answered
    BY DEF AnsweredIsNotRepeated
  <2>1. InCall(t) /\ CallsInv
    BY DEF InCall, Waits, IInv
  <2> QED
    BY <2>1, InCallIsGood DEF GoodCall, Good
<1> QED
  BY <1>1, InvHolds, PTL

\* An operation of VLLMAdapter that returns True, and that no other on its backend
\* overlapped, leaves the backend as it says.
THEOREM SuccessIsDone == Spec => SuccessMeansDone
<1>1. ASSUME IInv, ClientNext, NEW t \in Tasks, InCall(t), call'[t].at = "ok", call[t].alone
      PROVE  backend'[call[t].to] = Effect(call[t].op, backend'[call[t].to])
  <2>1. CallsInv
    BY <1>1 DEF IInv
  <2>2. CASE \E u \in Tasks, op \in Ops, e \in Endpoints : Begin(u, op, e)
    <3>1. PICK u \in Tasks, op \in Ops, e \in Endpoints : Begin(u, op, e)
      BY <2>2
    <3>2. u # t
      BY <1>1, <3>1 DEF Begin
    <3>3. call'[t].at = call[t].at
      BY <2>1, <3>1, <3>2, BeginOf
    <3> QED
      BY <1>1, <3>3 DEF InCall, Waits
  <2>3. CASE \E u \in Tasks : Proceed(u)
    <3>1. PICK u \in Tasks : Proceed(u)
      BY <2>3
    <3>2. PICK d : InCall(u) /\ Outcome(u, d)
      BY <2>1, <3>1, ProceedOutcome
    <3>3. CASE u # t
      <4>1. call'[t] = call[t]
        BY <2>1, <3>2, <3>3 DEF Outcome, CallsInv
      <4> QED
        BY <1>1, <4>1 DEF InCall, Waits
    <3>4. CASE u = t
      <4>1. d.at = "ok"
        BY <1>1, <2>1, <3>2, <3>4 DEF Outcome, CallsInv
      <4> QED
        BY <1>1, <3>2, <3>4, <4>1, ProceedDone
    <3> QED
      BY <3>3, <3>4
  <2> QED
    BY <1>1, <2>2, <2>3 DEF ClientNext
<1>2. IInv /\ [ClientNext]_clientVars
        => [\A t \in Tasks :
              (InCall(t) /\ call'[t].at = "ok" /\ call[t].alone)
                => backend'[call[t].to]
                     = Effect(call[t].op, backend'[call[t].to])]_clientVars
  BY <1>1
<1> QED
  BY <1>2, InvHolds, EvaluationCalls, PTL DEF SuccessMeansDone

\* An evaluation keeps its shape: no more results than prompts, scores between 0 and
\* 100 whatever the judge answers, and sums of scores within what they can be.
THEOREM EvaluationTyped == Spec => []EvaluationTypeOK
<1>1. IInv /\ EvaluatorsInv => EvaluationTypeOK
  <2> SUFFICES ASSUME IInv, EvaluatorsInv PROVE EvaluationTypeOK
    OBVIOUS
  <2>1. ClientTypeOK
    BY DEF IInv, CallsInv, ClientTypeOK, GoodCall, Rest, Backend
  <2>2. ASSUME NEW t \in Evaluators, evaluation[t] \in Underway
        PROVE  /\ evaluation[t].at \in Asking
               /\ evaluation[t].left \in 1..Prompts
               /\ {evaluation[t].v1, evaluation[t].v2} \subseteq Endpoints
               /\ Len(evaluation[t].scores) + evaluation[t].left <= Prompts
               /\ \A i \in DOMAIN evaluation[t].scores :
                    evaluation[t].scores[i] \in Scores \X Scores
    BY <2>2, UnderwayFields DEF Pairs
  <2>3. ASSUME NEW t \in Evaluators, evaluation[t] \in Decided
        PROVE  evaluation[t].at \in {"saving", "created"} /\ evaluation[t].row \in Row
    BY <2>3 DEF Decided, SoundRow
  <2> QED
    BY <2>1, <2>2, <2>3, Holds DEF EvaluationTypeOK
<1> QED
  BY <1>1, InvHolds, PTL

\* should_advance, which asks for a low p and means that do not fall, decides from the
\* row that an evaluation has stored what the row recommends: means that are equal
\* never come with a low p.
THEOREM AdviceIsTaken == Spec => []AdviceAgrees
<1>1. EvaluatorsInv => AdviceAgrees
  <2> SUFFICES ASSUME EvaluatorsInv, NEW t \in Evaluators, evaluation[t].at = "created",
                      NEW x \in SampleValues, NEW y \in SampleValues
               PROVE  CanAdvance("STAGE_10", MetricsFrom(<<x>>, 0), MetricsFrom(<<y>>, 0),
                                 {evaluation[t].row}, Config)
                        <=> /\ evaluation[t].row.recommendation = "advance"
                            /\ evaluation[t].row.samples >= MinSamples
                            /\ ~ShouldRollback(MetricsFrom(<<x>>, 0), MetricsFrom(<<y>>, 0),
                                               Config)
    BY DEF AdviceAgrees
  <2> DEFINE m1 == MetricsFrom(<<x>>, 0)
             m2 == MetricsFrom(<<y>>, 0)
             r == evaluation[t].row
  <2>1. r \in Row /\ Sound(r)
    BY Holds DEF Decided, SoundRow
  <2> HIDE DEF m1, m2, r
  <2>2. r.v1 \in Int /\ r.v2 \in Int /\ r.p \in {"low", "high"}
    BY <2>1 DEF Row
  <2>3. r.recommendation = "advance" <=> r.p # "high" /\ ~(r.v2 < r.v1)
    BY <2>1, <2>2 DEF Sound, Recommendation
  <2>4. Config.min_sample_size = MinSamples
    BY DEF Config, CanaryConfig
  <2> HIDE DEF Config
  <2>5. CanAdvance("STAGE_10", m1, m2, {r}, Config)
          <=> /\ Degraded(m1, m2, Config) = {}
              /\ r.samples >= MinSamples
              /\ r.p # "high" /\ ~(r.v2 < r.v1)
    BY <2>4 DEF CanAdvance, TerminalStages
  <2>6. CanAdvance("STAGE_10", m1, m2, {r}, Config)
          <=> /\ r.recommendation = "advance"
              /\ r.samples >= MinSamples
              /\ ~ShouldRollback(m1, m2, Config)
    BY <2>3, <2>5 DEF ShouldRollback
  <2> QED
    BY <2>6 DEF m1, m2, r
<1> QED
  BY <1>1, InvHolds, PTL
-----------------------------------------------------------------------------
(***************************************************************************)
(* Sorted samples.                                                         *)
(***************************************************************************)
\* q lists the n elements of T, those with the smaller values of s first.
Lists(q, n, T, s) ==
  /\ q \in [1..n -> T]
  /\ \A i, j \in 1..n : q[i] = q[j] => i = j
  /\ \A x \in T : \E i \in 1..n : q[i] = x
  /\ \A i, j \in 1..n : i <= j => s[q[i]] <= s[q[j]]

\* A finite set has an element with the largest value.
LEMMA HasLast ==
  ASSUME NEW D, IsFiniteSet(D), NEW s, \A i \in D : s[i] \in Int, D # {}
  PROVE  \E m \in D : \A x \in D : s[x] <= s[m]
<1>. DEFINE Bounded == {T \in SUBSET D : T # {} => \E m \in T : \A x \in T : s[x] <= s[m]}
<1>1. ASSUME NEW T \in SUBSET D, \A x \in T : T \ {x} \in Bounded
      PROVE  T \in Bounded
  <2>. SUFFICES ASSUME T # {} PROVE \E m \in T : \A x \in T : s[x] <= s[m]
    OBVIOUS
  <2>1. PICK e \in T : TRUE
    OBVIOUS
  <2>2. CASE T \ {e} = {}
    BY <2>2
  <2>3. CASE T \ {e} # {}
    <3>1. PICK m \in T \ {e} : \A x \in T \ {e} : s[x] <= s[m]
      BY <1>1, <2>1, <2>3
    <3>2. s[e] \in Int /\ s[m] \in Int
      BY <2>1, <3>1
    <3>3. CASE s[e] <= s[m]
      BY <3>1, <3>3
    <3>4. CASE s[m] <= s[e]
      <4>1. \A x \in T : s[x] <= s[e]
        BY <3>1, <3>2, <3>4
      <4>. QED
        BY <4>1
    <3>. QED
      BY <3>2, <3>3, <3>4
  <2>. QED
    BY <2>2, <2>3
<1>. HIDE DEF Bounded
<1>2. D \in Bounded
  BY <1>1, SubsetInduction
<1>. QED
  BY <1>2 DEF Bounded

\* A finite set can be listed in order.
LEMMA CanBeListed ==
  ASSUME NEW D, IsFiniteSet(D), NEW s, \A i \in D : s[i] \in Int
  PROVE  \E q : Lists(q, Cardinality(D), D, s)
<1>. DEFINE Listed == {T \in SUBSET D : \E q : Lists(q, Cardinality(T), T, s)}
<1>1. ASSUME NEW T \in SUBSET D, \A x \in T : T \ {x} \in Listed
      PROVE  T \in Listed
  <2>1. IsFiniteSet(T)
    BY FS_Subset
  <2>2. CASE T = {}
    <3>1. Cardinality(T) = 0
      BY <2>2, FS_EmptySet
    <3>2. [i \in 1..0 |-> 0] \in [1..0 -> T]
      OBVIOUS
    <3>3. Lists([i \in 1..0 |-> 0], Cardinality(T), T, s)
      BY <2>2, <3>1, <3>2 DEF Lists
    <3>. QED
      BY <3>3
  <2>3. CASE T # {}
    <3>1. PICK m \in T : \A x \in T : s[x] <= s[m]
      BY <2>1, <2>3, HasLast
    <3>. DEFINE R == T \ {m}
                n == Cardinality(T)
    <3>2. Cardinality(R) = n - 1 /\ n \in Nat
      BY <2>1, <3>1, FS_RemoveElement, FS_CardinalityType
    <3>3. PICK r : Lists(r, Cardinality(R), R, s)
      BY <1>1, <3>1
    <3>. DEFINE q == [i \in 1..n |-> IF i = n THEN m ELSE r[i]]
    <3>. HIDE DEF n
    <3>4. Lists(r, n - 1, R, s)
      BY <3>2, <3>3
    <3>5. n >= 1
      BY <3>1, <3>2, <2>1, FS_EmptySet DEF n
    <3>6. /\ \A i \in 1..n - 1 : i \in 1..n /\ i # n
          /\ \A i \in 1..n : i # n => i \in 1..n - 1
          /\ n \in 1..n
      BY <3>2, <3>5
    <3>7. q[n] = m /\ \A i \in 1..n - 1 : q[i] = r[i] /\ r[i] \in R
      BY <3>4, <3>6 DEF Lists
    <3>8. q \in [1..n -> T]
      BY <3>1, <3>6, <3>7
    <3>. HIDE DEF q
    <3>9. \A i, j \in 1..n : q[i] = q[j] => i = j
      BY <3>4, <3>6, <3>7 DEF Lists
    <3>10. \A x \in T : \E i \in 1..n : q[i] = x
      BY <3>4, <3>6, <3>7 DEF Lists
    <3>11. \A i, j \in 1..n : i <= j => s[q[i]] <= s[q[j]]
      <4>. SUFFICES ASSUME NEW i \in 1..n, NEW j \in 1..n, i <= j
                    PROVE  s[q[i]] <= s[q[j]]
        OBVIOUS
      <4>1. CASE j = n
        BY <3>1, <3>7, <3>8, <4>1
      <4>2. CASE j # n
        <5>1. i \in 1..n - 1 /\ j \in 1..n - 1
          BY <3>2, <4>2
        <5>. QED
          BY <3>4, <3>7, <5>1 DEF Lists
      <4>. QED
        BY <4>1, <4>2
    <3>12. Lists(q, n, T, s)
      BY <3>8, <3>9, <3>10, <3>11 DEF Lists
    <3>. QED
      BY <3>12 DEF n
  <2>. QED
    BY <2>2, <2>3
<1>. HIDE DEF Listed
<1>2. D \in Listed
  BY <1>1, SubsetInduction
<1>. QED
  BY <1>2 DEF Listed

LEMMA SequenceOf ==
  ASSUME NEW n \in Nat, NEW S, NEW s \in [1..n -> S]
  PROVE  Len(s) = n /\ DOMAIN s = 1..n
<1>1. s = [i \in 1..n |-> s[i]]
  OBVIOUS
<1>2. Len([i \in 1..n |-> s[i]]) = n
  OBVIOUS
<1>. QED
  BY <1>1, <1>2

\* What Sorted gives.
LEMMA SortedIs ==
  ASSUME NEW n \in Nat, NEW s \in [1..n -> Int]
  PROVE  \E q : Lists(q, n, 1..n, s) /\ Sorted(s) = [i \in 1..n |-> s[q[i]]]
<1>. DEFINE D == 1..n
            In(order) == [i \in D |-> s[order[i]]]
            q == CHOOSE order \in Bijection(D, D) : Ascending(In(order))
<1>1. IsFiniteSet(D) /\ Cardinality(D) = n
  BY FS_Interval
<1>2. DOMAIN s = D /\ \A i \in D : s[i] \in Int
  OBVIOUS
<1>3. \A order : order \in Bijection(D, D) /\ Ascending(In(order)) <=> Lists(order, n, D, s)
  BY DEF Bijection, Injection, Surjection, IsInjective, Ascending, Lists
<1>4. \E order : Lists(order, n, D, s)
  BY <1>1, <1>2, CanBeListed
<1>5. q \in Bijection(D, D) /\ Ascending(In(q))
  BY <1>3, <1>4
<1>6. Sorted(s) = In(q)
  BY <1>2 DEF Sorted
<1>. QED
  BY <1>3, <1>5, <1>6

LEMMA SortedType ==
  ASSUME NEW n \in Nat, NEW s \in [1..n -> Int]
  PROVE  Sorted(s) \in [1..n -> Int]
<1>1. PICK q : Lists(q, n, 1..n, s) /\ Sorted(s) = [i \in 1..n |-> s[q[i]]]
  BY SortedIs
<1>2. \A i \in 1..n : s[q[i]] \in Int
  BY <1>1 DEF Lists
<1>. QED
  BY <1>1, <1>2

\* Samples that are smaller one by one are so when sorted.
LEMMA SortedDominates ==
  ASSUME NEW n \in Nat, NEW s \in [1..n -> Int], NEW t \in [1..n -> Int],
         \A i \in 1..n : t[i] <= s[i], NEW k \in 1..n
  PROVE  Sorted(t)[k] <= Sorted(s)[k]
<1>1. PICK q : Lists(q, n, 1..n, s) /\ Sorted(s) = [i \in 1..n |-> s[q[i]]]
  BY SortedIs
<1>2. PICK r : Lists(r, n, 1..n, t) /\ Sorted(t) = [i \in 1..n |-> t[r[i]]]
  BY SortedIs
<1>. SUFFICES ASSUME ~(t[r[k]] <= s[q[k]]) PROVE FALSE
  BY <1>1, <1>2
<1>3. /\ \A i \in 1..n : q[i] \in 1..n /\ r[i] \in 1..n
      /\ \A i \in 1..n : s[i] \in Int /\ t[i] \in Int
  BY <1>1, <1>2 DEF Lists
<1>4. ASSUME NEW i \in 1..k
      PROVE  \E j \in 1..k - 1 : r[j] = q[i]
  <2>1. i \in 1..n /\ i <= k
    OBVIOUS
  <2>2. PICK j \in 1..n : r[j] = q[i]
    BY <1>2, <1>3, <2>1 DEF Lists
  <2>3. s[q[i]] <= s[q[k]]
    BY <1>1, <2>1 DEF Lists
  <2>4. t[r[j]] <= s[q[i]]
    BY <1>3, <2>1, <2>2
  <2>5. CASE k <= j
    <3>1. t[r[k]] <= t[r[j]]
      BY <1>2, <2>5 DEF Lists
    <3>2. t[r[k]] \in Int /\ t[r[j]] \in Int /\ s[q[i]] \in Int /\ s[q[k]] \in Int
      BY <1>3, <2>1, <2>2
    <3>3. \A a, b, c, d \in Int : a <= b /\ b <= c /\ c <= d => a <= d
      OBVIOUS
    <3>4. t[r[k]] <= s[q[k]]
      BY <2>3, <2>4, <3>1, <3>2, <3>3
    <3>. QED
      BY <3>4
  <2>6. CASE ~(k <= j)
    BY <2>2, <2>6
  <2>. QED
    BY <2>5, <2>6
<1>. DEFINE f == [i \in 1..k |-> CHOOSE j \in 1..k - 1 : r[j] = q[i]]
<1>5. f \in [1..k -> 1..k - 1] /\ \A i \in 1..k : r[f[i]] = q[i]
  BY <1>4
<1>. HIDE DEF f
<1>6. /\ IsFiniteSet(1..k) /\ Cardinality(1..k) = k
      /\ IsFiniteSet(1..k - 1) /\ Cardinality(1..k - 1) = k - 1
  <2>1. k \in Int /\ k - 1 \in Int /\ 1 \in Int /\ k >= 1
    OBVIOUS
  <2>2. /\ IsFiniteSet(1..k)
        /\ Cardinality(1..k) = IF 1 > k THEN 0 ELSE k - 1 + 1
    BY <2>1, FS_Interval
  <2>3. /\ IsFiniteSet(1..k - 1)
        /\ Cardinality(1..k - 1) = IF 1 > k - 1 THEN 0 ELSE (k - 1) - 1 + 1
    BY <2>1, FS_Interval
  <2>. QED
    BY <2>1, <2>2, <2>3
<1>7. PICK x, y \in 1..k : x # y /\ f[x] = f[y]
  <2>. DEFINE S == 1..k
              T == 1..k - 1
  <2>1. IsFiniteSet(S) /\ IsFiniteSet(T) /\ Cardinality(T) < Cardinality(S) /\ f \in [S -> T]
    <3>1. k - 1 < k
      OBVIOUS
    <3>2. Cardinality(T) = k - 1 /\ Cardinality(S) = k
      BY <1>6
    <3>. QED
      BY <1>5, <1>6, <3>1, <3>2
  <2>. HIDE DEF S, T
  <2>2. \E x, y \in S : x # y /\ f[x] = f[y]
    BY <2>1, FS_PigeonHole
  <2>. QED
    BY <2>2 DEF S
<1>8. q[x] = q[y] /\ x \in 1..n /\ y \in 1..n
  <2>1. r[f[x]] = q[x] /\ r[f[y]] = q[y]
    BY <1>5
  <2>2. \A z \in 1..k : z \in 1..n
    OBVIOUS
  <2>. QED
    BY <1>7, <2>1, <2>2
<1>. QED
  BY <1>1, <1>7, <1>8 DEF Lists
-----------------------------------------------------------------------------
(***************************************************************************)
(* Metrics are sets of at most one fraction.                               *)
(***************************************************************************)
Fraction == Int \X (Nat \ {0})

\* w is not above v, if there are both.
NotAbove(w, v) ==
  /\ v \subseteq Fraction /\ w \subseteq Fraction
  /\ \A x \in v, y \in w : y[1] * x[2] <= x[1] * y[2]

LEMMA NoChange ==
  ASSUME NEW v, NEW w, NotAbove(w, v), NEW limit \in Nat
  PROVE  ~Rises(v, w, limit) /\ ~RisesBy(v, w, limit) /\ ~Drops(w, v, limit)
<1>1. \A a, b, c \in Int : 0 <= a /\ 0 <= b /\ 0 <= c => 0 <= a * b * c
  <2>1. \A a, b \in Int : 0 <= a /\ 0 <= b => a * b \in Int /\ 0 <= a * b
    OBVIOUS
  <2>. QED
    BY <2>1
<1>2. \A a, b \in Int : a <= b => 100 * (a - b) <= 0
  OBVIOUS
<1>. SUFFICES ASSUME NEW x \in v, NEW y \in w
              PROVE  /\ ~(x[1] > 0 /\ 100 * (y[1] * x[2] - x[1] * y[2]) > limit * x[1] * y[2])
                     /\ ~(100 * (y[1] * x[2] - x[1] * y[2]) > limit * x[2] * y[2])
                     /\ ~(y[1] > 0 /\ 100 * (y[1] * x[2] - x[1] * y[2]) > limit * y[1] * x[2])
  BY DEF Rises, RisesBy, Drops
<1>3. PICK x1 \in Int, x2 \in Nat \ {0}, y1 \in Int, y2 \in Nat \ {0} :
        x1 = x[1] /\ x2 = x[2] /\ y1 = y[1] /\ y2 = y[2]
  BY DEF NotAbove, Fraction
<1>4. y1 * x2 <= x1 * y2 /\ y1 * x2 \in Int /\ x1 * y2 \in Int
  BY <1>3 DEF NotAbove
<1>5. 100 * (y1 * x2 - x1 * y2) <= 0 /\ 100 * (y1 * x2 - x1 * y2) \in Int
  BY <1>2, <1>4
<1>6. /\ x1 > 0 => 0 <= limit * x1 * y2 /\ limit * x1 * y2 \in Int
      /\ 0 <= limit * x2 * y2 /\ limit * x2 * y2 \in Int
      /\ y1 > 0 => 0 <= limit * y1 * x2 /\ limit * y1 * x2 \in Int
  BY <1>1
<1>7. /\ ~(x1 > 0 /\ 100 * (y1 * x2 - x1 * y2) > limit * x1 * y2)
      /\ ~(100 * (y1 * x2 - x1 * y2) > limit * x2 * y2)
      /\ ~(y1 > 0 /\ 100 * (y1 * x2 - x1 * y2) > limit * y1 * x2)
  BY <1>5, <1>6
<1>. QED
  BY <1>3, <1>7

\* percentile, which interpolates between ranks: no sample rises, so it does not.
THEOREM PercentileFalls ==
  ASSUME NEW n \in Nat \ {0}, NEW s \in [1..n -> Int], NEW t \in [1..n -> Int],
         \A i \in 1..n : t[i] <= s[i], NEW p \in 0..100
  PROVE  NotAbove(Percentile(t, p), Percentile(s, p))
<1>. DEFINE a == Sorted(s)
            b == Sorted(t)
            rank == p * (n - 1)
            lower == rank \div 100 + 1
            frac == rank % 100
<1>1. /\ a \in [1..n -> Int] /\ b \in [1..n -> Int] /\ Len(a) = n /\ Len(b) = n
      /\ \A k \in 1..n : b[k] <= a[k]
  <2>1. a \in [1..n -> Int]
    BY SortedType
  <2>2. b \in [1..n -> Int]
    BY SortedType
  <2>. HIDE DEF a, b
  <2>3. Len(a) = n /\ Len(b) = n
    BY <2>1, <2>2, SequenceOf
  <2>. QED
    BY <2>1, <2>2, <2>3, SortedDominates DEF a, b
<1>2. /\ lower \in 1..n /\ frac \in 0..99
      /\ frac # 0 => lower + 1 \in 1..n
  <2>1. \A x \in Nat : x = 100 * (x \div 100) + (x % 100) /\ x % 100 \in 0..99 /\ x \div 100 \in Nat
    OBVIOUS
  <2>2. \A x, y \in Int : 0 <= x /\ x <= 100 /\ 0 <= y => x * y \in Int /\ 0 <= x * y /\ x * y <= 100 * y
    OBVIOUS
  <2>3. rank \in Nat /\ rank <= 100 * (n - 1)
    BY <2>2
  <2>. HIDE DEF rank
  <2>4. rank = 100 * (rank \div 100) + frac /\ frac \in 0..99 /\ rank \div 100 \in Nat
    BY <2>1, <2>3
  <2>. QED
    BY <2>3, <2>4
<1>3. a # <<>> /\ b # <<>>
  <2>1. Len(<<>>) = 0
    OBVIOUS
  <2>. HIDE DEF a, b
  <2>. QED
    BY <1>1, <2>1
<1>4. /\ Percentile(s, p) = IF frac = 0 THEN {<<a[lower], 1>>}
                            ELSE {<<a[lower] * (100 - frac) + a[lower + 1] * frac, 100>>}
      /\ Percentile(t, p) = IF frac = 0 THEN {<<b[lower], 1>>}
                            ELSE {<<b[lower] * (100 - frac) + b[lower + 1] * frac, 100>>}
  BY <1>1, <1>3 DEF Percentile
<1>. HIDE DEF a, b, lower, frac
<1>5. CASE frac = 0
  <2>1. PICK u, v \in Int : u = a[lower] /\ v = b[lower] /\ v <= u
    BY <1>1, <1>2
  <2>2. Percentile(s, p) = {<<u, 1>>} /\ Percentile(t, p) = {<<v, 1>>}
    BY <1>4, <1>5, <2>1
  <2>3. v * 1 <= u * 1
    BY <2>1
  <2>. QED
    BY <2>2, <2>3 DEF NotAbove, Fraction
<1>6. CASE frac # 0
  <2>1. PICK u, v, x, y \in Int : /\ u = a[lower] /\ v = b[lower]
                                  /\ x = a[lower + 1] /\ y = b[lower + 1] /\ v <= u /\ y <= x
    BY <1>1, <1>2, <1>6
  <2>2. \A c, d, e \in Int : c <= d /\ 0 <= e => c * e <= d * e /\ c * e \in Int /\ d * e \in Int
    OBVIOUS
  <2>3. 0 <= 100 - frac /\ 100 - frac \in Int /\ 0 <= frac /\ frac \in Int
    BY <1>2
  <2>4. /\ v * (100 - frac) <= u * (100 - frac) /\ y * frac <= x * frac
        /\ v * (100 - frac) \in Int /\ u * (100 - frac) \in Int
        /\ y * frac \in Int /\ x * frac \in Int
    <3>1. v <= u /\ y <= x
      BY <2>1
    <3>2. v * (100 - frac) <= u * (100 - frac) /\ v * (100 - frac) \in Int /\ u * (100 - frac) \in Int
      BY <2>2, <2>3, <3>1
    <3>3. y * frac <= x * frac /\ y * frac \in Int /\ x * frac \in Int
      BY <2>2, <2>3, <3>1
    <3>. QED
      BY <3>2, <3>3
  <2>5. PICK c, d, e, z \in Int :
          /\ c = v * (100 - frac) /\ d = u * (100 - frac) /\ c <= d
          /\ e = y * frac /\ z = x * frac /\ e <= z
    BY <2>4
  <2>. DEFINE g == d + z
              h == c + e
  <2>6. Percentile(s, p) = {<<g, 100>>} /\ Percentile(t, p) = {<<h, 100>>}
    BY <1>4, <1>6, <2>1, <2>5
  <2>7. g \in Int /\ h \in Int /\ h <= g
    <3>1. c <= d /\ e <= z
      BY <2>5
    <3>. QED
      BY <3>1
  <2>. HIDE DEF g, h
  <2>. QED
    BY <2>6, <2>7 DEF NotAbove, Fraction
<1>. QED
  BY <1>5, <1>6

LEMMA MeanFalls ==
  ASSUME NEW n \in Nat \ {0}, NEW s \in [1..n -> Int], NEW t \in [1..n -> Int],
         \A i \in 1..n : t[i] <= s[i]
  PROVE  NotAbove(Mean(t), Mean(s))
<1>1. Len(s) = n /\ Len(t) = n /\ DOMAIN s = 1..n /\ DOMAIN t = 1..n
  BY SequenceOf
<1>2. s # <<>> /\ t # <<>>
  <2>1. Len(<<>>) = 0
    OBVIOUS
  <2>. QED
    BY <1>1, <2>1
<1>. DEFINE D == 1..n
            a == SumOver(s, D)
            b == SumOver(t, D)
<1>3. Mean(s) = {<<a, n>>} /\ Mean(t) = {<<b, n>>}
  BY <1>1, <1>2 DEF Mean
<1>4. a \in Int /\ b \in Int /\ b <= a
  <2>1. IsFiniteSet(D)
    BY FS_Interval
  <2>2. \A i \in D : s[i] \in Int /\ t[i] \in Int /\ t[i] <= s[i]
    OBVIOUS
  <2>. HIDE DEF D
  <2>. QED
    BY <2>1, <2>2, SumInt, SumMonotonic
<1>. HIDE DEF a, b
<1>5. b * n <= a * n
  BY <1>4
<1>. QED
  BY <1>3, <1>4, <1>5 DEF NotAbove, Fraction
-----------------------------------------------------------------------------
(***************************************************************************)
(* Percentiles estimated from the buckets of a histogram.                  *)
(***************************************************************************)
Top == Len(Bounds) + 1

LEMMA BoundsAre ==
  /\ Top \in Nat /\ Top >= 1
  /\ \A i \in 1..Top - 1 : Bounds[i] \in Nat
  /\ \A i, j \in 1..Top - 1 : i <= j => Bounds[i] <= Bounds[j]
<1>1. Bounds \in Seq(Nat) /\ Ascending(Bounds)
  BY EvaluationAssumption
<1>2. Len(Bounds) \in Nat /\ DOMAIN Bounds = 1..Len(Bounds)
  BY <1>1
<1>3. \A i \in 1..Len(Bounds) : Bounds[i] \in Nat
  BY <1>1
<1>. QED
  BY <1>1, <1>2, <1>3 DEF Top, Ascending

LEMMA HistogramIs ==
  ASSUME NEW n \in Nat, NEW s \in [1..n -> Int]
  PROVE  /\ Len(Histogram(s)) = Top
         /\ \A i \in 1..Top :
              /\ Histogram(s)[i].le = (IF i = Top THEN 0 ELSE Bounds[i])
              /\ Histogram(s)[i].count = (IF i = Top THEN n ELSE AtMost(s, Bounds[i]))
              /\ Histogram(s)[i].count \in 0..n
<1>1. Len(s) = n /\ DOMAIN s = 1..n
  BY SequenceOf
<1>. DEFINE h == Histogram(s)
<1>2. h = [i \in 1..Top |-> IF i > Len(Bounds) THEN [le |-> 0, count |-> n]
                             ELSE [le |-> Bounds[i], count |-> AtMost(s, Bounds[i])]]
  BY <1>1 DEF Histogram, Top
<1>3. Len(h) = Top
  BY <1>2, BoundsAre
<1>4. \A b : AtMost(s, b) \in 0..n
  <2>. TAKE b
  <2>1. IsFiniteSet(1..n) /\ Cardinality(1..n) = n
    BY FS_Interval
  <2>2. {i \in DOMAIN s : s[i] <= b} \in SUBSET (1..n)
    BY <1>1
  <2>3. AtMost(s, b) \in Nat /\ AtMost(s, b) <= n
    BY <2>1, <2>2, FS_Subset, FS_CardinalityType DEF AtMost
  <2>. QED
    BY <2>3
<1>5. Len(Bounds) \in Nat /\ Top = Len(Bounds) + 1
  BY EvaluationAssumption DEF Top
<1>6. \A i \in 1..Top : i > Len(Bounds) <=> i = Top
  BY <1>5
<1>7. \A i \in 1..Top : h[i] = IF i = Top THEN [le |-> 0, count |-> n]
                                ELSE [le |-> Bounds[i], count |-> AtMost(s, Bounds[i])]
  BY <1>2, <1>6
<1>. HIDE DEF h
<1>8. \A i \in 1..Top : /\ h[i].le = (IF i = Top THEN 0 ELSE Bounds[i])
                         /\ h[i].count = (IF i = Top THEN n ELSE AtMost(s, Bounds[i]))
  <2>. TAKE i \in 1..Top
  <2>1. CASE i = Top
    <3>1. h[i] = [le |-> 0, count |-> n]
      BY <1>7, <2>1
    <3>. QED
      BY <2>1, <3>1
  <2>2. CASE i # Top
    <3>1. h[i] = [le |-> Bounds[i], count |-> AtMost(s, Bounds[i])]
      BY <1>7, <2>2
    <3>. QED
      BY <2>2, <3>1
  <2>. QED
    BY <2>1, <2>2
<1>9. \A i \in 1..Top : h[i].count \in 0..n
  BY <1>4, <1>8
<1>. QED
  BY <1>3, <1>8, <1>9 DEF h

\* Samples that are smaller one by one fill their buckets sooner.
LEMMA CountsRise ==
  ASSUME NEW n \in Nat, NEW s \in [1..n -> Int], NEW t \in [1..n -> Int],
         \A i \in 1..n : t[i] <= s[i], NEW i \in 1..Top
  PROVE  Histogram(s)[i].count <= Histogram(t)[i].count
<1>1. CASE i = Top
  BY <1>1, HistogramIs
<1>2. CASE i # Top
  <2>. DEFINE b == Bounds[i]
              S == {j \in DOMAIN s : s[j] <= b}
              T == {j \in DOMAIN t : t[j] <= b}
  <2>1. b \in Nat
    BY <1>2, BoundsAre
  <2>2. DOMAIN s = 1..n /\ DOMAIN t = 1..n
    OBVIOUS
  <2>3. S \in SUBSET T /\ T \in SUBSET (1..n)
    <3>1. \A x, y, z \in Int : x <= y /\ y <= z => x <= z
      OBVIOUS
    <3>2. \A j \in 1..n : s[j] \in Int /\ t[j] \in Int /\ b \in Int
      BY <2>1
    <3>. HIDE DEF b
    <3>. QED
      BY <2>2, <3>1, <3>2
  <2>4. IsFiniteSet(1..n)
    BY FS_Interval
  <2>. HIDE DEF S, T
  <2>5. Cardinality(S) <= Cardinality(T)
    BY <2>3, <2>4, FS_Subset
  <2>6. AtMost(s, b) <= AtMost(t, b)
    BY <2>5 DEF AtMost, S, T
  <2>. QED
    BY <1>2, <2>6, HistogramIs
<1>. QED
  BY <1>1, <1>2

\* The first of finitely many indices.
LEMMA FirstOf ==
  ASSUME NEW n \in Nat, NEW I \in SUBSET (1..n), I # {}
  PROVE  Min(I) \in I /\ \A i \in I : Min(I) <= i
<1>1. IsFiniteSet(I)
  <2>1. 1 \in Int /\ n \in Int
    OBVIOUS
  <2>2. IsFiniteSet(1..n)
    BY <2>1, FS_Interval
  <2>. QED
    BY <2>2, FS_Subset
<1>. DEFINE s == [i \in I |-> 0 - i]
<1>2. \E m \in I : \A x \in I : s[x] <= s[m]
  <2>1. \A i \in I : s[i] \in Int
    OBVIOUS
  <2>. HIDE DEF s
  <2>. QED
    BY <1>1, <2>1, HasLast
<1>3. \E m \in I : \A x \in I : m <= x
  BY <1>2
<1>. QED
  BY <1>3 DEF Min

\* The lower bound of bucket k and the number of samples below it.
Lower(k) == IF k = 1 THEN 0 ELSE Bounds[k - 1]
Below(s, k) == IF k = 1 THEN 0 ELSE Histogram(s)[k - 1].count
Within(s, k) == Histogram(s)[k].count - Below(s, k)

\* k is the bucket that reaches the percentile.
Bucket(s, n, p, k) ==
  /\ k \in 1..Top
  /\ p * n <= 100 * Histogram(s)[k].count
  /\ 100 * Below(s, k) < p * n
  /\ \A i \in 1..Top : p * n <= 100 * Histogram(s)[i].count => k <= i

\* What the estimate is then.
EstimateIn(s, n, p, k) ==
  IF k = Top THEN {<<Lower(k), 1>>}
  ELSE {<<100 * Within(s, k) * Lower(k)
           + (p * n - 100 * Below(s, k)) * (Bounds[k] - Lower(k)), 100 * Within(s, k)>>}

LEMMA EstimateIs ==
  ASSUME NEW n \in Nat \ {0}, NEW s \in [1..n -> Int], NEW p \in 1..100
  PROVE  \E k : /\ Bucket(s, n, p, k)
                /\ EstimateFromBuckets(Histogram(s), p) = EstimateIn(s, n, p, k)
<1>. DEFINE h == Histogram(s)
            I == {i \in 1..Len(h) : 100 * h[i].count >= p * n}
            k == Min(I)
            below == IF k = 1 THEN [le |-> 0, count |-> 0] ELSE h[k - 1]
            width == h[k].count - below.count
<1>1. /\ Len(h) = Top /\ Top \in Nat /\ Top >= 1 /\ Top \in 1..Top /\ h[Top].count = n
      /\ \A i \in 1..Top : h[i].count \in 0..n
  BY HistogramIs, BoundsAre
<1>2. p * n \in Int /\ 0 < p * n /\ p * n <= 100 * n
  <2>1. \A x, y \in Int : 1 <= x /\ x <= 100 /\ 1 <= y => x * y \in Int /\ 0 < x * y /\ x * y <= 100 * y
    OBVIOUS
  <2>. QED
    BY <2>1
<1>. HIDE DEF h
<1>3. Top \in I /\ I \in SUBSET (1..Top)
  BY <1>1, <1>2
<1>4. k \in I /\ \A i \in I : k <= i
  <2>. HIDE DEF I
  <2>. QED
    BY <1>1, <1>3, FirstOf
<1>5. SelectInSeq(h, LAMBDA b : 100 * b.count >= p * h[Len(h)].count) = k
  <2>1. I = {i \in 1..Len(h) : 100 * h[i].count >= p * h[Len(h)].count}
    BY <1>1
  <2>2. {i \in 1..Len(h) : 100 * h[i].count >= p * h[Len(h)].count} # {}
    BY <1>3, <2>1
  <2>. HIDE DEF I
  <2>. QED
    BY <2>1, <2>2 DEF SelectInSeq
<1>. HIDE DEF k
<1>6. /\ k \in 1..Top /\ 100 * h[k].count >= p * n
      /\ \A i \in 1..Top : 100 * h[i].count >= p * n => k <= i
  BY <1>1, <1>4
<1>. HIDE DEF I
<1>7. below.le = Lower(k) /\ below.count = Below(s, k) /\ width = Within(s, k)
  <2>1. k # 1 => k - 1 \in 1..Top /\ k - 1 # Top
    BY <1>1, <1>6
  <2>2. k # 1 => h[k - 1].le = Bounds[k - 1]
    BY <2>1, HistogramIs DEF h
  <2>. QED
    BY <2>2 DEF Lower, Below, Within, h
<1>8. 100 * Below(s, k) < p * n
  <2>1. CASE k = 1
    BY <1>2, <2>1 DEF Below
  <2>2. CASE k # 1
    <3>1. k - 1 \in 1..Top /\ ~(k <= k - 1)
      BY <1>1, <1>6, <2>2
    <3>2. ~(100 * h[k - 1].count >= p * n)
      BY <1>6, <3>1
    <3>3. h[k - 1].count \in Int
      BY <1>1, <3>1
    <3>. QED
      BY <1>2, <2>2, <3>2, <3>3 DEF Below, h
  <2>. QED
    BY <2>1, <2>2
<1>9. Bucket(s, n, p, k)
  BY <1>1, <1>2, <1>6, <1>8 DEF Bucket, h
<1>10. width # 0 /\ n # 0 /\ Len(h) # 0
  <2>1. Below(s, k) \in Int /\ h[k].count \in Int
    <3>1. k # 1 => k - 1 \in 1..Top
      BY <1>1, <1>6
    <3>. QED
      BY <1>1, <1>6, <3>1 DEF Below, h
  <2>2. Below(s, k) # h[k].count
    BY <1>2, <1>6, <1>8, <2>1
  <2>3. \A x, y \in Int : x # y => y - x # 0
    OBVIOUS
  <2>. QED
    BY <1>1, <1>7, <2>1, <2>2, <2>3 DEF Within, h
<1>11. EstimateFromBuckets(h, p) =
         IF k = Top THEN {<<below.le, 1>>}
         ELSE {<<100 * width * below.le + (p * n - 100 * below.count) * (h[k].le - below.le),
                 100 * width>>}
  <2>1. h[Len(h)].count = n
    BY <1>1
  <2>2. EstimateFromBuckets(h, p) =
          IF k = Len(h) THEN {<<below.le, 1>>}
          ELSE Interpolated(below, h[k], p * h[Len(h)].count)
    <3>1. ~(Len(h) = 0 \/ h[Len(h)].count = 0)
      BY <1>10, <2>1
    <3>. QED
      BY <1>5, <3>1 DEF EstimateFromBuckets
  <2>3. Interpolated(below, h[k], p * n) =
          {<<100 * width * below.le + (p * n - 100 * below.count) * (h[k].le - below.le),
             100 * width>>}
    <3>1. width # 0 /\ width = h[k].count - below.count
      BY <1>10
    <3>. HIDE DEF below, width
    <3>. QED
      BY <3>1 DEF Interpolated
  <2>. HIDE DEF below, width
  <2>. QED
    BY <1>1, <2>1, <2>2, <2>3
<1>12. k # Top => h[k].le = Bounds[k]
  BY <1>6, HistogramIs DEF h
<1>. HIDE DEF below, width
<1>13. EstimateFromBuckets(h, p) = EstimateIn(s, n, p, k)
  BY <1>7, <1>11, <1>12 DEF EstimateIn
<1>. QED
  BY <1>9, <1>13 DEF h

\* The share of its bucket that the percentile takes, and the bucket's bounds.
LEMMA InBucket ==
  ASSUME NEW n \in Nat \ {0}, NEW s \in [1..n -> Int], NEW p \in 1..100,
         NEW k, Bucket(s, n, p, k)
  PROVE  /\ Within(s, k) \in Int /\ Below(s, k) \in Int
         /\ Histogram(s)[k].count = Below(s, k) + Within(s, k)
         /\ p * n \in Int /\ 0 < p * n - 100 * Below(s, k)
         /\ p * n - 100 * Below(s, k) <= 100 * Within(s, k)
         /\ Lower(k) \in Nat
         /\ k # Top => Bounds[k] \in Nat /\ Lower(k) <= Bounds[k]
<1>1. /\ k \in 1..Top /\ Top \in Nat
      /\ \A i \in 1..Top : Histogram(s)[i].count \in 0..n
  BY HistogramIs, BoundsAre DEF Bucket
<1>2. k # 1 => k - 1 \in 1..Top /\ k - 1 \in 1..Top - 1 /\ k - 1 <= k
  BY <1>1
<1>3. Below(s, k) \in Int /\ Histogram(s)[k].count \in Int
  BY <1>1, <1>2 DEF Below
<1>4. p * n \in Int
  OBVIOUS
<1>5. Within(s, k) = Histogram(s)[k].count - Below(s, k)
  BY DEF Within
<1>6. p * n <= 100 * Histogram(s)[k].count /\ 100 * Below(s, k) < p * n
  BY DEF Bucket
<1>7. Lower(k) \in Nat
  BY <1>2, BoundsAre DEF Lower
<1>8. ASSUME k # Top PROVE Bounds[k] \in Nat /\ Lower(k) <= Bounds[k]
  <2>1. k \in 1..Top - 1
    BY <1>1, <1>8
  <2>2. Bounds[k] \in Nat
    BY <2>1, BoundsAre
  <2>3. CASE k = 1
    BY <2>2, <2>3 DEF Lower
  <2>4. CASE k # 1
    <3>1. Bounds[k - 1] <= Bounds[k]
      BY <1>2, <2>1, <2>4, BoundsAre
    <3>. QED
      BY <2>2, <2>4, <3>1 DEF Lower
  <2>. QED
    BY <2>3, <2>4
<1>. DEFINE a == Histogram(s)[k].count
            b == Below(s, k)
            x == p * n
<1>. HIDE DEF a, b, x
<1>9. a = b + (a - b) /\ 0 < x - 100 * b /\ x - 100 * b <= 100 * (a - b) /\ a - b \in Int
  <2>1. \A u, v, w \in Int : w <= 100 * u /\ 100 * v < w =>
           u = v + (u - v) /\ 0 < w - 100 * v /\ w - 100 * v <= 100 * (u - v) /\ u - v \in Int
    OBVIOUS
  <2>2. a \in Int /\ b \in Int /\ x \in Int /\ x <= 100 * a /\ 100 * b < x
    BY <1>3, <1>4, <1>6 DEF a, b, x
  <2>. QED
    BY <2>1, <2>2
<1>. QED
  BY <1>3, <1>4, <1>5, <1>7, <1>8, <1>9 DEF a, b, x

\* Interpolation stays between the bounds.
LEMMA Interpolates ==
  ASSUME NEW l \in Int, NEW u \in Int, NEW x \in Int, NEW w \in Int,
         l <= u, 0 <= x, x <= w
  PROVE  l * w <= w * l + x * (u - l) /\ w * l + x * (u - l) <= u * w
<1>. DEFINE d == u - l
<1>1. d \in Int /\ 0 <= d
  OBVIOUS
<1>2. u * w = w * l + w * d
  OBVIOUS
<1>. HIDE DEF d
<1>3. 0 <= x * d /\ x * d <= w * d /\ x * d \in Int /\ w * d \in Int
  BY <1>1
<1>4. l * w = w * l /\ w * l \in Int
  OBVIOUS
<1>5. l * w <= w * l + x * d /\ w * l + x * d <= u * w
  BY <1>2, <1>3, <1>4
<1>. QED
  BY <1>5 DEF d

\* Within one bucket: the fewer samples lie below it and the fewer up to its end,
\* the further the percentile lies.
LEMMA SameBucket ==
  ASSUME NEW l \in Int, NEW d \in Nat, NEW u \in Int, NEW v \in Int, NEW w \in Int, NEW z \in Int,
         0 < v, v <= u, 0 <= w - u, w - u <= z - v
  PROVE  (z * l + v * d) * w <= (w * l + u * d) * z
<1>. DEFINE e == w - u
            f == z - v
<1>1. /\ e \in Int /\ f \in Int /\ 0 <= e /\ e <= f
      /\ w = e + u /\ z = f + v
  OBVIOUS
<1>. HIDE DEF e, f
<1>2. v * e <= u * f /\ v * e \in Int /\ u * f \in Int
  <2>1. v * e <= u * e /\ v * e \in Int /\ u * e \in Int
    BY <1>1
  <2>2. u * e <= u * f /\ u * f \in Int
    BY <1>1
  <2>. QED
    BY <2>1, <2>2
<1>3. v * w <= u * z /\ v * w \in Int /\ u * z \in Int
  <2>1. v * w = v * e + v * u /\ u * z = u * f + v * u /\ v * u \in Int
    BY <1>1
  <2>. QED
    BY <1>2, <2>1
<1>4. d * (v * w) <= d * (u * z) /\ d * (v * w) \in Int /\ d * (u * z) \in Int
  BY <1>3
<1>5. (z * l + v * d) * w = z * l * w + d * (v * w) /\ (w * l + u * d) * z = z * l * w + d * (u * z)
  OBVIOUS
<1>6. z * l * w \in Int
  OBVIOUS
<1>. QED
  BY <1>4, <1>5, <1>6

\* The estimate a / b of samples s lies in bucket k, which begins at l and ends at u;
\* x of the bucket's w hundredths of samples are below it.
Estimates(s, n, p, k, l, u, x, w, a, b) ==
  /\ Bucket(s, n, p, k)
  /\ EstimateFromBuckets(Histogram(s), p) = {<<a, b>>}
  /\ l = Lower(k)
  /\ x = p * n - 100 * Below(s, k)
  /\ w - x = 100 * Histogram(s)[k].count - p * n
  /\ 0 < x /\ x <= w /\ l * b <= a
  /\ k = Top => a = l /\ b = 1
  /\ k # Top => u = Bounds[k] /\ l <= u /\ a = w * l + x * (u - l) /\ b = w /\ a <= u * b

LEMMA EstimatesIt ==
  ASSUME NEW n \in Nat \ {0}, NEW s \in [1..n -> Int], NEW p \in 1..100
  PROVE  \E k \in 1..Top, l \in Nat, u, x, w, a \in Int, b \in Nat \ {0} :
           Estimates(s, n, p, k, l, u, x, w, a, b)
<1>1. PICK k :
        /\ Bucket(s, n, p, k)
        /\ EstimateFromBuckets(Histogram(s), p) = EstimateIn(s, n, p, k)
  BY EstimateIs
<1>2. k \in 1..Top
  BY <1>1 DEF Bucket
<1>. DEFINE l == Lower(k)
            x == p * n - 100 * Below(s, k)
            w == 100 * Within(s, k)
            u == Bounds[k]
<1>3. /\ l \in Nat /\ x \in Int /\ w \in Int /\ 0 < x /\ x <= w
      /\ w - x = 100 * Histogram(s)[k].count - p * n
      /\ k # Top => u \in Int /\ l <= u
  <2>1. /\ Within(s, k) \in Int /\ Below(s, k) \in Int
        /\ Histogram(s)[k].count = Below(s, k) + Within(s, k)
        /\ p * n \in Int /\ 0 < p * n - 100 * Below(s, k)
        /\ p * n - 100 * Below(s, k) <= 100 * Within(s, k)
        /\ Lower(k) \in Nat
        /\ k # Top => Bounds[k] \in Nat /\ Lower(k) <= Bounds[k]
    BY <1>1, InBucket
  <2>2. \A c, d, e, f \in Int : c = d + e => 100 * e - (f - 100 * d) = 100 * c - f
    OBVIOUS
  <2>3. 100 * Within(s, k) - (p * n - 100 * Below(s, k)) = 100 * Histogram(s)[k].count - p * n
    BY <2>1, <2>2
  <2>4. x \in Int /\ w \in Int
    BY <2>1
  <2>5. l \in Nat /\ 0 < x /\ x <= w
    BY <2>1
  <2>6. w - x = 100 * Histogram(s)[k].count - p * n
    BY <2>3
  <2>7. k # Top => u \in Int /\ l <= u
    BY <2>1
  <2>. HIDE DEF l, x, w, u
  <2>. QED
    BY <2>4, <2>5, <2>6, <2>7
<1>4. CASE k = Top
  <2>1. EstimateFromBuckets(Histogram(s), p) = {<<l, 1>>}
    BY <1>1, <1>4 DEF EstimateIn
  <2>. HIDE DEF l, x, w, u
  <2>2. l * 1 <= l /\ l \in Int /\ 1 \in Nat \ {0}
    BY <1>3
  <2>3. Estimates(s, n, p, k, l, 0, x, w, l, 1)
    BY <1>1, <1>3, <1>4, <2>1, <2>2 DEF Estimates, l, x
  <2>. USE <1>2, <1>3, <2>2
  <2>. WITNESS k \in 1..Top, l \in Nat, 0 \in Int, x \in Int, w \in Int, l \in Int,
               1 \in Nat \ {0}
  <2>. QED
    BY <2>3
<1>5. CASE k # Top
  <2>. DEFINE a == w * l + x * (u - l)
  <2>1. EstimateFromBuckets(Histogram(s), p) = {<<a, w>>}
    BY <1>1, <1>5 DEF EstimateIn
  <2>. HIDE DEF l, x, w, u
  <2>2. l * w <= a /\ a <= u * w /\ a \in Int
    <3>1. l \in Int /\ u \in Int /\ l <= u /\ 0 <= x
      BY <1>3, <1>5
    <3>. QED
      BY <1>3, <3>1, Interpolates
  <2>. HIDE DEF a
  <2>3. Estimates(s, n, p, k, l, u, x, w, a, w)
    BY <1>1, <1>3, <1>5, <2>1, <2>2 DEF Estimates, l, x, u, a
  <2>4. w \in Nat \ {0} /\ u \in Int
    BY <1>3, <1>5
  <2>. USE <1>2, <1>3, <2>2, <2>4
  <2>. WITNESS k \in 1..Top, l \in Nat, u \in Int, x \in Int, w \in Int, a \in Int,
               w \in Nat \ {0}
  <2>. QED
    BY <2>3
<1>. QED
  BY <1>4, <1>5

LEMMA Hundredfold ==
  ASSUME NEW c \in Int, NEW d \in Int, NEW e \in Int, e <= 100 * c, c <= d
  PROVE  e <= 100 * d
OBVIOUS

\* estimate_percentile_from_buckets: no sample rises, so the estimate does not,
\* whatever the bounds; a bucket's edge, an empty bucket and the unbounded last one
\* are no exceptions.
THEOREM EstimateFalls ==
  ASSUME NEW n \in Nat \ {0}, NEW s \in [1..n -> Int], NEW t \in [1..n -> Int],
         \A i \in 1..n : t[i] <= s[i], NEW p \in 1..100
  PROVE  NotAbove(EstimateFromBuckets(Histogram(t), p), EstimateFromBuckets(Histogram(s), p))
<1>1. PICK k \in 1..Top, l \in Nat, u, x, w, a \in Int, b \in Nat \ {0} :
        Estimates(s, n, p, k, l, u, x, w, a, b)
  BY EstimatesIt
<1>2. PICK m \in 1..Top, l2 \in Nat, u2, x2, w2, a2 \in Int, b2 \in Nat \ {0} :
        Estimates(t, n, p, m, l2, u2, x2, w2, a2, b2)
  BY EstimatesIt
<1>3. \A i \in 1..Top : /\ Histogram(s)[i].count <= Histogram(t)[i].count
                        /\ Histogram(s)[i].count \in Int /\ Histogram(t)[i].count \in Int
  <2>. TAKE i \in 1..Top
  <2>1. Histogram(s)[i].count <= Histogram(t)[i].count
    BY CountsRise
  <2>2. Histogram(s)[i].count \in 0..n /\ Histogram(t)[i].count \in 0..n
    BY HistogramIs
  <2>. QED
    BY <2>1, <2>2
<1>4. p * n \in Int
  OBVIOUS
<1>5. Top \in Nat
  BY BoundsAre
<1>6. m <= k
  <2>1. p * n <= 100 * Histogram(s)[k].count
    BY <1>1 DEF Estimates, Bucket
  <2>2. p * n <= 100 * Histogram(t)[k].count
    <3>1. /\ Histogram(s)[k].count <= Histogram(t)[k].count
          /\ Histogram(s)[k].count \in Int /\ Histogram(t)[k].count \in Int
      BY <1>3
    <3>. QED
      BY <1>4, <2>1, <3>1, Hundredfold
  <2>. QED
    BY <1>2, <2>2 DEF Estimates, Bucket
<1>7. a2 * b <= a * b2
  <2>1. CASE m # k
    <3>1. m # Top /\ k # 1 /\ m <= k - 1 /\ k - 1 \in 1..Top - 1 /\ m \in 1..Top - 1
      BY <1>5, <1>6, <2>1
    <3>2. u2 <= l
      <4>1. u2 = Bounds[m] /\ l = Bounds[k - 1]
        BY <1>1, <1>2, <3>1 DEF Estimates, Lower
      <4>. QED
        BY <3>1, <4>1, BoundsAre
    <3>3. \A c, d, e \in Int : c <= d /\ 0 < e => c * e <= d * e /\ c * e \in Int /\ d * e \in Int
      OBVIOUS
    <3>4. a2 <= u2 * b2 /\ l * b <= a
      BY <1>1, <1>2, <3>1 DEF Estimates
    <3>5. a2 * b <= (u2 * b2) * b /\ a2 * b \in Int /\ (u2 * b2) * b \in Int
      <4>1. u2 * b2 \in Int
        OBVIOUS
      <4>. QED
        BY <3>3, <3>4, <4>1
    <3>6. (l * b) * b2 <= a * b2 /\ (l * b) * b2 \in Int /\ a * b2 \in Int
      <4>1. l * b \in Int
        OBVIOUS
      <4>. QED
        BY <3>3, <3>4, <4>1
    <3>7. (u2 * b2) * b <= (l * b) * b2
      <4>1. b2 * b \in Int /\ 0 < b2 * b
        BY <3>3
      <4>2. u2 * (b2 * b) <= l * (b2 * b)
        BY <3>2, <3>3, <4>1
      <4>3. (u2 * b2) * b = u2 * (b2 * b) /\ (l * b) * b2 = l * (b2 * b)
        OBVIOUS
      <4>. QED
        BY <4>2, <4>3
    <3>8. \A c, d, e, f \in Int : c <= d /\ d <= e /\ e <= f => c <= f
      OBVIOUS
    <3>. QED
      BY <3>5, <3>6, <3>7, <3>8
  <2>2. CASE m = k /\ k = Top
    <3>1. a2 = l2 /\ b2 = 1 /\ a = l /\ b = 1 /\ l2 = l
      BY <1>1, <1>2, <2>2 DEF Estimates
    <3>. QED
      BY <3>1
  <2>3. CASE m = k /\ k # Top
    <3>1. /\ l2 = l /\ u2 = u /\ l <= u
          /\ a = w * l + x * (u - l) /\ b = w
          /\ a2 = w2 * l + x2 * (u - l) /\ b2 = w2
      BY <1>1, <1>2, <2>3 DEF Estimates
    <3>2. 0 < x2 /\ x2 <= x /\ 0 <= w - x /\ w - x <= w2 - x2
      <4>1. Below(s, k) <= Below(t, k) /\ Below(s, k) \in Int /\ Below(t, k) \in Int
        <5>1. CASE k = 1
          BY <5>1 DEF Below
        <5>2. CASE k # 1
          <6>1. k - 1 \in 1..Top
            BY <1>5, <5>2
          <6>. QED
            BY <1>3, <5>2, <6>1 DEF Below
        <5>. QED
          BY <5>1, <5>2
      <4>2. x = p * n - 100 * Below(s, k) /\ x2 = p * n - 100 * Below(t, k)
        BY <1>1, <1>2, <2>3 DEF Estimates
      <4>3. /\ w - x = 100 * Histogram(s)[k].count - p * n
            /\ w2 - x2 = 100 * Histogram(t)[k].count - p * n
        BY <1>1, <1>2, <2>3 DEF Estimates
      <4>4. 0 < x2 /\ x <= w
        BY <1>1, <1>2 DEF Estimates
      <4>5. Histogram(s)[k].count <= Histogram(t)[k].count
            /\ Histogram(s)[k].count \in Int /\ Histogram(t)[k].count \in Int
        BY <1>3
      <4>6. \A c, d, e \in Int : c <= d => e - 100 * d <= e - 100 * c /\ 100 * c - e <= 100 * d - e
        OBVIOUS
      <4>7. x2 <= x
        BY <1>4, <4>1, <4>2, <4>6
      <4>8. w - x <= w2 - x2
        <5>1. 100 * Histogram(s)[k].count - p * n <= 100 * Histogram(t)[k].count - p * n
          BY <1>4, <4>5, <4>6
        <5>. QED
          BY <4>3, <5>1
      <4>. QED
        BY <4>4, <4>7, <4>8
    <3>. DEFINE d == u - l
    <3>3. d \in Nat
      BY <3>1
    <3>. HIDE DEF d
    <3>4. (w2 * l + x2 * d) * w <= (w * l + x * d) * w2
      <4>1. l \in Int
        OBVIOUS
      <4>. QED
        BY <3>2, <3>3, <4>1, SameBucket
    <3>. QED
      BY <3>1, <3>4 DEF d
  <2>. QED
    BY <2>1, <2>2, <2>3
<1>8. /\ EstimateFromBuckets(Histogram(s), p) = {<<a, b>>}
      /\ EstimateFromBuckets(Histogram(t), p) = {<<a2, b2>>}
  BY <1>1, <1>2 DEF Estimates
<1>. QED
  BY <1>7, <1>8 DEF NotAbove, Fraction
-----------------------------------------------------------------------------
(***************************************************************************)
(* The thresholds.                                                         *)
(***************************************************************************)
\* The metrics w of v2 are no worse than the metrics v of v1.
NoWorseThan(w, v) ==
  /\ NotAbove(w.ttft_p50, v.ttft_p50)
  /\ NotAbove(w.ttft_p99, v.ttft_p99)
  /\ NotAbove(w.tpot_mean, v.tpot_mean)
  /\ NotAbove(v.throughput, w.throughput)
  /\ NotAbove(w.error_rate, v.error_rate)

LEMMA IsNotDegraded ==
  ASSUME NEW v, NEW w, NoWorseThan(w, v)
  PROVE  Degraded(v, w, Config) = {}
<1>1. /\ Config["ttft_p50"] = 20 /\ Config["ttft_p99"] = 30 /\ Config["tpot_mean"] = 15
      /\ Config["throughput"] = 10 /\ Config["error_rate"] = 2
  BY DEF Config, CanaryConfig
<1>2. \A k \in {"ttft_p50", "ttft_p99", "tpot_mean", "throughput", "error_rate"} :
        Config[k] \in Nat
  BY <1>1
<1>. HIDE DEF Config
<1>3. /\ v["ttft_p50"] = v.ttft_p50 /\ v["ttft_p99"] = v.ttft_p99
      /\ v["tpot_mean"] = v.tpot_mean /\ v["throughput"] = v.throughput
      /\ v["error_rate"] = v.error_rate
      /\ w["ttft_p50"] = w.ttft_p50 /\ w["ttft_p99"] = w.ttft_p99
      /\ w["tpot_mean"] = w.tpot_mean /\ w["throughput"] = w.throughput
      /\ w["error_rate"] = w.error_rate
  OBVIOUS
<1>4. \A k \in {"ttft_p50", "ttft_p99", "tpot_mean"} : ~Rises(v[k], w[k], Config[k])
  <2>. TAKE k \in {"ttft_p50", "ttft_p99", "tpot_mean"}
  <2>1. Config[k] \in Nat
    BY <1>2
  <2>2. NotAbove(w[k], v[k])
    BY <1>3 DEF NoWorseThan
  <2>. QED
    BY <2>1, <2>2, NoChange
<1>5. ~Drops(v["throughput"], w["throughput"], Config["throughput"])
  <2>1. NotAbove(v["throughput"], w["throughput"])
    BY <1>3 DEF NoWorseThan
  <2>. QED
    BY <1>2, <2>1, NoChange
<1>6. ~RisesBy(v["error_rate"], w["error_rate"], Config["error_rate"])
  <2>1. NotAbove(w["error_rate"], v["error_rate"])
    BY <1>3 DEF NoWorseThan
  <2>. QED
    BY <1>2, <2>1, NoChange
<1>. QED
  BY <1>4, <1>5, <1>6 DEF Degraded

\* Metrics computed from the samples.
LEMMA MeasuredIsNoWorse ==
  ASSUME NEW n \in Nat \ {0}, NEW s \in [1..n -> Int], NEW t \in [1..n -> Int],
         \A i \in 1..n : t[i] <= s[i], NEW e \in 0..2, NEW f \in 0..2, f <= e
  PROVE  NoWorseThan(MetricsFrom(t, f), MetricsFrom(s, e))
<1>1. \A c, d \in 0..2 : NotAbove({<<d, 10>>}, {<<c, 10>>}) <=> d <= c
  BY DEF NotAbove, Fraction
<1>2. \A c, d \in 0..2 : c <= d => NotAbove({<<10 - d, 1>>}, {<<10 - c, 1>>})
  BY DEF NotAbove, Fraction
<1>3. \A c \in 0..2, r \in {s, t} :
        MetricsFrom(r, c) = [ttft_p50 |-> Percentile(r, 50), ttft_p99 |-> Percentile(r, 99),
                             tpot_mean |-> Mean(r), throughput |-> {<<10 - c, 1>>},
                             error_rate |-> {<<c, 10>>}]
  BY DEF MetricsFrom, MetricsOf
<1>4. NotAbove(Percentile(t, 50), Percentile(s, 50)) /\ NotAbove(Percentile(t, 99), Percentile(s, 99))
  <2>1. \A p \in 0..100 : NotAbove(Percentile(t, p), Percentile(s, p))
    BY PercentileFalls
  <2>. QED
    BY <2>1
<1>5. NotAbove(Mean(t), Mean(s))
  BY MeanFalls
<1>6. /\ NotAbove({<<f, 10>>}, {<<e, 10>>})
      /\ NotAbove({<<10 - e, 1>>}, {<<10 - f, 1>>})
  BY <1>1, <1>2
<1>7. PICK v, w : v = MetricsFrom(s, e) /\ w = MetricsFrom(t, f)
  OBVIOUS
<1>8. /\ v.ttft_p50 = Percentile(s, 50) /\ w.ttft_p50 = Percentile(t, 50)
      /\ v.ttft_p99 = Percentile(s, 99) /\ w.ttft_p99 = Percentile(t, 99)
      /\ v.tpot_mean = Mean(s) /\ w.tpot_mean = Mean(t)
      /\ v.throughput = {<<10 - e, 1>>} /\ w.throughput = {<<10 - f, 1>>}
      /\ v.error_rate = {<<e, 10>>} /\ w.error_rate = {<<f, 10>>}
  BY <1>3, <1>7
<1>9. NoWorseThan(w, v)
  BY <1>4, <1>5, <1>6, <1>8 DEF NoWorseThan
<1>. QED
  BY <1>7, <1>9

\* Metrics estimated from the buckets.
LEMMA EstimatedIsNoWorse ==
  ASSUME NEW n \in Nat \ {0}, NEW s \in [1..n -> Int], NEW t \in [1..n -> Int],
         \A i \in 1..n : t[i] <= s[i]
  PROVE  NoWorseThan(CollectedFrom(t), CollectedFrom(s))
<1>1. NotAbove({}, {})
  BY DEF NotAbove
<1>2. \A a, b : /\ Collected(a, b).ttft_p50 = a /\ Collected(a, b).ttft_p99 = b
                /\ Collected(a, b).tpot_mean = {} /\ Collected(a, b).throughput = {}
                /\ Collected(a, b).error_rate = {}
  BY DEF Collected, NoMetrics
<1>3. \A p \in 1..100 : NotAbove(EstimateFromBuckets(Histogram(t), p),
                                 EstimateFromBuckets(Histogram(s), p))
  BY EstimateFalls
<1>4. PICK a, b, c, d :
        /\ a = EstimateFromBuckets(Histogram(s), 50) /\ b = EstimateFromBuckets(Histogram(s), 99)
        /\ c = EstimateFromBuckets(Histogram(t), 50) /\ d = EstimateFromBuckets(Histogram(t), 99)
  OBVIOUS
<1>5. NotAbove(c, a) /\ NotAbove(d, b)
  BY <1>3, <1>4
<1>6. NoWorseThan(Collected(c, d), Collected(a, b))
  BY <1>1, <1>2, <1>5 DEF NoWorseThan
<1>7. CollectedFrom(s) = Collected(a, b) /\ CollectedFrom(t) = Collected(c, d)
  BY <1>4 DEF CollectedFrom
<1>. QED
  BY <1>6, <1>7

LEMMA NoWorseIs ==
  ASSUME NEW m \in NoWorse
  PROVE  NoWorseThan(m[2], m[1])
<1>1. ASSUME NEW s \in Samples \X Samples, Len(s[1]) = Len(s[2]),
             \A i \in DOMAIN s[1] : s[2][i] <= s[1][i]
      PROVE  \E n \in Nat \ {0} : /\ s[1] \in [1..n -> Int] /\ s[2] \in [1..n -> Int]
                                  /\ \A i \in 1..n : s[2][i] <= s[1][i]
  <2>1. PICK n \in 1..MaxSamples : s[1] \in [1..n -> SampleValues]
    BY DEF Samples
  <2>2. PICK k \in 1..MaxSamples : s[2] \in [1..k -> SampleValues]
    BY DEF Samples
  <2>3. n \in Nat \ {0} /\ k \in Nat /\ SampleValues \subseteq Int
    BY EvaluationAssumption
  <2>4. Len(s[1]) = n /\ DOMAIN s[1] = 1..n /\ Len(s[2]) = k
    BY <2>1, <2>2, <2>3, SequenceOf
  <2>5. s[1] \in [1..n -> Int] /\ s[2] \in [1..n -> Int]
    BY <1>1, <2>1, <2>2, <2>3, <2>4
  <2>. QED
    BY <1>1, <2>3, <2>4, <2>5
<1>2. PICK s \in Samples \X Samples :
        /\ Len(s[1]) = Len(s[2])
        /\ \A i \in DOMAIN s[1] : s[2][i] <= s[1][i]
        /\ \/ \E e \in (0..2) \X (0..2) :
                e[2] <= e[1] /\ m = <<MetricsFrom(s[1], e[1]), MetricsFrom(s[2], e[2])>>
           \/ m = <<CollectedFrom(s[1]), CollectedFrom(s[2])>>
  BY DEF NoWorse
<1>3. PICK n \in Nat \ {0} : /\ s[1] \in [1..n -> Int] /\ s[2] \in [1..n -> Int]
                             /\ \A i \in 1..n : s[2][i] <= s[1][i]
  BY <1>1, <1>2
<1>4. PICK x, y : x = s[1] /\ y = s[2]
  OBVIOUS
<1>5. x \in [1..n -> Int] /\ y \in [1..n -> Int] /\ \A i \in 1..n : y[i] <= x[i]
  BY <1>3, <1>4
<1>6. ASSUME NEW e \in (0..2) \X (0..2), e[2] <= e[1],
             m = <<MetricsFrom(s[1], e[1]), MetricsFrom(s[2], e[2])>>
      PROVE  NoWorseThan(m[2], m[1])
  <2>1. PICK c \in 0..2, d \in 0..2 : c = e[1] /\ d = e[2] /\ d <= c
    BY <1>6
  <2>2. NoWorseThan(MetricsFrom(y, d), MetricsFrom(x, c))
    BY <1>5, <2>1, MeasuredIsNoWorse
  <2>. QED
    BY <1>4, <1>6, <2>1, <2>2
<1>7. CASE m = <<CollectedFrom(s[1]), CollectedFrom(s[2])>>
  <2>1. NoWorseThan(CollectedFrom(y), CollectedFrom(x))
    BY <1>5, EstimatedIsNoWorse
  <2>. QED
    BY <1>4, <1>7, <2>1
<1>. QED
  BY <1>2, <1>6, <1>7
-----------------------------------------------------------------------------
\* A v2 recommended on enough samples that is no worse than v1 request by request is
\* let through, for every list of samples, every bucket bounds and every number of
\* prompts: the percentiles, the means and the estimates all fall with the samples.
\* A recommendation to advance rests on a low p-value and a higher mean.
THEOREM NoWorseIsLetThrough == Spec => []NoWorseAdvances
<1>1. EvaluatorsInv => NoWorseAdvances
  <2> SUFFICES ASSUME EvaluatorsInv, NEW t \in Evaluators, evaluation[t].at = "created",
                      evaluation[t].row.recommendation = "advance",
                      evaluation[t].row.samples >= MinSamples,
                      NEW m \in NoWorse
               PROVE  CanAdvance("STAGE_10", m[1], m[2], {evaluation[t].row}, Config)
    BY DEF NoWorseAdvances
  <2> DEFINE r == evaluation[t].row
  <2>1. r \in Row /\ Sound(r)
    BY Holds DEF Decided, SoundRow
  <2>2. Degraded(m[1], m[2], Config) = {}
    BY NoWorseIs, IsNotDegraded
  <2>3. Config.min_sample_size = MinSamples
    BY DEF Config, CanaryConfig
  <2>4. r.recommendation = "advance" /\ r.samples >= MinSamples
    OBVIOUS
  <2> HIDE DEF r, Config
  <2>5. r.v1 \in Int /\ r.v2 \in Int
    BY <2>1 DEF Row
  <2>6. r.p # "high" /\ ~(r.v2 < r.v1)
    BY <2>1, <2>4, <2>5 DEF Sound, Recommendation
  <2>7. CanAdvance("STAGE_10", m[1], m[2], {r}, Config)
    BY <2>2, <2>3, <2>4, <2>6 DEF CanAdvance, TerminalStages
  <2> QED
    BY <2>7 DEF r
<1> QED
  BY <1>1, InvHolds, PTL
=============================================================================
