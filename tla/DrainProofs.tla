---------------------------- MODULE DrainProofs ----------------------------
(***************************************************************************)
(* Drain's safety properties for every finite set of requests and every    *)
(* set of drains.                                                          *)
(*                                                                         *)
(* CounterTracksRequests is inductive with the types.  Its two bounds need *)
(* each other: the clamp of decrement_pending is reached only by a request *)
(* that a forced drain had given up on, and each of those pays for one     *)
(* request the counter no longer sees.                                     *)
(***************************************************************************)
EXTENDS Drain, FiniteSetTheorems, TLAPS

IInv == DrainTypeOK /\ CounterTracksRequests

\* Requests that are in some state can be counted, also after a step.
LEMMA Counts ==
  ASSUME NEW s
  PROVE  /\ IsFiniteSet(In(s)) /\ Cardinality(In(s)) \in Nat
         /\ IsFiniteSet(In(s)') /\ Cardinality(In(s)') \in Nat
<1>1. In(s) \in SUBSET Requests /\ In(s)' \in SUBSET Requests
  BY DEF In
<1>2. IsFiniteSet(In(s)) /\ IsFiniteSet(In(s)')
  BY <1>1, DrainAssumption, FS_Subset
<1>3. QED
  BY <1>2, FS_CardinalityType

\* What a path of transitions ends in is a state.
LEMMA SleepPathType == \A s \in ModelState : SleepPath(s).state \in ModelState
BY DEF SleepPath, Then, At, ModelState

\* The initial state satisfies the inductive invariant.
LEMMA InitIInv == Init => IInv
<1> SUFFICES ASSUME Init PROVE IInv
  OBVIOUS
<1>1. DrainTypeOK
  BY DEF Init, DrainTypeOK, ModelState, ReqState, DrainState
<1>2. Running = {} /\ Late = {}
  BY DEF Init, Running, Late, In
<1>3. QED
  BY <1>1, <1>2, FS_EmptySet DEF IInv, CounterTracksRequests, Init

\* Every step keeps the variables in their types.
LEMMA TypeStep == DrainTypeOK /\ [Next]_vars => DrainTypeOK'
<1> SUFFICES ASSUME DrainTypeOK, [Next]_vars
             PROVE  DrainTypeOK'
  OBVIOUS
<1> USE DEF DrainTypeOK
<1>1. ASSUME NEW r \in Requests, Admit(r)
      PROVE  DrainTypeOK'
  BY <1>1 DEF Admit, ReqState
<1>2. ASSUME NEW r \in Requests, Finish(r)
      PROVE  DrainTypeOK'
  <2>1. Decremented(pending) \in Nat
    BY DEF Decremented
  <2>2. QED
    BY <1>2, <2>1 DEF Finish, ReqState
<1>3. ASSUME NEW d \in Drainers, NEW from \in ModelState, NEW outcome \in DrainState,
             Conclude(d, from, outcome)
      PROVE  state' \in ModelState /\ drainer' \in [Drainers -> DrainState]
  BY <1>3, SleepPathType DEF Conclude, DrainState
<1>4. ASSUME NEW d \in Drainers, Begin(d)
      PROVE  DrainTypeOK'
  <2>1. state' \in ModelState /\ drainer' \in [Drainers -> DrainState]
    BY <1>3, <1>4 DEF Begin, ModelState, DrainState
  <2>2. QED
    BY <1>4, <2>1 DEF Begin
<1>5. ASSUME NEW d \in Drainers, Drained(d)
      PROVE  DrainTypeOK'
  BY <1>3, <1>5 DEF Drained, DrainState
<1>6. ASSUME NEW d \in Drainers, TimeOut(d)
      PROVE  DrainTypeOK'
  BY <1>3, <1>6 DEF TimeOut, Forced, DrainState, ReqState
<1>7. ASSUME NEW d \in Drainers, Return(d)
      PROVE  DrainTypeOK'
  BY <1>7 DEF Return, DrainState
<1>8. CASE Operate
  BY <1>8 DEF Operate, LoadPath, SleepPath, UnloadPath, Then, At, ModelState
<1>9. CASE UNCHANGED vars
  BY <1>9 DEF vars
<1>10. QED
  BY <1>1, <1>2, <1>4, <1>5, <1>6, <1>7, <1>8, <1>9 DEF Next, Poll

\* Every step keeps the counter between its two bounds.
LEMMA CounterStep == IInv /\ [Next]_vars => CounterTracksRequests'
<1> SUFFICES ASSUME IInv, [Next]_vars
             PROVE  CounterTracksRequests'
  OBVIOUS
<1> DEFINE R == Cardinality(Running)
           L == Cardinality(Late)
<1>0. /\ pending \in Nat /\ R \in Nat /\ L \in Nat
      /\ pending <= R /\ R - L <= pending
      /\ req \in [Requests -> ReqState]
  BY Counts DEF IInv, DrainTypeOK, CounterTracksRequests, Running, Late
<1>1. ASSUME NEW r \in Requests, Admit(r)
      PROVE  CounterTracksRequests'
  <2>1. Running' = Running \cup {r} /\ r \notin Running /\ Late' = Late
    BY <1>0, <1>1 DEF Admit, Running, Late, In
  <2>2. Cardinality(Running') = R + 1
    BY <2>1, Counts, FS_AddElement DEF Running
  <2>3. QED
    BY <1>0, <1>1, <2>1, <2>2 DEF Admit, CounterTracksRequests
<1>2. ASSUME NEW r \in Requests, Finish(r), req[r] = "running"
      PROVE  CounterTracksRequests'
  <2>1. Running' = Running \ {r} /\ r \in Running /\ Late' = Late
    BY <1>0, <1>2 DEF Finish, Running, Late, In
  <2>2. Cardinality(Running') = R - 1
    BY <2>1, Counts, FS_RemoveElement DEF Running
  <2>3. R - 1 \in Nat
    BY <2>2, Counts DEF Running
  <2>4. QED
    BY <1>0, <1>2, <2>1, <2>2, <2>3 DEF Finish, Decremented, CounterTracksRequests
<1>3. ASSUME NEW r \in Requests, Finish(r), req[r] = "cut"
      PROVE  CounterTracksRequests'
  <2>1. Running' = Running /\ Late' = Late \cup {r} /\ r \notin Late
    BY <1>0, <1>3 DEF Finish, Running, Late, In
  <2>2. Cardinality(Late') = L + 1
    BY <2>1, Counts, FS_AddElement DEF Late
  <2>3. QED
    BY <1>0, <1>3, <2>1, <2>2 DEF Finish, Decremented, CounterTracksRequests
<1>4. ASSUME NEW d \in Drainers, TimeOut(d)
      PROVE  CounterTracksRequests'
  <2>1. Running' = {} /\ Late' = Late
    BY <1>0, <1>4 DEF TimeOut, Running, Late, In
  <2>2. QED
    BY <1>0, <1>4, <2>1, FS_EmptySet DEF TimeOut, Forced, CounterTracksRequests
<1>5. ASSUME UNCHANGED <<pending, req>>
      PROVE  CounterTracksRequests'
  BY <1>5 DEF IInv, CounterTracksRequests, Running, Late, In
<1>6. QED
  BY <1>1, <1>2, <1>3, <1>4, <1>5
     DEF Next, Finish, Begin, Poll, Drained, Return, Operate, vars

\* At every poll that finds the counter at zero, nothing runs or something was late.
LEMMA NoneLeftIsClean == IInv /\ pending = 0 => Running = {} \/ Late # {}
<1> SUFFICES ASSUME IInv, pending = 0, Late = {}
             PROVE  Running = {}
  OBVIOUS
<1>1. Cardinality(Running) = 0
  BY Counts, FS_EmptySet DEF IInv, CounterTracksRequests, Running
<1>2. QED
  BY <1>1, Counts, FS_EmptySet DEF Running

THEOREM Invariant == Spec => []IInv
<1>1. IInv /\ [Next]_vars => IInv'
  BY TypeStep, CounterStep DEF IInv
<1>. QED
  BY InitIInv, <1>1, PTL DEF Spec

\* Drain's variables keep their types: decrements are clamped at zero.
THEOREM TypeCorrect == Spec => []DrainTypeOK
BY Invariant, PTL DEF IInv

\* Drainer never waits for a request that is gone, and its counter misses no more
\* requests than have finished after being given up, for any number of requests
\* and overlapping drains.
THEOREM CounterIsBounded == Spec => []CounterTracksRequests
BY Invariant, PTL DEF IInv

\* A drain that returns True has left no request running, unless a request that an
\* earlier drain had given up on was late.
THEOREM NaturalIsClean == Spec => NaturalDrainIsClean
<1>1. IInv /\ [Next]_vars =>
        [\A d \in Drainers :
           drainer'[d] = "natural" /\ drainer[d] # "natural" => Running = {} \/ Late # {}]_vars
  <2> SUFFICES ASSUME IInv, Next, NEW d \in Drainers,
                      drainer'[d] = "natural", drainer[d] # "natural"
               PROVE  Running = {} \/ Late # {}
    BY DEF vars
  <2>0. drainer \in [Drainers -> DrainState]
    BY DEF IInv, DrainTypeOK
  <2>1. pending = 0
    <3>1. \A e \in Drainers : \A from, outcome :
            Conclude(e, from, outcome) /\ outcome # "natural" => drainer'[d] # "natural"
      BY <2>0 DEF Conclude
    <3>2. PICK e \in Drainers : Begin(e) \/ Poll(e) \/ Return(e)
      BY DEF Next, Admit, Finish, Operate
    <3>3. CASE Begin(e)
      BY <2>0, <3>3 DEF Begin
    <3>4. CASE Drained(e)
      BY <3>4 DEF Drained, NoneLeft
    <3>5. CASE TimeOut(e)
      BY <3>1, <3>5 DEF TimeOut
    <3>6. CASE Return(e)
      BY <2>0, <3>6 DEF Return
    <3>7. QED
      BY <3>2, <3>3, <3>4, <3>5, <3>6 DEF Poll
  <2>2. QED
    BY <2>1, NoneLeftIsClean
<1>2. QED
  BY <1>1, Invariant, PTL DEF Spec, NaturalDrainIsClean
=============================================================================
