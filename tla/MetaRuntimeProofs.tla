------------------------- MODULE MetaRuntimeProofs -------------------------
(***************************************************************************)
(* Proofs about MetaRuntime for every set of increments, reflections and   *)
(* executions.  The runtime is shown to use the session manager only as    *)
(* SessionManager allows, so that what SessionManagerProofs proves of the  *)
(* manager holds of the sessions of the runtime.                           *)
(***************************************************************************)
EXTENDS MetaRuntime, FiniteSetTheorems, SequenceTheorems, TLAPS

\* The session manager again, with the theorems proved about it.
Facts == INSTANCE SessionManagerProofs

-----------------------------------------------------------------------------
\* Both instances of the session manager are the same specification.

LEMMA SameNames ==
  /\ Facts!Status = Sessions!Status
  /\ Facts!NoStatus = Sessions!NoStatus
  /\ Facts!NoExecution = Sessions!NoExecution
  /\ Facts!NoSession = Sessions!NoSession
  /\ Facts!Name = Sessions!Name
  /\ Facts!Terminal = Sessions!Terminal
  /\ Facts!Live = Sessions!Live
  /\ Facts!Errors = Sessions!Errors
  /\ Facts!AllowedTransitions = Sessions!AllowedTransitions
BY DEF Facts!Status, Sessions!Status, Facts!NoStatus, Sessions!NoStatus,
       Facts!NoExecution, Sessions!NoExecution, Facts!NoSession,
       Sessions!NoSession, Facts!Name, Sessions!Name, Facts!Terminal,
       Sessions!Terminal, Facts!Live, Sessions!Live, Facts!Errors,
       Sessions!Errors, Facts!AllowedTransitions, Sessions!AllowedTransitions

\* The same records, events and results in both instances.
LEMMA SameTypes ==
  /\ Facts!Request = Sessions!Request
  /\ Facts!SessionId = Sessions!SessionId
  /\ Facts!Record = Sessions!Record
  /\ Facts!Event = Sessions!Event
  /\ Facts!ExecutionState = Sessions!ExecutionState
  /\ Facts!Results = Sessions!Results
BY SameNames
DEF Facts!Request, Sessions!Request, Facts!SessionId, Sessions!SessionId,
    Facts!Record, Sessions!Record, Facts!Event, Sessions!Event,
    Facts!ExecutionState, Sessions!ExecutionState, Facts!Results,
    Sessions!Results

\* They also count and call finite the same sets.
LEMMA SameCounts ==
  \A S : /\ Facts!Cardinality(S) = Cardinality(S)
         /\ Sessions!Cardinality(S) = Cardinality(S)
         /\ Facts!IsFiniteSet(S) = IsFiniteSet(S)
         /\ Sessions!IsFiniteSet(S) = IsFiniteSet(S)
BY DEF Facts!Cardinality, Sessions!Cardinality, Cardinality,
       Facts!IsFiniteSet, Sessions!IsFiniteSet, IsFiniteSet

\* The same type invariant in both.
LEMMA SameTypeOK == Facts!TypeOK <=> Sessions!TypeOK
BY SameNames, SameTypes, SameCounts DEF Facts!TypeOK, Sessions!TypeOK

\* The same initial states in both.
LEMMA SameInit == Facts!Init <=> Sessions!Init
BY SameNames DEF Facts!Init, Sessions!Init

\* The same plan() in both.
LEMMA SamePlan == \A q : Facts!Plan(q) <=> Sessions!Plan(q)
BY SameNames, SameCounts
DEF Facts!Plan, Sessions!Plan, Facts!PlannedId, Sessions!PlannedId,
    Facts!FullName, Sessions!FullName, Facts!SameRun, Sessions!SameRun,
    Facts!RecordEvent, Sessions!RecordEvent

\* The same changes of status in both.
LEMMA SameMoveTo ==
  \A s, st, done : Facts!MoveTo(s, st, done) <=> Sessions!MoveTo(s, st, done)
BY SameNames
DEF Facts!MoveTo, Sessions!MoveTo, Facts!RecordEvent, Sessions!RecordEvent,
    Facts!Raise, Sessions!Raise

\* The same start() in both.
LEMMA SameStart ==
  \A s : /\ Facts!StartRefused(s) <=> Sessions!StartRefused(s)
         /\ Facts!StartLaunched(s) <=> Sessions!StartLaunched(s)
         /\ Facts!StartRaised(s) <=> Sessions!StartRaised(s)
BY SameNames
DEF Facts!StartRefused, Sessions!StartRefused, Facts!StartLaunched,
    Sessions!StartLaunched, Facts!StartRaised, Sessions!StartRaised,
    Facts!MayStart, Sessions!MayStart, Facts!Raise, Sessions!Raise,
    Facts!RecordEvent, Sessions!RecordEvent, Facts!Launch, Sessions!Launch,
    Facts!Launchable, Sessions!Launchable, Facts!Started, Sessions!Started

\* The same steps in both.
LEMMA SameNext == [Facts!Next]_(Facts!vars) <=> [Sessions!Next]_managed
<1>1. \A e : /\ Facts!StatesAfterCancel(e) = Sessions!StatesAfterCancel(e)
             /\ Facts!StatesAfterFailedCancel(e) = Sessions!StatesAfterFailedCancel(e)
             /\ Facts!Reported(e) = Sessions!Reported(e)
  BY SameNames
  DEF Facts!StatesAfterCancel, Sessions!StatesAfterCancel,
      Facts!StatesAfterFailedCancel, Sessions!StatesAfterFailedCancel,
      Facts!Reported, Sessions!Reported
<1>2. Facts!vars = managed /\ Facts!vars' = managed'
  BY DEF Facts!vars, managed
<1>3. \A s : Facts!Cancel(s) <=> Sessions!Cancel(s)
  BY SameNames, SameMoveTo, <1>1
  DEF Facts!Cancel, Sessions!Cancel, Facts!CancelNotStarted,
      Sessions!CancelNotStarted, Facts!CancelStarted, Sessions!CancelStarted,
      Facts!CancelRaised, Sessions!CancelRaised, Facts!Raise, Sessions!Raise
<1>4. Facts!WaitStep <=> Sessions!WaitStep
  BY SameNames, SameMoveTo, <1>1
  DEF Facts!WaitStep, Sessions!WaitStep, Facts!DeadlinePasses,
      Sessions!DeadlinePasses, Facts!WaitSeesEnd, Sessions!WaitSeesEnd,
      Facts!WaitRaised, Sessions!WaitRaised, Facts!WaitTimesOut,
      Sessions!WaitTimesOut, Facts!WaitCancelRaised, Sessions!WaitCancelRaised,
      Facts!Raise, Sessions!Raise
<1>5. \A s : Facts!WaitBegin(s) <=> Sessions!WaitBegin(s)
  BY SameNames DEF Facts!WaitBegin, Sessions!WaitBegin
<1>6. \A s, st : Facts!Transition(s, st) <=> Sessions!Transition(s, st)
  BY SameMoveTo DEF Facts!Transition, Sessions!Transition
<1>7. \A e : Facts!ExecutionEnds(e) <=> Sessions!ExecutionEnds(e)
  BY SameNames DEF Facts!ExecutionEnds, Sessions!ExecutionEnds
<1>8. Facts!Call <=> Sessions!Call
  BY SameNames, SameStart, SamePlan, SameCounts, <1>3, <1>5, <1>6
  DEF Facts!Call, Sessions!Call, Facts!MayCall, Sessions!MayCall,
      Facts!MayPlan, Sessions!MayPlan
<1> QED
  BY <1>2, <1>4, <1>7, <1>8 DEF Facts!Next, Sessions!Next

-----------------------------------------------------------------------------
\* What SessionManagerProofs shows, said of the sessions of the runtime.

\* The manager of a new runtime is well typed.
LEMMA SessionsInit == Sessions!Init => Sessions!TypeOK
BY Facts!InitType, ManagerAssumption, SameNames, SameTypes, SameCounts,
   SameInit, SameTypeOK

\* Every step of the manager keeps its types.
LEMMA SessionsNext ==
  Sessions!TypeOK /\ [Sessions!Next]_managed => Sessions!TypeOK'
<1>1. Facts!TypeOK /\ [Facts!Next]_(Facts!vars) => Facts!TypeOK'
  BY Facts!NextType, ManagerAssumption, SameNames, SameTypes, SameCounts
<1>2. (Facts!TypeOK <=> Sessions!TypeOK)'
  BY SameTypeOK, PTL
<1> QED
  BY <1>1, <1>2, SameTypeOK, SameNext

\* The trail and the set of records only grow, one event and one record at a
\* time.
LEMMA SessionsGrow ==
  ASSUME Sessions!TypeOK, [Sessions!Next]_managed
  PROVE  /\ Len(trail) \in Nat /\ Len(trail') <= Len(trail) + 1
         /\ DOMAIN trail \subseteq DOMAIN trail'
         /\ \A i \in DOMAIN trail : trail'[i] = trail[i]
         /\ DOMAIN records \subseteq DOMAIN records'
<1>1. Facts!TypeOK /\ [Facts!Next]_(Facts!vars)
  BY SameTypeOK, SameNext
<1>2. trail \in Seq(Facts!Event) /\ Len(trail) \in Nat
  BY <1>1, LenProperties DEF Facts!TypeOK
<1>3. \/ UNCHANGED trail
      \/ \E event : trail' = Append(trail, event)
  BY <1>1, Facts!StatusSteps, ManagerAssumption, SameNames, SameTypes, SameCounts
  DEF Facts!Plan, Facts!RecordEvent, Facts!StatusMoves, Facts!StatusesStay
<1>4. ASSUME NEW event, trail' = Append(trail, event)
      PROVE  /\ Len(trail') = Len(trail) + 1
             /\ DOMAIN trail \subseteq DOMAIN trail'
             /\ \A i \in DOMAIN trail : trail'[i] = trail[i]
  BY <1>1, <1>4, Facts!AppendedTrail, ManagerAssumption, SameNames, SameTypes,
     SameCounts
<1>5. DOMAIN records \subseteq DOMAIN records'
  BY <1>1, Facts!StatusSteps, ManagerAssumption, SameNames, SameTypes, SameCounts
  DEF Facts!Plan, Facts!StatusMoves, Facts!StatusesStay
<1> QED
  BY <1>2, <1>3, <1>4, <1>5

-----------------------------------------------------------------------------
\* The runtime uses the session manager as its specification allows.

\* Completions in progress.
CompleteCalls ==
  [op : {"complete"}, session : SessionIds,
   step : {"feedback", "evaluate", "judge", "learn", "settle", "close"},
   verdict : Verdict, used : BOOLEAN,
   given : SUBSET Reflections, todo : SUBSET Reflections]

\* wait() polls for the session of the call and only then, and what is left of
\* a call fits on the trail and among the records.
RoomInv ==
  /\ waiting = IF call.op = "execute" /\ call.step = "waiting"
                 THEN {call.session} ELSE {}
  /\ call.op = "plan" =>
       /\ Len(trail) + Len(call.todo) <= MaxTrail
       /\ Cardinality(DOMAIN records) + Len(call.todo) <= MaxSessions
  /\ call.op = "execute" /\ call.step = "start" => Len(trail) + 2 <= MaxTrail
  /\ call.op = "execute" /\ call.step = "wait"  => Len(trail) + 1 <= MaxTrail
  /\ At("feedback") => Len(trail) + 5 <= MaxTrail
  /\ At("evaluate") => Len(trail) + 5 <= MaxTrail
  /\ At("judge")    => Len(trail) + 4 <= MaxTrail
  /\ At("learn")    => Len(trail) + 3 <= MaxTrail
  /\ At("settle")   => Len(trail) + 2 <= MaxTrail
  /\ At("close")    => Len(trail) + 1 <= MaxTrail

\* A call in progress is one of four kinds.
LEMMA CallKinds ==
  ASSUME call \in Calls
  PROVE  \/ call = Idle /\ call.op = "idle"
         \/ /\ call.op = "plan"
            /\ call.todo \in Seq(Requests) /\ call.todo # <<>>
         \/ /\ call.op = "execute"
            /\ call.session \in SessionIds
            /\ call.step \in {"start", "wait", "waiting"}
         \/ call.op = "complete" /\ call \in CompleteCalls
BY DEF Calls, Idle, CompleteCalls

\* The facts about the trail and the records that the steps need.
LEMMA RoomNumbers ==
  ASSUME TypeOK
  PROVE  /\ Len(trail) \in Nat
         /\ Cardinality(DOMAIN records) \in Nat
         /\ MaxTrail \in Nat /\ MaxSessions \in Nat
<1>1. trail \in Seq(Sessions!Event) /\ IsFiniteSet(DOMAIN records)
  BY SameCounts DEF TypeOK, Sessions!TypeOK
<1> QED
  BY <1>1, LenProperties, FS_CardinalityType, ManagerAssumption

\* Every step is a step of the session manager or leaves it alone.
LEMMA ManagerStep ==
  ASSUME TypeOK, RoomInv, [Next]_vars
  PROVE  [Sessions!Next]_managed
<1>1. call \in Calls /\ OperatorStatuses \subseteq Sessions!Status
  BY ReflectionsAssumption DEF TypeOK
<1>2. ASSUME UNCHANGED managed PROVE [Sessions!Next]_managed
  BY <1>2
<1>3. CASE PlanNext
  <2>1. call.todo \in Seq(Requests) /\ call.todo # <<>>
    BY <1>1, <1>3, CallKinds DEF PlanNext, CompleteCalls
  <2>2. Head(call.todo) \in Requests /\ Len(call.todo) \in Nat /\ Len(call.todo) # 0
    BY <2>1, HeadTailProperties, LenProperties, EmptySeq
  <2>3. waiting = {} /\ Len(trail) < MaxTrail
        /\ Cardinality(DOMAIN records) < MaxSessions
    BY <1>3, <2>2, RoomNumbers DEF PlanNext, RoomInv
  <2>4. Sessions!MayCall /\ Sessions!MayPlan
    BY <2>3, SameCounts DEF Sessions!MayCall, Sessions!MayPlan
  <2> QED
    BY <1>3, <2>2, <2>4 DEF PlanNext, Sessions!Next, Sessions!Call
<1>4. CASE ExecuteStart
  <2>1. call.session \in DOMAIN records
    BY <1>1, <1>4, CallKinds DEF ExecuteStart, SessionIds, CompleteCalls
  <2>2. Sessions!MayCall
    BY <1>4, RoomNumbers DEF ExecuteStart, RoomInv, Sessions!MayCall
  <2> QED
    BY <1>4, <2>1, <2>2 DEF ExecuteStart, Sessions!Next, Sessions!Call
<1>5. CASE ExecuteWait
  <2>1. call.session \in DOMAIN records
    BY <1>1, <1>5, CallKinds DEF ExecuteWait, SessionIds, CompleteCalls
  <2>2. Sessions!MayCall
    BY <1>5, RoomNumbers DEF ExecuteWait, RoomInv, Sessions!MayCall
  <2> QED
    BY <1>5, <2>1, <2>2 DEF ExecuteWait, Sessions!Next, Sessions!Call
<1>6. CASE ExecuteWaitStep
  BY <1>6 DEF ExecuteWaitStep, Sessions!Next
<1>7. ASSUME NEW step \in {"evaluate", "judge", "learn", "settle", "close"},
             NEW st \in Sessions!Status, NEW next, Advance(step, st, next)
      PROVE  [Sessions!Next]_managed
  <2>1. call.session \in DOMAIN records /\ call.op # "execute"
    BY <1>1, <1>7, CallKinds DEF Advance, At, SessionIds, CompleteCalls
  <2>2. Sessions!MayCall
    BY <1>7, <2>1, RoomNumbers DEF Advance, RoomInv, At, Sessions!MayCall
  <2> QED
    BY <1>7, <2>1, <2>2 DEF Advance, Sessions!Next, Sessions!Call
<1>8. /\ {"evaluating", "accepted", "learned", "closed"} \subseteq Sessions!Status
      /\ \A v \in Verdict : AfterVerdict[v] \in Sessions!Status
  BY DEF Sessions!Status, Verdict, AfterVerdict
<1>9. CASE CompleteJudge
  <2>1. call.verdict \in Verdict
    BY <1>1, <1>9, CallKinds DEF CompleteJudge, Advance, At, CompleteCalls
  <2> QED
    BY <1>7, <1>8, <1>9, <2>1 DEF CompleteJudge
<1>10. CASE CompleteEvaluate \/ CompleteSettle \/ CompleteClose
  BY <1>7, <1>8, <1>10 DEF CompleteEvaluate, CompleteSettle, CompleteClose
<1>11. CASE CompleteLearn
  BY <1>2, <1>7, <1>8, <1>11 DEF CompleteLearn, LearnOne
<1>12. CASE Operate
  <2>1. call.op = "idle"
    BY <1>12 DEF Operate, MayBegin, Idle
  <2>2. Sessions!MayCall
    BY <1>12, <2>1, RoomNumbers
    DEF Operate, MayBegin, MaxCallEvents, RoomInv, Sessions!MayCall
  <2> QED
    BY <1>1, <1>12, <2>2 DEF Operate, Sessions!Next, Sessions!Call
<1>13. CASE ExecutionEnds
  BY <1>13 DEF ExecutionEnds, Sessions!Next
<1>14. CASE Begin \/ CompleteFeedback \/ UNCHANGED vars
  BY <1>2, <1>14
  DEF Begin, PlanBegin, ExecuteBegin, CompleteBegin, CompleteFeedback, vars, managed
<1> QED
  BY <1>3, <1>4, <1>5, <1>6, <1>9, <1>10, <1>11, <1>12, <1>13, <1>14
  DEF Next, CallStep

-----------------------------------------------------------------------------
\* Type correctness, and room for what is left of a call.

\* What the steps of a completion do to the call.
LEMMA CompletionMoves ==
  ASSUME call \in CompleteCalls,
         NEW step \in {"feedback", "evaluate", "judge", "learn", "settle", "close"}
  PROVE  /\ To(step) \in CompleteCalls
         /\ To(step).op = "complete" /\ To(step).step = step
         /\ To(step).session = call.session /\ To(step).verdict = call.verdict
         /\ To(step).given = call.given /\ To(step).todo = call.todo
BY DEF To, CompleteCalls

\* What is left of the candidates after one of them.
LEMMA OneCandidateLess ==
  ASSUME call \in CompleteCalls, NEW reflection,
         call' = [call EXCEPT !.todo = @ \ {reflection}]
  PROVE  /\ call' \in CompleteCalls
         /\ call'.op = "complete" /\ call'.step = call.step
         /\ call'.session = call.session /\ call'.verdict = call.verdict
         /\ call'.given = call.given
         /\ call'.todo = call.todo \ {reflection}
BY DEF CompleteCalls

\* The call goes on as its steps say.
LEMMA CallStays ==
  ASSUME TypeOK, [Next]_vars
  PROVE  call' \in Calls
<1>1. call \in Calls
  BY DEF TypeOK
<1>2. CompleteCalls \subseteq Calls /\ Idle \in Calls
  BY DEF Calls, CompleteCalls
<1>3. ASSUME NEW step \in {"evaluate", "judge", "learn", "settle", "close"},
             NEW st, NEW next \in Calls, Advance(step, st, next)
      PROVE  call' \in Calls
  BY <1>2, <1>3 DEF Advance, GoOn
<1>4. call.op = "complete" => call \in CompleteCalls
  BY <1>1, CallKinds
<1>5. call.op = "complete" =>
        \A step \in {"feedback", "evaluate", "judge", "learn", "settle", "close"} :
          To(step) \in Calls
  BY <1>2, <1>4, CompletionMoves
<1>6. CASE Begin
  <2>1. ASSUME NEW increment \in Increments, PlanBegin(increment)
        PROVE  call' \in Calls
    BY <2>1, IncrementsAssumption DEF PlanBegin, Plan, Calls
  <2>2. ASSUME NEW s \in DOMAIN records, ExecuteBegin(s)
        PROVE  call' \in Calls
    BY <2>2 DEF ExecuteBegin, Execute, Calls, SessionIds
  <2>3. ASSUME NEW s \in DOMAIN records, NEW verdict \in Verdict,
               NEW used \in BOOLEAN, NEW given \in SUBSET Reflections,
               CompleteBegin(s, verdict, used, given)
        PROVE  call' \in Calls
    BY <2>3 DEF CompleteBegin, Complete, Calls, SessionIds
  <2> QED
    BY <1>6, <2>1, <2>2, <2>3 DEF Begin
<1>7. CASE PlanNext
  <2>1. call.todo \in Seq(Requests) /\ call.todo # <<>>
    BY <1>1, <1>7, CallKinds DEF PlanNext, CompleteCalls
  <2>2. Len(call.todo) # 1 => Tail(call.todo) \in Seq(Requests) \ {<<>>}
    <3>1. /\ Tail(call.todo) \in Seq(Requests) /\ Len(call.todo) \in Nat
          /\ Len(Tail(call.todo)) = Len(call.todo) - 1
      BY <2>1, HeadTailProperties, LenProperties
    <3>2. ASSUME Tail(call.todo) = <<>> PROVE Len(Tail(call.todo)) = 0
      <4>1. Len(<<>>) = 0
        BY EmptySeq
      <4> QED
        BY <3>2, <4>1, Zenon
    <3> QED
      BY <3>1, <3>2
  <2> QED
    BY <1>2, <1>7, <2>2 DEF PlanNext, GoOn, Plan, Calls
<1>8. CASE ExecuteStart \/ ExecuteWait \/ ExecuteWaitStep
  <2>1. call.session \in SessionIds
    BY <1>1, <1>8, CallKinds
    DEF ExecuteStart, ExecuteWait, ExecuteWaitStep, CompleteCalls
  <2>2. Execute(call.session, "wait") \in Calls
        /\ Execute(call.session, "waiting") \in Calls
    BY <2>1 DEF Execute, Calls
  <2> QED
    BY <1>1, <1>2, <1>8, <2>2 DEF ExecuteStart, ExecuteWait, ExecuteWaitStep, GoOn
<1>9. CASE CompleteFeedback
  BY <1>2, <1>5, <1>9 DEF CompleteFeedback, At
<1>10. CASE CompleteEvaluate \/ CompleteSettle \/ CompleteClose
  BY <1>2, <1>3, <1>5, <1>10
  DEF CompleteEvaluate, CompleteSettle, CompleteClose, Advance, At
<1>11. CASE CompleteJudge
  BY <1>2, <1>3, <1>5, <1>11 DEF CompleteJudge, Advance, At
<1>12. ASSUME NEW reflection \in Reflections, LearnOne(reflection)
       PROVE  call' \in Calls
  BY <1>2, <1>4, <1>12, OneCandidateLess DEF LearnOne, At
<1>13. CASE CompleteLearn
  BY <1>3, <1>5, <1>12, <1>13 DEF CompleteLearn, Advance, At
<1>14. CASE Operate \/ ExecutionEnds \/ UNCHANGED vars
  BY <1>1, <1>14 DEF Operate, ExecutionEnds, vars
<1> QED
  BY <1>6, <1>7, <1>8, <1>9, <1>10, <1>11, <1>13, <1>14 DEF Next, CallStep

\* Memories and feedback are about sessions there are.
LEMMA MemoryTyped ==
  ASSUME TypeOK, [Next]_vars
  PROVE  /\ memory' \in [DOMAIN memory' ->
                           [session : SessionIds, reflection : Reflections]]
         /\ feedback' \in [DOMAIN feedback' -> Verdict]
         /\ DOMAIN feedback' \subseteq SessionIds
<1> DEFINE Memory == [session : SessionIds, reflection : Reflections]
<1>1. /\ call.op = "complete" => call \in CompleteCalls
      /\ memory \in [DOMAIN memory -> Memory]
      /\ feedback \in [DOMAIN feedback -> Verdict]
      /\ DOMAIN feedback \subseteq SessionIds
  BY CallKinds DEF TypeOK
<1>2. CASE UNCHANGED <<memory, feedback>>
  BY <1>1, <1>2
<1>3. CASE CompleteFeedback
  <2>1. call.session \in SessionIds /\ call.verdict \in Verdict
    BY <1>1, <1>3 DEF CompleteFeedback, At, CompleteCalls
  <2> QED
    BY <1>1, <1>3, <2>1 DEF CompleteFeedback
<1>4. ASSUME NEW reflection \in Reflections, LearnOne(reflection)
      PROVE  /\ memory' \in [DOMAIN memory' -> Memory]
             /\ UNCHANGED feedback
  <2>1. [session |-> call.session, reflection |-> reflection] \in Memory
    BY <1>1, <1>4 DEF LearnOne, At, CompleteCalls
  <2> QED
    BY <1>1, <1>4, <2>1 DEF LearnOne
<1>5. CASE CompleteLearn
  BY <1>1, <1>4, <1>5 DEF CompleteLearn, Advance
<1> QED
  BY <1>2, <1>3, <1>5
  DEF Next, CallStep, Begin, PlanBegin, ExecuteBegin, CompleteBegin, PlanNext,
      ExecuteStart, ExecuteWait, ExecuteWaitStep, CompleteEvaluate,
      CompleteJudge, CompleteSettle, CompleteClose, Advance, Operate,
      ExecutionEnds, vars

\* While a call waits its session keeps the execution it was started with.
LEMMA WaitingStaysLaunched ==
  ASSUME TypeOK, RoomInv, ExecuteWaitStep
  PROVE  /\ call.session \in waiting /\ call.session \in DOMAIN records
         /\ DOMAIN records' = DOMAIN records
         /\ records[call.session].external \in Executions
         /\ records'[call.session].external = records[call.session].external
         /\ \/ UNCHANGED records
            \/ records' = [records EXCEPT ![call.session].status = "cancelled"]
<1>1. waiting = {call.session} /\ Sessions!WaitStep
  BY DEF ExecuteWaitStep, RoomInv
<1>2. /\ call.session \in DOMAIN records
      /\ records \in [DOMAIN records -> Sessions!Record]
      /\ records[call.session].external \in Executions
  BY <1>1 DEF TypeOK, Sessions!TypeOK, Sessions!Record
<1>3. \/ UNCHANGED records
      \/ records' = [records EXCEPT ![call.session].status = "cancelled"]
  BY <1>1
  DEF Sessions!WaitStep, Sessions!DeadlinePasses, Sessions!WaitSeesEnd,
      Sessions!WaitRaised, Sessions!WaitTimesOut, Sessions!WaitCancelRaised,
      Sessions!MoveTo, Sessions!RecordEvent, Sessions!Raise
<1> QED
  BY <1>1, <1>2, <1>3 DEF Sessions!Record

\* What execute_increment reports is the end of an execution or a timeout.
LEMMA ReportTyped ==
  ASSUME TypeOK, RoomInv, Sessions!TypeOK', [Next]_vars
  PROVE  report' \in Reports'
<1>1. report \in Reports' /\ result' \in Sessions!Results
  <2>1. DOMAIN records \subseteq DOMAIN records'
    BY ManagerStep, SessionsGrow DEF TypeOK
  <2> QED
    BY <2>1 DEF Reports, SessionIds, TypeOK, Sessions!TypeOK
<1>2. CASE ExecuteWaitStep
  <2>1. CASE report' = report
    BY <1>1, <2>1
  <2>2. CASE report' # report
    <3>1. report' = [session |-> call.session,
                     execution |-> records'[call.session].external,
                     status |-> Outcome(records'[call.session].status, result')]
          /\ result' \notin Sessions!Errors
      BY <1>2, <2>2 DEF ExecuteWaitStep
    <3>2. /\ call.session \in DOMAIN records'
          /\ records'[call.session].external \in Executions
      BY <1>2, WaitingStaysLaunched
    <3>3. Outcome(records'[call.session].status, result') \in
            {"none", "timed_out"} \cup (Sessions!Results \ Sessions!Errors)
      BY <1>1, <3>1 DEF Outcome
    <3> QED
      BY <3>1, <3>2, <3>3 DEF Reports, SessionIds
  <2> QED
    BY <2>1, <2>2
<1>3. CASE report' \in {report, NoReport}
  BY <1>1, <1>3 DEF Reports
<1> QED
  BY <1>2, <1>3
  DEF Next, CallStep, Begin, PlanBegin, ExecuteBegin, CompleteBegin, PlanNext,
      ExecuteStart, ExecuteWait, CompleteFeedback, CompleteEvaluate,
      CompleteJudge, CompleteLearn, LearnOne, CompleteSettle, CompleteClose,
      Advance, Operate, ExecutionEnds, vars

\* Every step of the runtime keeps the types.
LEMMA TypeKept ==
  ASSUME TypeOK, RoomInv, [Next]_vars
  PROVE  TypeOK'
<1>1. Sessions!TypeOK /\ [Sessions!Next]_managed
  BY ManagerStep DEF TypeOK
<1>2. Sessions!TypeOK'
  BY <1>1, SessionsNext
<1>3. SessionIds \subseteq SessionIds'
  BY <1>1, SessionsGrow DEF SessionIds
<1>4. call' \in Calls'
  <2>1. PICK ids, next : ids = SessionIds' /\ next = call'
    OBVIOUS
  <2>2. next \in Calls /\ SessionIds \subseteq ids
    BY <1>3, <2>1, CallStays
  <2>3. next \in {Idle}
          \cup [op : {"plan"}, todo : Seq(Requests) \ {<<>>}]
          \cup [op : {"execute"}, session : ids, step : {"start", "wait", "waiting"}]
          \cup [op : {"complete"}, session : ids,
                step : {"feedback", "evaluate", "judge", "learn", "settle", "close"},
                verdict : Verdict, used : BOOLEAN,
                given : SUBSET Reflections, todo : SUBSET Reflections]
    BY <2>2 DEF Calls
  <2> QED
    BY <2>1, <2>3 DEF Calls
<1>5. /\ memory' \in [DOMAIN memory' ->
                        [session : SessionIds', reflection : Reflections]]
      /\ feedback' \in [DOMAIN feedback' -> Verdict]
      /\ DOMAIN feedback' \subseteq SessionIds'
  BY <1>3, MemoryTyped
<1>6. report' \in Reports'
  BY <1>2, ReportTyped
<1> QED
  BY <1>2, <1>4, <1>5, <1>6 DEF TypeOK

\* An idle runtime leaves room for everything.
LEMMA IdleHasRoom ==
  ASSUME call' = Idle, waiting' = {}
  PROVE  RoomInv'
BY DEF RoomInv, Idle, At

\* So does a call whose steps left what is still to be written as it was.
LEMMA SameCallHasRoom ==
  ASSUME RoomInv, UNCHANGED managed,
         call'.op = call.op, call'.op = "complete", call'.step = call.step
  PROVE  RoomInv'
<1>1. waiting = {} /\ UNCHANGED <<waiting, trail>>
  BY DEF RoomInv, managed
<1> QED
  BY <1>1 DEF RoomInv, At

\* A plan in progress never outgrows the trail it was begun with room for.
LEMMA RoomAfterPlan ==
  ASSUME TypeOK, RoomInv, Len(trail') <= Len(trail) + 1, PlanNext
  PROVE  RoomInv'
<1>1. call.todo \in Seq(Requests) /\ call.todo # <<>> /\ waiting = {}
  BY CallKinds DEF TypeOK, PlanNext, RoomInv, CompleteCalls
<1>2. waiting' = {}
  BY <1>1 DEF PlanNext, Sessions!Plan
<1>3. CASE call' = Idle
  BY <1>2, <1>3, IdleHasRoom
<1>4. CASE call' = Plan(Tail(call.todo))
  <2>1. /\ Len(call.todo) \in Nat
        /\ Len(Tail(call.todo)) = Len(call.todo) - 1
    BY <1>1, HeadTailProperties, LenProperties
  <2>2. /\ Len(trail) + Len(call.todo) <= MaxTrail
        /\ Cardinality(DOMAIN records) + Len(call.todo) <= MaxSessions
    BY DEF PlanNext, RoomInv
  <2>3. Len(trail') \in Nat /\ Cardinality(DOMAIN records') \in Nat
    <3>1. [Sessions!Next]_managed
      BY ManagerStep DEF Next, CallStep
    <3>2. Sessions!TypeOK'
      BY <3>1, SessionsNext DEF TypeOK
    <3>3. trail' \in Seq(Sessions!Event') /\ IsFiniteSet(DOMAIN records')
      BY <3>2, SameCounts DEF Sessions!TypeOK
    <3> QED
      BY <3>3, LenProperties, FS_CardinalityType
  <2>4. Cardinality(DOMAIN records') <= Cardinality(DOMAIN records) + 1
    <3>1. PICK new : DOMAIN records' = DOMAIN records \cup {new}
      BY DEF PlanNext, Sessions!Plan
    <3>2. IsFiniteSet(DOMAIN records)
      BY SameCounts DEF TypeOK, Sessions!TypeOK
    <3>3. \/ Cardinality(DOMAIN records') = Cardinality(DOMAIN records)
          \/ Cardinality(DOMAIN records') = Cardinality(DOMAIN records) + 1
      BY <3>1, <3>2, FS_AddElement
    <3> QED
      BY <3>3, RoomNumbers
  <2>5. call'.op = "plan" /\ call'.todo = Tail(call.todo)
    BY <1>4 DEF Plan
  <2>6. /\ Len(trail') + Len(call'.todo) <= MaxTrail
        /\ Cardinality(DOMAIN records') + Len(call'.todo) <= MaxSessions
    BY <2>1, <2>2, <2>3, <2>4, <2>5, RoomNumbers
  <2> QED
    BY <1>2, <2>5, <2>6 DEF RoomInv, At
<1> QED
  BY <1>3, <1>4 DEF PlanNext, GoOn

\* Nor does an execution in progress.
LEMMA RoomAfterExecute ==
  ASSUME TypeOK, RoomInv, Len(trail') \in Nat, Len(trail') <= Len(trail) + 1,
         ExecuteStart \/ ExecuteWait \/ ExecuteWaitStep
  PROVE  RoomInv'
<1>1. CASE ExecuteStart
  <2>1. waiting = {} /\ Len(trail) + 2 <= MaxTrail
    BY <1>1 DEF ExecuteStart, RoomInv
  <2>2. waiting' = {}
    BY <1>1, <2>1
    DEF ExecuteStart, Sessions!StartRefused, Sessions!StartLaunched,
        Sessions!StartRaised
  <2>3. CASE call' = Execute(call.session, "wait")
    BY <2>1, <2>2, <2>3, RoomNumbers DEF Execute, RoomInv, At
  <2> QED
    BY <1>1, <2>2, <2>3, IdleHasRoom DEF ExecuteStart, GoOn
<1>2. CASE ExecuteWait
  <2>1. waiting' = {} \/ waiting' = {call.session}
    BY <1>2 DEF ExecuteWait, Sessions!WaitBegin
  <2>2. CASE waiting' = {}
    BY <1>2, <2>2, IdleHasRoom DEF ExecuteWait
  <2>3. CASE waiting' = {call.session}
    <3>1. call' = Execute(call.session, "waiting")
      BY <1>2, <2>3 DEF ExecuteWait
    <3> QED
      BY <2>3, <3>1 DEF Execute, RoomInv, At
  <2> QED
    BY <2>1, <2>2, <2>3
<1>3. CASE ExecuteWaitStep
  <2>1. waiting' = {} \/ waiting' = waiting
    BY <1>3
    DEF ExecuteWaitStep, Sessions!WaitStep, Sessions!DeadlinePasses,
        Sessions!WaitSeesEnd, Sessions!WaitRaised, Sessions!WaitTimesOut,
        Sessions!WaitCancelRaised
  <2>2. CASE waiting' = {}
    BY <1>3, <2>2, IdleHasRoom DEF ExecuteWaitStep
  <2>3. CASE waiting' # {}
    <3>1. UNCHANGED call /\ waiting' = {call.session}
      BY <1>3, <2>1, <2>3 DEF ExecuteWaitStep, RoomInv
    <3> QED
      BY <1>3, <3>1 DEF ExecuteWaitStep, RoomInv, At
  <2> QED
    BY <2>2, <2>3
<1> QED
  BY <1>1, <1>2, <1>3

\* A transition of a completion writes the event that was left to it.
LEMMA RoomAfterAdvance ==
  ASSUME TypeOK, RoomInv, Len(trail') \in Nat, Len(trail') <= Len(trail) + 1,
         CompleteEvaluate \/ CompleteJudge \/ CompleteSettle \/ CompleteClose
           \/ Advance("learn", "accepted", To("settle"))
  PROVE  RoomInv'
<1>1. call.op = "complete" /\ call \in CompleteCalls
  BY CallKinds
  DEF TypeOK, CompleteEvaluate, CompleteJudge, CompleteSettle, CompleteClose,
      Advance, At
<1>2. waiting = {}
  BY <1>1 DEF RoomInv
<1>3. waiting' = {}
  BY <1>2
  DEF CompleteEvaluate, CompleteJudge, CompleteSettle, CompleteClose, Advance,
      Sessions!Transition
<1>4. CASE call' = Idle
  BY <1>3, <1>4, IdleHasRoom
<1>5. ASSUME NEW from \in {"evaluate", "judge", "learn", "settle"},
             NEW step \in {"judge", "learn", "settle", "close"},
             At(from), call' = To(step),
             <<from, step>> \in {<<"evaluate", "judge">>, <<"judge", "learn">>,
                                 <<"learn", "settle">>, <<"settle", "close">>}
      PROVE  RoomInv'
  <2>1. call'.op = "complete" /\ call'.step = step
    BY <1>1, <1>5, CompletionMoves
  <2> QED
    BY <1>3, <1>5, <2>1, RoomNumbers DEF RoomInv, At
<1>6. \/ call' = Idle
      \/ At("evaluate") /\ call' = To("judge")
      \/ At("judge") /\ call' = To("learn")
      \/ At("learn") /\ call' = To("settle")
      \/ At("settle") /\ call' = To("close")
  BY DEF CompleteEvaluate, CompleteJudge, CompleteSettle, CompleteClose,
         Advance, GoOn
<1> QED
  BY <1>4, <1>5, <1>6

\* Every step of the runtime keeps that room.
LEMMA RoomKept ==
  ASSUME TypeOK, RoomInv, [Next]_vars
  PROVE  RoomInv'
<1>1. Len(trail') \in Nat /\ Len(trail') <= Len(trail) + 1
  <2>1. Sessions!TypeOK /\ [Sessions!Next]_managed
    BY ManagerStep DEF TypeOK
  <2>2. Sessions!TypeOK'
    BY <2>1, SessionsNext
  <2>3. trail' \in Seq(Sessions!Event')
    BY <2>2 DEF Sessions!TypeOK
  <2> QED
    BY <2>1, <2>3, SessionsGrow, LenProperties
<1>2. call.op = "complete" => call \in CompleteCalls
  BY CallKinds DEF TypeOK
<1>3. CASE Begin
  <2>1. waiting' = {} /\ UNCHANGED <<records, trail>>
        /\ Len(trail) + 5 <= MaxTrail
    BY <1>3
    DEF Begin, PlanBegin, ExecuteBegin, CompleteBegin, MayBegin, MaxCallEvents,
        Idle, RoomInv, managed
  <2>2. ASSUME NEW increment \in Increments, PlanBegin(increment) PROVE RoomInv'
    BY <2>1, <2>2 DEF PlanBegin, Plan, RoomInv, At
  <2>3. ASSUME NEW s \in DOMAIN records, ExecuteBegin(s) PROVE RoomInv'
    BY <2>1, <2>3, RoomNumbers DEF ExecuteBegin, Execute, RoomInv, At
  <2>4. ASSUME NEW s, NEW verdict, NEW used, NEW given,
               CompleteBegin(s, verdict, used, given)
        PROVE  RoomInv'
    <3>1. call'.op = "complete" /\ call'.step \in {"feedback", "evaluate"}
      BY <2>4 DEF CompleteBegin, Complete
    <3> QED
      BY <2>1, <3>1 DEF RoomInv, At
  <2> QED
    BY <1>3, <2>2, <2>3, <2>4 DEF Begin
<1>4. CASE CompleteFeedback
  <2>1. At("feedback") /\ UNCHANGED managed /\ waiting = {}
    BY <1>4 DEF CompleteFeedback, RoomInv, At
  <2>2. CASE call' = Idle
    BY <2>1, <2>2, IdleHasRoom DEF managed
  <2>3. CASE call' = To("evaluate")
    <3>1. call'.op = "complete" /\ call'.step = "evaluate"
      BY <1>2, <2>1, <2>3, CompletionMoves DEF At
    <3> QED
      BY <2>1, <3>1 DEF RoomInv, At, managed
  <2> QED
    BY <1>4, <2>2, <2>3 DEF CompleteFeedback
<1>5. ASSUME NEW reflection \in Reflections, LearnOne(reflection)
      PROVE  RoomInv'
  <2>1. call \in CompleteCalls /\ UNCHANGED managed /\ waiting = {}
        /\ call.op = "complete"
    BY <1>2, <1>5 DEF LearnOne, RoomInv, At
  <2>2. CASE call' = Idle
    BY <2>1, <2>2, IdleHasRoom DEF managed
  <2>3. CASE call' = [call EXCEPT !.todo = @ \ {reflection}]
    BY <2>1, <2>3, OneCandidateLess, SameCallHasRoom
  <2> QED
    BY <1>5, <2>2, <2>3 DEF LearnOne
<1>6. CASE CompleteLearn
  BY <1>1, <1>5, <1>6, RoomAfterAdvance DEF CompleteLearn
<1>7. CASE Operate
  <2>1. call' = Idle /\ waiting = {}
    BY <1>7 DEF Operate, MayBegin, Idle, RoomInv
  <2>2. waiting' = {}
    BY <1>7, <2>1
    DEF Operate, Sessions!StartLaunched, Sessions!Cancel,
        Sessions!CancelNotStarted, Sessions!CancelStarted,
        Sessions!CancelRaised, Sessions!Transition, Sessions!Raise
  <2> QED
    BY <2>1, <2>2, IdleHasRoom
<1>8. CASE ExecutionEnds \/ UNCHANGED vars
  <2>1. UNCHANGED <<waiting, trail, records, call>>
    BY <1>8 DEF ExecutionEnds, Sessions!ExecutionEnds, vars
  <2> QED
    BY <2>1 DEF RoomInv, At
<1> QED
  BY <1>1, <1>3, <1>4, <1>6, <1>7, <1>8, RoomAfterPlan, RoomAfterExecute,
     RoomAfterAdvance DEF Next, CallStep

\* A new runtime is well typed and has its room.
LEMMA RuntimeInit == Init => TypeOK /\ RoomInv
<1> SUFFICES ASSUME Init PROVE TypeOK /\ RoomInv
  OBVIOUS
<1>1. Sessions!TypeOK /\ waiting = {}
  BY SessionsInit DEF Init, Sessions!Init
<1>2. call \in Calls /\ call.op = "idle"
  BY DEF Init, Calls, Idle
<1>3. /\ DOMAIN memory = {} /\ DOMAIN feedback = {} /\ report \in Reports
      /\ memory \in [DOMAIN memory -> [session : SessionIds, reflection : Reflections]]
      /\ feedback \in [DOMAIN feedback -> Verdict]
  BY DEF Init, Reports
<1>4. RoomInv
  BY <1>1, <1>2 DEF RoomInv, At
<1> QED
  BY <1>1, <1>2, <1>3, <1>4 DEF TypeOK

\* Every step keeps the types and the room.
LEMMA RuntimeNext == TypeOK /\ RoomInv /\ [Next]_vars => TypeOK' /\ RoomInv'
BY TypeKept, RoomKept

\* Every variable of the runtime keeps its type: a call in progress is about a
\* session there is, memories and feedback too (plan_increment,
\* execute_increment and complete_increment only go on with what the manager
\* returned).
THEOREM TypeCorrect == Spec => []TypeOK
BY RuntimeInit, RuntimeNext, PTL DEF Spec

\* The runtime uses the session manager as SessionManager specifies it, whatever
\* raises inside its calls.
LEMMA ManagerImplemented == Spec => Sessions!Spec
<1>1. TypeOK /\ RoomInv /\ [Next]_vars => [Sessions!Next]_managed
  BY ManagerStep
<1>2. Init => Sessions!Init
  BY DEF Init
<1>3. managed = Sessions!vars /\ managed' = Sessions!vars'
  BY DEF managed, Sessions!vars
<1>4. [Sessions!Next]_managed <=> [Sessions!Next]_(Sessions!vars)
  BY <1>3
<1> QED
  BY <1>1, <1>2, <1>4, RuntimeInit, RuntimeNext, PTL
  DEF Spec, Sessions!Spec

-----------------------------------------------------------------------------
\* Learning and feedback.

\* The trail shows the session in the status.
Logged(s, st) == \E i \in DOMAIN trail : trail[i].session = s /\ trail[i].status = st

\* The lines show the session leaving evaluation as the verdict says.
JudgedBy(lines, s, verdict) ==
  \E i \in DOMAIN lines :
    /\ lines[i].session = s
    /\ lines[i].previous = "evaluating"
    /\ lines[i].status = AfterVerdict[verdict]

\* A completion only learns once the trail shows its session reflecting.
EarnedInv ==
  /\ MemoryIsEarned
  /\ At("learn") \/ At("settle") \/ At("close") => Logged(call.session, "reflecting")

\* The reflection is in memory under the name of the session of the call.
Remembered(reflection) ==
  /\ reflection.id \in DOMAIN memory
  /\ memory[reflection.id].session = call.session

\* A completion still has to look at every eligible reflection it was given
\* that is not in memory.
LearnedInv ==
  /\ At("feedback") \/ At("evaluate") \/ At("judge") => call.todo = call.given
  /\ At("learn") =>
       \A reflection \in call.given \ call.todo :
         Eligible(reflection) => Remembered(reflection)
  /\ SettledMeansLearned

\* A completion finds its session where it takes it up, and the verdict it fed
\* back is the one it goes on to log.
FeedbackInv ==
  /\ At("feedback") \/ At("evaluate") =>
       records[call.session].status \in {"running", "waiting"}
  /\ At("judge") => records[call.session].status = "evaluating"
  /\ \A s \in DOMAIN feedback :
       \/ JudgedBy(trail, s, feedback[s])
       \/ /\ At("evaluate") \/ At("judge")
          /\ call.session = s /\ call.verdict = feedback[s]

\* What the trail shows it shows for ever.
LEMMA TrailRemembers ==
  ASSUME TypeOK, RoomInv, [Next]_vars, NEW s
  PROVE  /\ \A st : Logged(s, st) => Logged(s, st)'
         /\ \A verdict : JudgedBy(trail, s, verdict) => JudgedBy(trail', s, verdict)
<1>1. /\ DOMAIN trail \subseteq DOMAIN trail'
      /\ \A i \in DOMAIN trail : trail'[i] = trail[i]
  BY ManagerStep, SessionsGrow DEF TypeOK
<1>2. \A st : Logged(s, st) => Logged(s, st)'
  BY <1>1 DEF Logged
<1>3. \A verdict : JudgedBy(trail, s, verdict) => JudgedBy(trail', s, verdict)
  BY <1>1 DEF JudgedBy
<1> QED
  BY <1>2, <1>3

\* A transition that succeeds moves the record and is the last event.
LEMMA TransitionLogged ==
  ASSUME TypeOK, NEW s \in DOMAIN records, NEW st, Sessions!Transition(s, st),
         result' = "ok"
  PROVE  /\ records'[s].status = st
         /\ \E i \in DOMAIN trail' :
              /\ trail'[i].session = s
              /\ trail'[i].previous = records[s].status
              /\ trail'[i].status = st
<1>1. /\ records' = [records EXCEPT ![s].status = st]
      /\ trail' = Append(trail, [session |-> s, previous |-> records[s].status,
                                 status |-> st])
  BY DEF Sessions!Transition, Sessions!MoveTo, Sessions!RecordEvent, Sessions!Raise
<1>2. records[s] \in Sessions!Record
  BY DEF TypeOK, Sessions!TypeOK
<1>3. records'[s].status = st
  BY <1>1, <1>2 DEF Sessions!Record
<1>4. PICK event : event = [session |-> s, previous |-> records[s].status,
                            status |-> st]
  OBVIOUS
<1>5. Len(trail) + 1 \in DOMAIN trail' /\ trail'[Len(trail) + 1] = event
  <2>1. trail' = Append(trail, event) /\ Facts!TypeOK
    BY <1>1, <1>4, SameTypeOK DEF TypeOK
  <2>2. Len(trail) + 1 \in 1..(Len(trail) + 1)
    BY RoomNumbers
  <2> QED
    BY <2>1, <2>2, Facts!AppendedTrail, ManagerAssumption, SameNames, SameTypes,
       SameCounts
<1> QED
  BY <1>3, <1>4, <1>5

\* A completion goes on after a transition that succeeded.
Advanced(from, st, to) ==
  /\ At(from)
  /\ Sessions!Transition(call.session, st)
  /\ result' = "ok"
  /\ call' = To(to)
  /\ UNCHANGED <<memory, feedback, report>>

\* All a step can do to a completion and to what it leaves behind.
LEMMA CompletionSteps ==
  ASSUME TypeOK, RoomInv, [Next]_vars
  PROVE  \/ call'.op # "complete" /\ UNCHANGED <<memory, feedback>>
         \/ UNCHANGED <<call, memory, feedback, records, trail>>
         \/ \E s \in DOMAIN records, verdict \in Verdict, used \in BOOLEAN,
               given \in SUBSET Reflections : CompleteBegin(s, verdict, used, given)
         \/ CompleteFeedback
         \/ \E reflection \in Reflections : LearnOne(reflection)
         \/ Advanced("evaluate", "evaluating", "judge")
         \/ call.verdict = "accepted" /\ Advanced("judge", "reflecting", "learn")
         \/ call.todo = {} /\ Advanced("learn", "accepted", "settle")
         \/ Advanced("settle", "learned", "close")
<1>1. Idle.op # "complete" /\ \A step : Execute(call.session, step).op # "complete"
  BY DEF Idle, Execute
<1>2. call.op = "complete" => call.verdict \in Verdict
  BY CallKinds DEF TypeOK, CompleteCalls
<1>3. CASE Begin
  BY <1>3 DEF Begin, PlanBegin, ExecuteBegin, Plan, Execute
<1>4. CASE PlanNext \/ ExecuteStart \/ ExecuteWait \/ ExecuteWaitStep
  BY <1>1, <1>4
  DEF PlanNext, ExecuteStart, ExecuteWait, ExecuteWaitStep, GoOn, Plan
<1>5. CASE CompleteEvaluate
  BY <1>1, <1>5 DEF CompleteEvaluate, Advance, Advanced, GoOn
<1>6. CASE CompleteJudge
  <2>1. call.verdict \in Verdict
    BY <1>2, <1>6 DEF CompleteJudge, Advance, At
  <2>2. CASE call.verdict = "accepted"
    BY <1>1, <1>6, <2>2 DEF CompleteJudge, Advance, Advanced, GoOn, AfterVerdict
  <2>3. CASE call.verdict # "accepted"
    BY <1>1, <1>6, <2>3 DEF CompleteJudge, Advance, GoOn
  <2> QED
    BY <2>2, <2>3
<1>7. CASE CompleteLearn
  BY <1>1, <1>7 DEF CompleteLearn, Advance, Advanced, GoOn
<1>8. CASE CompleteSettle \/ CompleteClose
  BY <1>1, <1>8 DEF CompleteSettle, CompleteClose, Advance, Advanced, GoOn
<1>9. CASE Operate
  BY <1>1, <1>9 DEF Operate, MayBegin
<1>10. CASE ExecutionEnds \/ UNCHANGED vars
  BY <1>10 DEF ExecutionEnds, Sessions!ExecutionEnds, vars
<1> QED
  BY <1>3, <1>4, <1>5, <1>6, <1>7, <1>8, <1>9, <1>10 DEF Next, CallStep

\* A completion that was begun is at its first step, with everything it was
\* given still to look at.
LEMMA CompletionBegun ==
  ASSUME NEW s, NEW verdict, NEW used \in BOOLEAN, NEW given,
         CompleteBegin(s, verdict, used, given)
  PROVE  /\ call'.op = "complete" /\ call'.step \in {"feedback", "evaluate"}
         /\ call'.session = s /\ call'.verdict = verdict
         /\ call'.given = given /\ call'.todo = given
         /\ UNCHANGED <<memory, feedback, records, trail>>
         /\ records[s].status \in {"running", "waiting"}
BY DEF CompleteBegin, Complete, managed

\* Memories are only written by a completion whose session was seen reflecting.
LEMMA EarnedKept ==
  ASSUME TypeOK, RoomInv, EarnedInv, [Next]_vars
  PROVE  EarnedInv'
<1>1. /\ call.op = "complete" => call \in CompleteCalls
      /\ call.op = "complete" => call.session \in DOMAIN records
  BY CallKinds DEF TypeOK, CompleteCalls, SessionIds
<1>2. \A s : Logged(s, "reflecting") => Logged(s, "reflecting")'
  BY TrailRemembers
<1>3. ASSUME NEW id \in DOMAIN memory
      PROVE  /\ Eligible(memory[id].reflection)
             /\ Logged(memory[id].session, "reflecting")
  BY DEF EarnedInv, MemoryIsEarned, Logged
<1>4. PICK s : s = call.session
  OBVIOUS
<1>5. At("learn") \/ At("settle") \/ At("close") => Logged(s, "reflecting")'
  BY <1>2, <1>4 DEF EarnedInv
<1>6. ASSUME UNCHANGED memory PROVE MemoryIsEarned'
  <2>1. \A id \in DOMAIN memory :
          /\ Eligible(memory[id].reflection)
          /\ \E i \in DOMAIN trail' : /\ trail'[i].session = memory[id].session
                                      /\ trail'[i].status = "reflecting"
    BY <1>2, <1>3 DEF Logged
  <2> QED
    BY <1>6, <2>1 DEF MemoryIsEarned, Eligible
<1>7. ASSUME NEW reflection, LearnOne(reflection) PROVE MemoryIsEarned'
  <2>1. CASE UNCHANGED memory
    BY <1>6, <2>1
  <2>2. CASE /\ Eligible(reflection)
             /\ memory' = [id \in DOMAIN memory \cup {reflection.id} |->
                             IF id = reflection.id
                               THEN [session |-> call.session, reflection |-> reflection]
                               ELSE memory[id]]
    <3>1. Logged(s, "reflecting")'
      BY <1>5, <1>7 DEF LearnOne
    <3>2. ASSUME NEW id \in DOMAIN memory'
          PROVE  /\ Eligible(memory'[id].reflection)
                 /\ \E i \in DOMAIN trail' :
                      /\ trail'[i].session = memory'[id].session
                      /\ trail'[i].status = "reflecting"
      <4>1. CASE id = reflection.id
        BY <1>4, <2>2, <3>1, <4>1 DEF Logged
      <4>2. CASE id # reflection.id
        BY <1>2, <1>3, <2>2, <4>2 DEF Logged
      <4> QED
        BY <4>1, <4>2
    <3> QED
      BY <3>2 DEF MemoryIsEarned, Eligible
  <2> QED
    BY <1>7, <2>1, <2>2 DEF LearnOne
<1>8. ASSUME NEW from, NEW st, NEW to \in {"judge", "learn", "settle", "close"},
             Advanced(from, st, to),
             to # "judge" => Logged(s, "reflecting")'
      PROVE  EarnedInv'
  <2>1. call'.op = "complete" /\ call'.step = to /\ call'.session = s
    BY <1>1, <1>4, <1>8, CompletionMoves DEF Advanced, At
  <2> QED
    BY <1>6, <1>8, <2>1 DEF Advanced, EarnedInv, Logged, At
<1>9. ASSUME Advanced("judge", "reflecting", "learn")
      PROVE  Logged(s, "reflecting")'
  <2>1. s \in DOMAIN records
    BY <1>1, <1>4, <1>9 DEF Advanced, At
  <2> QED
    BY <1>4, <1>9, <2>1, TransitionLogged DEF Advanced, Logged
<1>10. CASE call'.op # "complete" /\ UNCHANGED <<memory, feedback>>
  BY <1>6, <1>10 DEF EarnedInv, At
<1>11. CASE UNCHANGED <<call, memory, feedback, records, trail>>
  BY <1>6, <1>11 DEF EarnedInv, At, Logged
<1>12. ASSUME NEW x \in DOMAIN records, NEW verdict \in Verdict,
              NEW used \in BOOLEAN, NEW given \in SUBSET Reflections,
              CompleteBegin(x, verdict, used, given)
       PROVE  EarnedInv'
  BY <1>6, <1>12, CompletionBegun DEF EarnedInv, At
<1>13. CASE CompleteFeedback
  <2>1. call' = Idle \/ call' = To("evaluate")
    BY <1>13 DEF CompleteFeedback
  <2>2. ~(At("learn") \/ At("settle") \/ At("close"))'
    BY <1>1, <1>13, <2>1, CompletionMoves DEF CompleteFeedback, At, Idle
  <2> QED
    BY <1>6, <1>13, <2>2 DEF CompleteFeedback, EarnedInv
<1>14. ASSUME NEW reflection \in Reflections, LearnOne(reflection)
       PROVE  EarnedInv'
  <2>1. At("learn") /\ MemoryIsEarned'
    BY <1>7, <1>14 DEF LearnOne
  <2>2. call' = Idle \/ call' = [call EXCEPT !.todo = @ \ {reflection}]
    BY <1>14 DEF LearnOne
  <2>3. CASE call' = Idle
    BY <2>1, <2>3 DEF EarnedInv, At, Idle
  <2>4. CASE call' = [call EXCEPT !.todo = @ \ {reflection}]
    <3>1. call'.session = s
      BY <1>1, <1>4, <2>1, <2>4, OneCandidateLess DEF At
    <3> QED
      BY <1>5, <2>1, <3>1 DEF EarnedInv, Logged
  <2> QED
    BY <2>2, <2>3, <2>4
<1> QED
  BY <1>5, <1>8, <1>9, <1>10, <1>11, <1>12, <1>13, <1>14, CompletionSteps
  DEF Advanced

\* Every memory passed the gate and comes from a session the trail shows
\* reflecting (complete_increment: learn() is reached only after the transition
\* to REFLECTING of an accepted evaluation; _eligible), whatever raises.
THEOREM MemoryEarned == Spec => []MemoryIsEarned
<1>1. Init => EarnedInv
  BY DEF Init, EarnedInv, MemoryIsEarned, At, Idle
<1>2. TypeOK /\ RoomInv /\ EarnedInv /\ [Next]_vars => EarnedInv'
  BY EarnedKept
<1>3. EarnedInv => MemoryIsEarned
  BY DEF EarnedInv
<1> QED
  BY <1>1, <1>2, <1>3, RuntimeInit, RuntimeNext, PTL DEF Spec

-----------------------------------------------------------------------------
\* What a settled completion has learned.

\* Looking at one candidate puts it in memory if it is eligible, and takes
\* nothing out.
LEMMA CandidateLearned ==
  ASSUME TypeOK, NEW reflection, LearnOne(reflection), call' # Idle
  PROVE  /\ call \in CompleteCalls /\ At("learn")
         /\ call'.op = "complete" /\ call'.step = "learn"
         /\ call'.session = call.session /\ call'.given = call.given
         /\ call'.todo = call.todo \ {reflection}
         /\ \A other : Remembered(other) => Remembered(other)'
         /\ Eligible(reflection) => Remembered(reflection)'
<1>1. At("learn") /\ call \in CompleteCalls
  BY CallKinds DEF TypeOK, LearnOne, At
<1>2. call' = [call EXCEPT !.todo = @ \ {reflection}]
  BY DEF LearnOne
<1>3. /\ call'.op = "complete" /\ call'.step = call.step
      /\ call'.session = call.session /\ call'.given = call.given
      /\ call'.todo = call.todo \ {reflection}
  BY <1>1, <1>2, OneCandidateLess
<1>4. CASE ~Eligible(reflection) /\ UNCHANGED memory
  BY <1>1, <1>3, <1>4 DEF At, Remembered
<1>5. CASE /\ reflection.id \notin DOMAIN memory
           /\ memory' = [id \in DOMAIN memory \cup {reflection.id} |->
                           IF id = reflection.id
                             THEN [session |-> call.session, reflection |-> reflection]
                             ELSE memory[id]]
  BY <1>1, <1>3, <1>5 DEF At, Remembered
<1> QED
  BY <1>4, <1>5 DEF LearnOne

\* Every step keeps what settled sessions taught in the memory.
LEMMA LearnedKept ==
  ASSUME TypeOK, RoomInv, LearnedInv, [Next]_vars
  PROVE  LearnedInv'
<1>1. call.op = "complete" => call \in CompleteCalls
  BY CallKinds DEF TypeOK
<1>2. CASE call'.op # "complete"
  BY <1>2 DEF LearnedInv, SettledMeansLearned, At
<1>3. CASE UNCHANGED <<call, memory>>
  BY <1>3 DEF LearnedInv, SettledMeansLearned, At, Remembered, Eligible
<1>4. ASSUME NEW s, NEW verdict, NEW used \in BOOLEAN, NEW given,
             CompleteBegin(s, verdict, used, given)
      PROVE  LearnedInv'
  BY <1>4, CompletionBegun DEF LearnedInv, SettledMeansLearned, At
<1>5. ASSUME At("feedback") \/ At("evaluate") \/ At("judge"),
             NEW step \in {"evaluate", "judge", "learn"}, call' = To(step),
             UNCHANGED memory
      PROVE  LearnedInv'
  <2>1. /\ call'.op = "complete" /\ call'.step = step
        /\ call'.given = call.given /\ call'.todo = call.todo
    BY <1>1, <1>5, CompletionMoves DEF At
  <2>2. call'.todo = call'.given
    BY <1>5, <2>1 DEF LearnedInv
  <2> QED
    BY <2>1, <2>2 DEF LearnedInv, SettledMeansLearned, At
<1>6. ASSUME \/ At("learn") /\ call.todo = {}
             \/ At("settle"),
             NEW step \in {"settle", "close"}, call' = To(step), UNCHANGED memory
      PROVE  LearnedInv'
  <2>1. /\ call'.op = "complete" /\ call'.step = step
        /\ call'.given = call.given /\ call'.session = call.session
    BY <1>1, <1>6, CompletionMoves DEF At
  <2>2. \A reflection \in call.given : Eligible(reflection) => Remembered(reflection)
    BY <1>6 DEF LearnedInv, SettledMeansLearned, Remembered
  <2> QED
    BY <1>6, <2>1, <2>2 DEF LearnedInv, SettledMeansLearned, At, Remembered, Eligible
<1>7. CASE CompleteFeedback
  BY <1>2, <1>5, <1>7 DEF CompleteFeedback, Idle
<1>8. ASSUME NEW reflection, LearnOne(reflection) PROVE LearnedInv'
  <2>1. CASE call' = Idle
    BY <1>2, <2>1 DEF Idle
  <2>2. CASE call' # Idle
    <3>1. /\ At("learn")
          /\ call'.op = "complete" /\ call'.step = "learn"
          /\ call'.given = call.given
          /\ call'.todo = call.todo \ {reflection}
          /\ \A other : Remembered(other) => Remembered(other)'
          /\ Eligible(reflection) => Remembered(reflection)'
      BY <1>8, <2>2, CandidateLearned
    <3>2. \A other \in call'.given \ call'.todo :
            Eligible(other) => Remembered(other)'
      BY <3>1 DEF LearnedInv
    <3> QED
      BY <3>1, <3>2 DEF LearnedInv, SettledMeansLearned, At, Eligible
  <2> QED
    BY <2>1, <2>2
<1> QED
  BY <1>2, <1>3, <1>4, <1>5, <1>6, <1>7, <1>8, CompletionSteps DEF Advanced

\* Learning is never half done where a session is settled: everything eligible
\* the completion was given is in memory under the session's name (learn() goes
\* through every candidate, and a store that raises ends the call first).
THEOREM SettledLearned == Spec => []SettledMeansLearned
<1>1. Init => LearnedInv
  BY DEF Init, LearnedInv, SettledMeansLearned, At, Idle
<1>2. TypeOK /\ RoomInv /\ LearnedInv /\ [Next]_vars => LearnedInv'
  BY LearnedKept
<1>3. LearnedInv => SettledMeansLearned
  BY DEF LearnedInv
<1> QED
  BY <1>1, <1>2, <1>3, RuntimeInit, RuntimeNext, PTL DEF Spec

-----------------------------------------------------------------------------
\* Feedback and evaluations agree.

\* A session being evaluated can be judged, and one that is worked on or waits
\* can be evaluated.
LEMMA EvaluationAllowed ==
  /\ "evaluating" \in Sessions!AllowedTransitions["running"]
  /\ "evaluating" \in Sessions!AllowedTransitions["waiting"]
  /\ \A verdict \in Verdict :
       AfterVerdict[verdict] \in Sessions!AllowedTransitions["evaluating"]
BY DEF Sessions!AllowedTransitions, Sessions!Status, Verdict, AfterVerdict

\* With a sink that never raises, an allowed transition succeeds.
LEMMA TransitionSucceeds ==
  ASSUME ~SinkMayFail, NEW s, NEW st,
         st \in Sessions!AllowedTransitions[records[s].status],
         Sessions!Transition(s, st)
  PROVE  result' = "ok"
BY DEF Sessions!Transition, Sessions!MoveTo, Sessions!RecordEvent

\* Every step keeps the feedback given and the trail in agreement.
LEMMA FeedbackKept ==
  ASSUME ~SinkMayFail, TypeOK, RoomInv, FeedbackInv, [Next]_vars
  PROVE  FeedbackInv'
<1>1. /\ call.op = "complete" => call \in CompleteCalls
      /\ call.op = "complete" => call.session \in DOMAIN records
  BY CallKinds DEF TypeOK, CompleteCalls, SessionIds
<1>2. \A s : \A verdict : JudgedBy(trail, s, verdict) => JudgedBy(trail', s, verdict)
  BY TrailRemembers
<1>3. \A s \in DOMAIN feedback :
        \/ JudgedBy(trail, s, feedback[s])
        \/ /\ At("evaluate") \/ At("judge")
           /\ call.session = s /\ call.verdict = feedback[s]
  BY DEF FeedbackInv
<1>4. PICK s : s = call.session
  OBVIOUS
\* Once the call is over, or another one begins, all feedback is on the trail.
<1>5. ASSUME UNCHANGED feedback,
             \A t \in DOMAIN feedback : JudgedBy(trail', t, feedback[t]),
             ~(At("feedback") \/ At("evaluate") \/ At("judge"))'
      PROVE  FeedbackInv'
  BY <1>5 DEF FeedbackInv, JudgedBy
<1>6. ~(At("evaluate") \/ At("judge")) =>
        \A t \in DOMAIN feedback : JudgedBy(trail', t, feedback[t])
  BY <1>2, <1>3
<1>7. CASE UNCHANGED <<call, feedback, records, trail>>
  BY <1>7 DEF FeedbackInv, JudgedBy, At
<1>8. ASSUME NEW x, NEW verdict, NEW used \in BOOLEAN, NEW given,
             CompleteBegin(x, verdict, used, given)
      PROVE  FeedbackInv'
  <2>1. ~(At("evaluate") \/ At("judge"))
    BY <1>8 DEF CompleteBegin, MayBegin, Idle, At
  <2>2. \A t \in DOMAIN feedback : JudgedBy(trail', t, feedback[t])
    BY <1>6, <2>1
  <2> QED
    BY <1>8, <2>2, CompletionBegun DEF FeedbackInv, JudgedBy, At
<1>9. CASE CompleteFeedback
  <2>1. /\ At("feedback") /\ UNCHANGED <<records, trail>>
        /\ \A t \in DOMAIN feedback : JudgedBy(trail', t, feedback[t])
        /\ records[s].status \in {"running", "waiting"}
    BY <1>4, <1>6, <1>9 DEF CompleteFeedback, At, managed, FeedbackInv
  <2>2. CASE call' = Idle /\ UNCHANGED feedback
    BY <1>5, <2>1, <2>2 DEF At, Idle
  <2>3. CASE /\ call' = To("evaluate")
             /\ feedback' = [t \in DOMAIN feedback \cup {call.session} |->
                               IF t = call.session THEN call.verdict ELSE feedback[t]]
    <3>1. /\ call'.op = "complete" /\ call'.step = "evaluate"
          /\ call'.session = s /\ call'.verdict = call.verdict
      BY <1>1, <1>4, <2>1, <2>3, CompletionMoves DEF At
    <3>2. ASSUME NEW t \in DOMAIN feedback'
          PROVE  \/ JudgedBy(trail', t, feedback'[t])
                 \/ s = t /\ call'.verdict = feedback'[t]
      BY <1>4, <2>1, <2>3, <3>1 DEF JudgedBy
    <3> QED
      BY <2>1, <3>1, <3>2 DEF FeedbackInv, JudgedBy, At
  <2> QED
    BY <1>9, <2>2, <2>3 DEF CompleteFeedback
<1>10. CASE CompleteEvaluate
  <2>1. /\ At("evaluate") /\ Sessions!Transition(s, "evaluating")
        /\ s \in DOMAIN records /\ UNCHANGED feedback
        /\ call' = IF result' = "ok" THEN To("judge") ELSE Idle
    BY <1>1, <1>4, <1>10 DEF CompleteEvaluate, Advance, At, GoOn
  <2>2. result' = "ok"
    <3>1. records[s].status \in {"running", "waiting"}
      BY <1>4, <2>1 DEF FeedbackInv
    <3> QED
      BY <2>1, <3>1, EvaluationAllowed, TransitionSucceeds
  <2>3. records'[s].status = "evaluating"
    BY <2>1, <2>2, TransitionLogged
  <2>4. /\ call'.op = "complete" /\ call'.step = "judge"
        /\ call'.session = s /\ call'.verdict = call.verdict
    BY <1>1, <1>4, <2>1, <2>2, CompletionMoves DEF At
  <2>5. \A t \in DOMAIN feedback :
          JudgedBy(trail', t, feedback[t]) \/ (s = t /\ call.verdict = feedback[t])
    BY <1>2, <1>3, <1>4
  <2> QED
    BY <2>1, <2>3, <2>4, <2>5 DEF FeedbackInv, JudgedBy, At
<1>11. CASE CompleteJudge
  <2>1. PICK st : st = AfterVerdict[call.verdict]
    OBVIOUS
  <2>2. /\ At("judge") /\ Sessions!Transition(s, st)
        /\ s \in DOMAIN records /\ UNCHANGED feedback
        /\ call' = Idle \/ call' = To("learn")
    BY <1>1, <1>4, <1>11, <2>1 DEF CompleteJudge, Advance, At, GoOn
  <2>3. records[s].status = "evaluating" /\ call.verdict \in Verdict
    BY <1>1, <1>4, <2>2 DEF FeedbackInv, CompleteCalls, At
  <2>4. result' = "ok"
    BY <2>1, <2>2, <2>3, EvaluationAllowed, TransitionSucceeds
  <2>5. \E i \in DOMAIN trail' :
          /\ trail'[i].session = s
          /\ trail'[i].previous = "evaluating"
          /\ trail'[i].status = st
    BY <2>2, <2>3, <2>4, TransitionLogged
  <2>6. \A t \in DOMAIN feedback : JudgedBy(trail', t, feedback[t])
    <3> SUFFICES ASSUME NEW t \in DOMAIN feedback, ~JudgedBy(trail, t, feedback[t])
                 PROVE  \E i \in DOMAIN trail' :
                          /\ trail'[i].session = t
                          /\ trail'[i].previous = "evaluating"
                          /\ trail'[i].status = AfterVerdict[feedback[t]]
      BY <1>2, <2>2 DEF JudgedBy
    <3>1. s = t /\ call.verdict = feedback[t]
      BY <1>3, <1>4
    <3> QED
      BY <2>1, <2>5, <3>1
  <2>7. ~(At("feedback") \/ At("evaluate") \/ At("judge"))'
    BY <1>1, <2>2, CompletionMoves DEF At, Idle
  <2> QED
    BY <1>5, <2>2, <2>6, <2>7
<1>12. ASSUME ~(At("evaluate") \/ At("judge")), UNCHANGED feedback,
              ~(At("feedback") \/ At("evaluate") \/ At("judge"))'
       PROVE  FeedbackInv'
  BY <1>5, <1>6, <1>12
<1>13. ASSUME NEW reflection, LearnOne(reflection) PROVE FeedbackInv'
  <2>1. At("learn") /\ UNCHANGED feedback
    BY <1>13 DEF LearnOne
  <2>2. call' = Idle \/ call'.step = "learn"
    BY <1>13, CandidateLearned
  <2> QED
    BY <1>12, <2>1, <2>2 DEF At, Idle
<1>14. ASSUME NEW from \in {"learn", "settle"}, NEW st,
              NEW to \in {"settle", "close"}, Advanced(from, st, to)
       PROVE  FeedbackInv'
  <2>1. call'.step = to
    BY <1>1, <1>14, CompletionMoves DEF Advanced, At
  <2> QED
    BY <1>12, <1>14, <2>1 DEF Advanced, At
<1>15. CASE call'.op # "complete" /\ UNCHANGED feedback
            /\ ~CompleteEvaluate /\ ~CompleteJudge
  <2>1. ~(At("evaluate") \/ At("judge"))
    BY <1>7, <1>15
    DEF Next, CallStep, Begin, PlanBegin, ExecuteBegin, CompleteBegin, MayBegin,
        PlanNext, ExecuteStart, ExecuteWait, ExecuteWaitStep, CompleteFeedback,
        CompleteLearn, LearnOne, CompleteSettle, CompleteClose, Advance,
        Operate, ExecutionEnds, vars, At, Idle
  <2> QED
    BY <1>12, <1>15, <2>1 DEF At
<1>16. /\ Advanced("evaluate", "evaluating", "judge") => CompleteEvaluate
       /\ call.verdict = "accepted" /\ Advanced("judge", "reflecting", "learn")
            => CompleteJudge
  BY DEF Advanced, CompleteEvaluate, CompleteJudge, Advance, GoOn, AfterVerdict
<1> QED
  BY <1>7, <1>8, <1>9, <1>10, <1>11, <1>13, <1>14, <1>15, <1>16, CompletionSteps

\* A new runtime has given no feedback.
LEMMA FeedbackInit == Init => FeedbackInv
BY DEF Init, FeedbackInv, At, Idle

\* The verdict fed back to a retrieval event is one the trail shows, once the
\* call that gave it is over (complete_increment gives feedback before it moves
\* the session): as long as the sink of the trail never raises.
THEOREM FeedbackLogged ==
  ASSUME ~SinkMayFail
  PROVE  Spec => []FeedbackIsOnTrail
<1>1. TypeOK /\ RoomInv /\ FeedbackInv /\ [Next]_vars => FeedbackInv'
  BY FeedbackKept
<1>2. FeedbackInv => FeedbackIsOnTrail
  BY DEF FeedbackInv, FeedbackIsOnTrail, JudgedBy, At
<1> QED
  BY <1>1, <1>2, FeedbackInit, RuntimeInit, RuntimeNext, PTL DEF Spec

-----------------------------------------------------------------------------
\* Timeouts.

\* What a wait that ends returned of its execution, as it left it.
LEMMA WaitEnds ==
  ASSUME TypeOK, NEW s \in waiting, waiting = {s}, Sessions!WaitStep,
         waiting' = {}, result' \notin Sessions!Errors
  PROVE  \/ /\ result' \in Sessions!Terminal
            /\ execution'[records[s].external] = result'
         \/ /\ result' = "running"
            /\ records' = [records EXCEPT ![s].status = "cancelled"]
<1> DEFINE e == records[s].external
<1>1. e \in Executions /\ execution \in [Executions -> Sessions!ExecutionState]
      /\ execution[e] # "absent"
  BY DEF TypeOK, Sessions!TypeOK, Sessions!Record
<1>2. CASE Sessions!WaitSeesEnd(s)
  BY <1>1, <1>2 DEF Sessions!WaitSeesEnd
<1>3. CASE Sessions!WaitTimesOut(s)
  <2>1. PICK state \in Sessions!StatesAfterCancel(e) :
          /\ execution' = [execution EXCEPT ![e] = state]
          /\ \E done \in {Sessions!Reported(state), "harness_error"} :
               Sessions!MoveTo(s, "cancelled", done)
    BY <1>3 DEF Sessions!WaitTimesOut
  <2>2. result' = Sessions!Reported(state)
        /\ records' = [records EXCEPT ![s].status = "cancelled"]
    BY <2>1 DEF Sessions!MoveTo, Sessions!RecordEvent, Sessions!Raise, Sessions!Errors
  <2>3. state \in {"stopping"} \cup Sessions!Terminal
    BY <1>1, <2>1
    DEF Sessions!StatesAfterCancel, Sessions!ExecutionState, Sessions!Live,
        Sessions!Terminal
  <2> QED
    BY <1>1, <2>1, <2>2, <2>3 DEF Sessions!Reported, Sessions!Terminal
<1>4. CASE Sessions!WaitRaised(s) \/ Sessions!WaitCancelRaised(s)
  BY <1>4
  DEF Sessions!WaitRaised, Sessions!WaitCancelRaised, Sessions!Raise, Sessions!Errors
<1>5. CASE Sessions!DeadlinePasses
  BY <1>5 DEF Sessions!DeadlinePasses
<1>6. \A t : Sessions!WaitSeesEnd(t) \/ Sessions!WaitRaised(t)
              \/ Sessions!WaitTimesOut(t) \/ Sessions!WaitCancelRaised(t) => t = s
  BY DEF Sessions!WaitSeesEnd, Sessions!WaitRaised, Sessions!WaitTimesOut,
         Sessions!WaitCancelRaised
<1> QED
  BY <1>2, <1>3, <1>4, <1>5, <1>6 DEF Sessions!WaitStep

\* A cancelled session stays as it is, except that plan() might take its id.
LEMMA CancelledStays ==
  ASSUME TypeOK, RoomInv, [Next]_vars, call.op # "plan",
         NEW s \in DOMAIN records, records[s].status = "cancelled"
  PROVE  s \in DOMAIN records' /\ records'[s] = records[s]
<1> DEFINE Stays == s \in DOMAIN records' /\ records'[s] = records[s]
<1>1. ASSUME UNCHANGED records PROVE Stays
  BY <1>1
<1>2. Sessions!AllowedTransitions["cancelled"] = {}
  BY DEF Sessions!AllowedTransitions, Sessions!Status
<1>3. ASSUME NEW t \in DOMAIN records, NEW st, NEW done,
             Sessions!MoveTo(t, st, done)
      PROVE  Stays
  <2>1. t = s => UNCHANGED records
    BY <1>2, <1>3 DEF Sessions!MoveTo, Sessions!Raise
  <2>2. UNCHANGED records \/ records' = [records EXCEPT ![t].status = st]
    BY <1>3 DEF Sessions!MoveTo, Sessions!Raise
  <2> QED
    BY <2>1, <2>2
<1>4. ASSUME NEW t \in DOMAIN records, Sessions!StartLaunched(t) PROVE Stays
  BY <1>2, <1>4 DEF Sessions!StartLaunched, Sessions!MayStart
<1>5. ASSUME NEW t \in DOMAIN records, Sessions!Cancel(t) PROVE Stays
  BY <1>1, <1>3, <1>5
  DEF Sessions!Cancel, Sessions!CancelNotStarted, Sessions!CancelStarted,
      Sessions!CancelRaised, Sessions!Raise
<1>6. call.op \in {"execute", "complete"} => call.session \in DOMAIN records
  BY CallKinds DEF TypeOK, SessionIds, CompleteCalls, Idle
<1>7. CASE ExecuteStart \/ ExecuteWait
  BY <1>1, <1>4, <1>6, <1>7
  DEF ExecuteStart, ExecuteWait, Sessions!StartRefused, Sessions!StartRaised,
      Sessions!Raise, Sessions!WaitBegin
<1>8. CASE ExecuteWaitStep
  <2>1. CASE UNCHANGED records
    BY <1>1, <2>1
  <2>2. CASE records' = [records EXCEPT ![call.session].status = "cancelled"]
    <3>1. records \in [DOMAIN records -> Sessions!Record]
      BY DEF TypeOK, Sessions!TypeOK
    <3> QED
      BY <2>2, <3>1 DEF Sessions!Record
  <2> QED
    BY <1>8, <2>1, <2>2, WaitingStaysLaunched
<1>9. ASSUME NEW step, NEW st, NEW next, Advance(step, st, next) PROVE Stays
  BY <1>3, <1>6, <1>9 DEF Advance, At, Sessions!Transition
<1>10. CASE CompleteEvaluate \/ CompleteJudge \/ CompleteLearn
            \/ CompleteSettle \/ CompleteClose
  BY <1>1, <1>9, <1>10
  DEF CompleteEvaluate, CompleteJudge, CompleteLearn, LearnOne, CompleteSettle,
      CompleteClose, managed
<1>11. CASE Operate
  BY <1>3, <1>4, <1>5, <1>11 DEF Operate, Sessions!Transition
<1>12. CASE Begin \/ CompleteFeedback \/ ExecutionEnds \/ UNCHANGED vars
  BY <1>1, <1>12
  DEF Begin, PlanBegin, ExecuteBegin, CompleteBegin, CompleteFeedback,
      ExecutionEnds, Sessions!ExecutionEnds, vars, managed
<1> QED
  BY <1>7, <1>8, <1>10, <1>11, <1>12 DEF Next, CallStep, PlanNext

\* There is a report between calls only, so that no plan() is under way.
ReportInv == (call # Idle => report = NoReport) /\ OutcomeStaysTrue

\* What execute_increment returns is so when it returns.
LEMMA ReportIsTrue ==
  ASSUME TypeOK, RoomInv, report = NoReport, ExecuteWaitStep
  PROVE  ReportInv'
<1>1. CASE report' = NoReport
  <2>1. OutcomeStaysTrue'
    BY <1>1 DEF OutcomeStaysTrue
  <2> QED
    BY <1>1, <2>1 DEF ReportInv
<1>2. CASE report' # NoReport
  <2> DEFINE s == call.session
             e == records[s].external
  <2>1. /\ waiting' = {} /\ result' \notin Sessions!Errors
        /\ call' = Idle
        /\ report' = [session |-> s, execution |-> records'[s].external,
                      status |-> Outcome(records'[s].status, result')]
    BY <1>2 DEF ExecuteWaitStep
  <2>2. s \in waiting /\ waiting = {s} /\ Sessions!WaitStep
    BY WaitingStaysLaunched DEF ExecuteWaitStep, RoomInv
  <2>3. /\ s \in DOMAIN records /\ records'[s].external = e
        /\ records \in [DOMAIN records -> Sessions!Record]
    BY WaitingStaysLaunched DEF TypeOK, Sessions!TypeOK
  <2>4. /\ report'.session = s /\ report'.execution = e
        /\ report'.status = Outcome(records'[s].status, result')
    BY <2>1, <2>3
  <2>5. CASE result' \in Sessions!Terminal /\ execution'[e] = result'
    <3>1. OutcomeStaysTrue'
      BY <2>3, <2>4, <2>5 DEF OutcomeStaysTrue, Outcome, Sessions!Terminal
    <3> QED
      BY <2>1, <3>1 DEF ReportInv
  <2>6. CASE result' = "running" /\ records' = [records EXCEPT ![s].status = "cancelled"]
    <3>1. records'[s].status = "cancelled"
      BY <2>3, <2>6 DEF Sessions!Record
    <3>2. OutcomeStaysTrue'
      BY <2>3, <2>4, <2>6, <3>1 DEF OutcomeStaysTrue, Outcome, Sessions!Terminal
    <3> QED
      BY <2>1, <3>2 DEF ReportInv
  <2> HIDE DEF s, e
  <2> QED
    BY <2>1, <2>2, <2>5, <2>6, WaitEnds DEF s, e
<1> QED
  BY <1>1, <1>2

\* Nothing that happens to the session or the execution of a report belies it.
LEMMA ReportStays ==
  ASSUME TypeOK, RoomInv, [Next]_vars, call.op # "plan", OutcomeStaysTrue,
         report' = report, report # NoReport
  PROVE  OutcomeStaysTrue'
<1> DEFINE s == report.session
           e == report.execution
<1>1. s \in DOMAIN records /\ e \in Executions
  BY DEF TypeOK, Reports, SessionIds
<1>2. execution[e] \in Sessions!Terminal => execution'[e] = execution[e]
  BY <1>1, ManagerStep, SameTypeOK, SameNext, SameNames, Facts!EndsStay,
     ManagerAssumption, SameTypes, SameCounts DEF TypeOK
<1>3. records[s].status = "cancelled" => records'[s] = records[s]
  BY <1>1, CancelledStays
<1>4. "cancelled" \in Sessions!Terminal
  BY DEF Sessions!Terminal
<1> QED
  BY <1>2, <1>3, <1>4 DEF OutcomeStaysTrue

\* Every step keeps reports true.
LEMMA ReportKept == TypeOK /\ RoomInv /\ ReportInv /\ [Next]_vars => ReportInv'
<1> SUFFICES ASSUME TypeOK, RoomInv, ReportInv, [Next]_vars PROVE ReportInv'
  OBVIOUS
<1>1. CASE report' = NoReport
  BY <1>1 DEF ReportInv, OutcomeStaysTrue
<1>2. CASE ExecuteWaitStep
  BY <1>2, ReportIsTrue DEF ReportInv, ExecuteWaitStep, Idle
<1>3. CASE report' # NoReport /\ ~ExecuteWaitStep
  <2>1. report' = report
    BY <1>3
    DEF Next, CallStep, Begin, PlanBegin, ExecuteBegin, CompleteBegin, PlanNext,
        ExecuteStart, ExecuteWait, CompleteFeedback, CompleteEvaluate,
        CompleteJudge, CompleteLearn, LearnOne, CompleteSettle, CompleteClose,
        Advance, Operate, ExecutionEnds, vars
  <2>2. call = Idle /\ call.op = "idle"
    BY <1>3, <2>1 DEF ReportInv, Idle
  <2>3. call' = Idle
    BY <1>3, <2>2
    DEF Next, CallStep, Begin, PlanBegin, ExecuteBegin, CompleteBegin, PlanNext,
        ExecuteStart, ExecuteWait, CompleteFeedback, CompleteEvaluate,
        CompleteJudge, CompleteLearn, LearnOne, CompleteSettle, CompleteClose,
        Advance, At, Operate, ExecutionEnds, vars
  <2> QED
    BY <1>3, <2>1, <2>2, <2>3, ReportStays DEF ReportInv
<1> QED
  BY <1>1, <1>2, <1>3

\* What execute_increment reported stays so while remote sessions end on their own
\* and the operator retries and cancels: what ended stays ended, and a session
\* given up keeps its execution and is never given another.
THEOREM OutcomesStayTrue == Spec => []OutcomeStaysTrue
<1>1. Init => ReportInv
  BY DEF Init, ReportInv, OutcomeStaysTrue
<1>2. ReportInv => OutcomeStaysTrue
  BY DEF ReportInv
<1> QED
  BY <1>1, <1>2, ReportKept, RuntimeInit, RuntimeNext, PTL DEF Spec

-----------------------------------------------------------------------------
\* What is proved of the manager holds of the sessions of the runtime.

\* The sessions of the runtime behave as the manager whose theorems are proved.
LEMMA RuntimeManages == Spec => Facts!Spec
<1>1. [Sessions!Next]_(Sessions!vars) <=> [Facts!Next]_(Facts!vars)
  <2>1. managed = Sessions!vars /\ managed' = Sessions!vars'
    BY DEF managed, Sessions!vars
  <2> QED
    BY <2>1, SameNext
<1>2. Sessions!Spec => Facts!Spec
  BY <1>1, SameInit, PTL DEF Sessions!Spec, Facts!Spec
<1> QED
  BY <1>2, ManagerImplemented, PTL

\* wait() and cancel() inside the runtime only act on executions launched for
\* their own session.
THEOREM RuntimeOwnersHold == Spec => []Sessions!ExecutionsAreOwned
<1>1. Facts!Spec => []Facts!ExecutionsAreOwned
  BY Facts!OwnersHold, ManagerAssumption, SameNames, SameTypes, SameCounts
<1>2. Facts!ExecutionsAreOwned <=> Sessions!ExecutionsAreOwned
  BY SameNames, SameCounts
  DEF Facts!ExecutionsAreOwned, Sessions!ExecutionsAreOwned
<1> QED
  BY <1>1, <1>2, RuntimeManages, PTL

\* The sessions of a runtime tell their whole history on the trail, through
\* calls that raise half-way and are given again, with colon-free run ids and a
\* sink that never raises.
THEOREM RuntimeHistoryHolds ==
  ASSUME Sessions!ColonFreeRuns, ~SinkMayFail
  PROVE  Spec => []Sessions!TrailIsHistory
<1>1. Facts!ColonFreeRuns
  BY DEF Facts!ColonFreeRuns, Sessions!ColonFreeRuns
<1>2. Facts!Spec => []Facts!TrailIsHistory
  BY <1>1, Facts!TrailTellsHistory, ManagerAssumption, SameNames, SameTypes, SameCounts
<1>3. Facts!TrailIsHistory <=> Sessions!TrailIsHistory
  BY SameNames
  DEF Facts!TrailIsHistory, Sessions!TrailIsHistory, Facts!TrailChains,
      Sessions!TrailChains, Facts!TrailEndsAtRecord, Sessions!TrailEndsAtRecord,
      Facts!TrailStartsPlanned, Sessions!TrailStartsPlanned, Facts!Consecutive,
      Sessions!Consecutive, Facts!IsLast, Sessions!IsLast
<1> QED
  BY <1>2, <1>3, RuntimeManages, PTL

\* With a sink that may raise, they are still in order.
THEOREM RuntimeOrderHolds ==
  ASSUME Sessions!ColonFreeRuns
  PROVE  Spec => []Sessions!TrailIsOrdered
<1>1. Facts!ColonFreeRuns
  BY DEF Facts!ColonFreeRuns, Sessions!ColonFreeRuns
<1>2. Facts!Spec => []Facts!TrailIsOrdered
  BY <1>1, Facts!TrailStaysOrdered, ManagerAssumption, SameNames, SameTypes, SameCounts
<1>3. Facts!Reachable = Sessions!Reachable
  BY SameNames
  DEF Facts!Reachable, Sessions!Reachable, Facts!ClosedStatuses, Sessions!ClosedStatuses
<1>4. Facts!TrailIsOrdered <=> Sessions!TrailIsOrdered
  BY <1>3
  DEF Facts!TrailIsOrdered, Sessions!TrailIsOrdered, Facts!Consecutive,
      Sessions!Consecutive, Facts!IsLast, Sessions!IsLast
<1> QED
  BY <1>2, <1>4, RuntimeManages, PTL

=============================================================================
