------------------------ MODULE SessionManagerProofs ------------------------
(***************************************************************************)
(* Proofs about SessionManager for every set of requests and executions.   *)
(***************************************************************************)
EXTENDS SessionManager, FiniteSetTheorems, SequenceTheorems, TLAPS

-----------------------------------------------------------------------------
\* Type correctness.

\* The records of one run are finitely many.
LEMMA SameRunFinite ==
  ASSUME TypeOK, NEW run
  PROVE  IsFiniteSet(SameRun(run))
<1>1. IsFiniteSet(DOMAIN records)
  BY DEF TypeOK
<1> QED
  BY <1>1, FS_Subset DEF SameRun

\* Any id plan() can compute is a session id.
LEMMA PlannedIdType ==
  ASSUME TypeOK, NEW q \in Requests
  PROVE  PlannedId(q) \in SessionId
<1>1. q.run \in Name /\ q.increment \in Name /\ q.role \in Name
  BY RequestsAssumption DEF Request
<1>2. FullName(q) \in Name
  BY <1>1, ConcatProperties DEF FullName, Name
<1>4. Cardinality(SameRun(q.run)) \in Nat
  BY SameRunFinite, FS_CardinalityType
<1> QED
  BY <1>2, <1>4 DEF PlannedId, SessionId

\* _record_event appends an event or raises, and nothing else.
LEMMA RecordEventType ==
  ASSUME TypeOK, NEW s \in SessionId, NEW previous \in Status \cup {NoStatus},
         NEW st \in Status, NEW done \in Results,
         RecordEvent(s, previous, st, done)
  PROVE  trail' \in Seq(Event) /\ result' \in Results
<1>1. [session |-> s, previous |-> previous, status |-> st] \in Event
  BY DEF Event
<1>2. trail \in Seq(Event)
  BY DEF TypeOK
<1>3. Append(trail, [session |-> s, previous |-> previous, status |-> st])
        \in Seq(Event)
  BY <1>1, <1>2, AppendProperties
<1>4. trail' \in Seq(Event)
  BY <1>2, <1>3 DEF RecordEvent
<1>5. result' \in Results
  BY DEF RecordEvent, Results, Errors
<1> QED
  BY <1>4, <1>5

\* transition() keeps every record a record and touches no other field.
LEMMA MoveToType ==
  ASSUME TypeOK, NEW s \in DOMAIN records, NEW st \in Status,
         NEW done \in Results, MoveTo(s, st, done)
  PROVE  /\ DOMAIN records' = DOMAIN records
         /\ records' \in [DOMAIN records -> Record]
         /\ \A t \in DOMAIN records :
              /\ records'[t].external = records[t].external
              /\ records'[t].attempt = records[t].attempt
              /\ records'[t].request = records[t].request
         /\ trail' \in Seq(Event)
         /\ result' \in Results
<1>1. records[s] \in Record /\ s \in SessionId
  BY DEF TypeOK
<1>2. CASE st \in AllowedTransitions[records[s].status]
  <2>1. records' = [records EXCEPT ![s].status = st]
    BY <1>2 DEF MoveTo
  <2>2. RecordEvent(s, records[s].status, st, done)
    BY <1>2 DEF MoveTo
  <2>3. trail' \in Seq(Event) /\ result' \in Results
    BY <2>2, <1>1, RecordEventType DEF Record
  <2> QED
    BY <2>1, <2>3, <1>1 DEF TypeOK, Record
<1>3. CASE st \notin AllowedTransitions[records[s].status]
  BY <1>3 DEF MoveTo, Raise, TypeOK, Results, Errors
<1> QED
  BY <1>2, <1>3

\* plan() keeps the types.
LEMMA PlanType ==
  ASSUME TypeOK, MayCall, NEW q \in Requests, Plan(q)
  PROVE  TypeOK'
<1> DEFINE new == PlannedId(q)
           record == [request |-> q, status |-> "planned",
                      external |-> NoExecution, attempt |-> 0]
<1>1. new \in SessionId
  BY PlannedIdType
<1>2. record \in Record
  BY DEF Record, Status
<1>3. records' = [s \in DOMAIN records \cup {new} |->
                    IF s = new THEN record ELSE records[s]]
  BY DEF Plan
<1>4. DOMAIN records' = DOMAIN records \cup {new}
  BY <1>3
<1>5. trail' \in Seq(Event) /\ result' \in Results
  <2>1. RecordEvent(new, NoStatus, "planned", "ok")
    BY DEF Plan
  <2> QED
    BY <1>1, <2>1, RecordEventType DEF Status, Results
<1>5a. IsFiniteSet(DOMAIN records)
  BY DEF TypeOK
<1>6. IsFiniteSet(DOMAIN records')
  BY <1>4, <1>5a, FS_AddElement
<1>7. records' \in [DOMAIN records' -> Record]
  BY <1>2, <1>3, <1>4 DEF TypeOK
<1>8. waiting' = {} /\ execution' = execution
  BY DEF MayCall, Plan
<1>9. \A s \in DOMAIN records' :
        records'[s].external # NoExecution =>
          execution'[records'[s].external] # "absent"
  BY <1>3, <1>4, <1>8 DEF TypeOK
<1> QED
  BY <1>1, <1>4, <1>5, <1>6, <1>7, <1>8, <1>9 DEF TypeOK, Plan

\* start() keeps the types, refused, launched or raised.
LEMMA StartType ==
  ASSUME TypeOK, MayCall, NEW s \in DOMAIN records,
         StartRefused(s) \/ StartLaunched(s) \/ StartRaised(s)
  PROVE  TypeOK'
<1>1. records[s] \in Record /\ s \in SessionId
  BY DEF TypeOK
<1>2. \A h : Launchable(h) \subseteq Executions
  BY ExecutionsAssumption DEF Launchable
<1>3. CASE StartRefused(s)
  BY <1>3 DEF StartRefused, Raise, TypeOK, Results, Errors
<1>4. CASE StartLaunched(s)
  <2>1. PICK e \in Launchable(records[s].request.harness) :
          /\ \/ Launch(e, s, "running")
             \/ e \notin RemoteExecutions /\ Launch(e, s, "failed")
          /\ records' = [records EXCEPT ![s] = Started(records[s], e)]
          /\ RecordEvent(s, records[s].status, "running", "ok")
    BY <1>4 DEF StartLaunched
  <2>2. execution' \in [Executions -> ExecutionState]
    BY <2>1 DEF Launch, TypeOK, ExecutionState, Live, Terminal
  <2>3. owner' \in [Executions -> SessionId]
    BY <2>1, <1>1 DEF Launch, TypeOK
  <2>4. trail' \in Seq(Event) /\ result' \in Results
    BY <2>1, <1>1, RecordEventType DEF Record, Status, Results
  <2>5. DOMAIN records' = DOMAIN records
    BY <2>1
  <2>6. records' \in [DOMAIN records -> Record]
    <3>1. Started(records[s], e) \in Record
      BY <1>1, <1>2 DEF Record, Status, Started
    <3>2. records \in [DOMAIN records -> Record]
      BY DEF TypeOK
    <3> QED
      BY <2>1, <3>1, <3>2
  <2>7. \A t \in DOMAIN records' :
          records'[t].external # NoExecution =>
            execution'[records'[t].external] # "absent"
    BY <2>1, <2>5, <1>1, <1>2 DEF TypeOK, Launch, Record, Started
  <2> QED
    BY <1>4, <2>2, <2>3, <2>4, <2>5, <2>6, <2>7
    DEF TypeOK, StartLaunched, MayCall
<1>5. CASE StartRaised(s)
  <2>1. execution' \in [Executions -> ExecutionState]
    BY <1>5 DEF StartRaised, Launch, TypeOK, ExecutionState, Live
  <2>2. owner' \in [Executions -> SessionId]
    BY <1>1, <1>5 DEF StartRaised, Launch, TypeOK
  <2>3. \A e \in Executions : execution[e] # "absent" => execution'[e] # "absent"
    BY <1>5 DEF StartRaised, Launch, TypeOK
  <2>4. UNCHANGED <<records, trail, waiting, expired>> /\ result' \in Results
    BY <1>5 DEF StartRaised, Raise, Results, Errors
  <2> QED
    BY <2>1, <2>2, <2>3, <2>4 DEF TypeOK, Record
<1> QED
  BY <1>3, <1>4, <1>5

\* transition() keeps the types.
LEMMA TransitionType ==
  ASSUME TypeOK, MayCall, NEW s \in DOMAIN records, NEW st \in Status,
         Transition(s, st)
  PROVE  TypeOK'
<1>1. MoveTo(s, st, "ok") /\ "ok" \in Results
  BY DEF Transition, Results
<1> QED
  BY <1>1, MoveToType DEF Transition, TypeOK, MayCall

\* harness.cancel leaves a launched execution launched, in a reportable state.
LEMMA AfterCancelType ==
  ASSUME TypeOK, NEW e \in Executions, execution[e] # "absent",
         NEW state \in StatesAfterCancel(e)
  PROVE  /\ state \in ExecutionState \ {"absent"}
         /\ Reported(state) \in Results
BY DEF StatesAfterCancel, Reported, TypeOK, ExecutionState, Live, Terminal, Results

\* So does one that raises.
LEMMA AfterFailedCancelType ==
  ASSUME TypeOK, NEW e \in Executions, execution[e] # "absent",
         NEW state \in StatesAfterFailedCancel(e)
  PROVE  state \in ExecutionState \ {"absent"}
BY AfterCancelType DEF StatesAfterFailedCancel, TypeOK, ExecutionState, Live

\* A cancellation that raises touches the execution alone.
LEMMA FailedCancelType ==
  ASSUME TypeOK, NEW s \in DOMAIN records, CancelRaised(s) \/ WaitCancelRaised(s)
  PROVE  TypeOK'
<1> DEFINE e == records[s].external
<1>1. e \in Executions /\ execution[e] # "absent"
  BY DEF CancelRaised, WaitCancelRaised, TypeOK, Record
<1>2. PICK state \in StatesAfterFailedCancel(e) :
        execution' = [execution EXCEPT ![e] = state]
  BY DEF CancelRaised, WaitCancelRaised
<1>3. state \in ExecutionState \ {"absent"}
  BY <1>1, AfterFailedCancelType
<1>4. /\ execution' \in [Executions -> ExecutionState]
      /\ \A x \in Executions : execution[x] # "absent" => execution'[x] # "absent"
  BY <1>2, <1>3 DEF TypeOK
<1>5. /\ UNCHANGED <<records, trail, owner>>
      /\ result' \in Results
      /\ waiting' \subseteq waiting
      /\ expired' \in BOOLEAN
  BY DEF CancelRaised, WaitCancelRaised, Raise, TypeOK, Results, Errors
<1> QED
  BY <1>4, <1>5 DEF TypeOK, Record

\* cancel() keeps the types.
LEMMA CancelType ==
  ASSUME TypeOK, MayCall, NEW s \in DOMAIN records, Cancel(s)
  PROVE  TypeOK'
<1>1. "cancelled" \in Status /\ "ok" \in Results
  BY DEF Status, Results
<1>2. CASE CancelNotStarted(s)
  BY <1>1, <1>2, MoveToType DEF CancelNotStarted, TypeOK, MayCall
<1>3. CASE CancelStarted(s)
  <2> DEFINE e == records[s].external
  <2>1. e \in Executions /\ execution[e] # "absent"
    BY <1>3 DEF CancelStarted, TypeOK, Record
  <2>2. PICK state \in StatesAfterCancel(e) :
          execution' = [execution EXCEPT ![e] = state]
    BY <1>3 DEF CancelStarted
  <2>3. state \in ExecutionState \ {"absent"}
    BY <2>1, AfterCancelType
  <2>4. MoveTo(s, "cancelled", "ok")
    BY <1>3 DEF CancelStarted
  <2> QED
    BY <1>1, <1>3, <2>1, <2>2, <2>3, <2>4, MoveToType
    DEF CancelStarted, TypeOK, MayCall
<1>4. CASE CancelRaised(s)
  BY <1>4, FailedCancelType
<1> QED
  BY <1>2, <1>3, <1>4 DEF Cancel

\* Entering wait() keeps the types.
LEMMA WaitBeginType ==
  ASSUME TypeOK, NEW s \in DOMAIN records, WaitBegin(s)
  PROVE  TypeOK'
BY DEF WaitBegin, TypeOK, Results, Errors

\* An iteration of wait() keeps the types.
LEMMA WaitStepType ==
  ASSUME TypeOK, WaitStep
  PROVE  TypeOK'
<1>1. CASE DeadlinePasses
  BY <1>1 DEF DeadlinePasses, TypeOK, Results
<1>2. ASSUME NEW s \in DOMAIN records, WaitSeesEnd(s)
      PROVE  TypeOK'
  BY <1>2 DEF WaitSeesEnd, TypeOK, Results
<1>3. ASSUME NEW s \in DOMAIN records, WaitRaised(s)
      PROVE  TypeOK'
  BY <1>3 DEF WaitRaised, TypeOK, Results, Errors
<1>4. ASSUME NEW s \in DOMAIN records, WaitTimesOut(s)
      PROVE  TypeOK'
  <2> DEFINE e == records[s].external
  <2>1. e \in Executions /\ execution[e] # "absent"
    BY <1>4 DEF WaitTimesOut, TypeOK, Record
  <2>2. PICK state \in StatesAfterCancel(e) :
          /\ execution' = [execution EXCEPT ![e] = state]
          /\ \E done \in {Reported(state), "harness_error"} :
               MoveTo(s, "cancelled", done)
    BY <1>4 DEF WaitTimesOut
  <2>10. PICK report \in {Reported(state), "harness_error"} :
           MoveTo(s, "cancelled", report)
    BY <2>2
  <2>3. state \in ExecutionState \ {"absent"} /\ report \in Results
    BY <2>1, AfterCancelType DEF Results, Errors
  <2>4. "cancelled" \in Status
    BY DEF Status
  <2>5. /\ DOMAIN records' = DOMAIN records
        /\ records' \in [DOMAIN records -> Record]
        /\ \A t \in DOMAIN records : records'[t].external = records[t].external
        /\ trail' \in Seq(Event)
        /\ result' \in Results
    BY <2>10, <2>3, <2>4, MoveToType
  <2>6. /\ execution' \in [Executions -> ExecutionState]
        /\ \A x \in Executions : execution[x] # "absent" => execution'[x] # "absent"
    BY <2>2, <2>3 DEF TypeOK
  <2>7. waiting' = {} /\ expired' \in BOOLEAN /\ owner' = owner
    BY <1>4 DEF WaitTimesOut
  <2>8. \A t \in DOMAIN records' :
          records'[t].external # NoExecution =>
            execution'[records'[t].external] # "absent"
    BY <2>5, <2>6 DEF TypeOK, Record
  <2>9. IsFiniteSet(DOMAIN records)
    BY DEF TypeOK
  <2> HIDE DEF e
  <2> QED
    BY <2>5, <2>6, <2>7, <2>8, <2>9 DEF TypeOK
<1> QED
  BY <1>1, <1>2, <1>3, <1>4, FailedCancelType DEF WaitStep

\* An execution that ends outside keeps the types.
LEMMA ExecutionEndsType ==
  ASSUME TypeOK, NEW e \in Executions, ExecutionEnds(e)
  PROVE  TypeOK'
BY DEF ExecutionEnds, TypeOK, ExecutionState, Live, Terminal, Results

\* A new manager is well typed.
LEMMA InitType == Init => TypeOK
<1> SUFFICES ASSUME Init PROVE TypeOK
  OBVIOUS
<1>1. DOMAIN records = {}
  BY DEF Init
<1>2. IsFiniteSet(DOMAIN records)
  BY <1>1, FS_EmptySet
<1>3. NoSession \in SessionId
  <2>1. <<>> \in Name
    BY EmptySeq DEF Name
  <2> QED
    BY <2>1 DEF NoSession, SessionId
<1>4. /\ DOMAIN records \subseteq SessionId
      /\ records \in [DOMAIN records -> Record]
      /\ \A s \in DOMAIN records :
           records[s].external # NoExecution =>
             execution[records[s].external] # "absent"
  BY <1>1 DEF Init
<1>5. trail \in Seq(Event)
  BY EmptySeq DEF Init
<1>6. /\ execution \in [Executions -> ExecutionState]
      /\ owner \in [Executions -> SessionId]
      /\ waiting = {}
      /\ expired \in BOOLEAN
      /\ result \in Results
  BY <1>3 DEF Init, ExecutionState, Results
<1> QED
  BY <1>2, <1>4, <1>5, <1>6 DEF TypeOK

\* Every step keeps the types.
LEMMA NextType == TypeOK /\ [Next]_vars => TypeOK'
<1> SUFFICES ASSUME TypeOK, [Next]_vars PROVE TypeOK'
  OBVIOUS
<1>1. CASE Call
  BY <1>1, PlanType, StartType, TransitionType, CancelType, WaitBeginType
  DEF Call
<1>2. CASE WaitStep
  BY <1>2, WaitStepType
<1>3. CASE \E e \in Executions : ExecutionEnds(e)
  BY <1>3, ExecutionEndsType
<1>4. CASE UNCHANGED vars
  BY <1>4 DEF vars, TypeOK
<1> QED
  BY <1>1, <1>2, <1>3, <1>4 DEF Next

\* Every variable keeps its type, in particular a record never points at an
\* execution that was not launched (SessionManager.start stores the id only
\* after harness.start returned one).
THEOREM TypeCorrect == Spec => []TypeOK
BY InitType, NextType, PTL DEF Spec

-----------------------------------------------------------------------------
\* Session ids are never reused.

\* Only plan() adds a record; no step changes the request of one, removes it
\* or takes an attempt back.
LEMMA RecordsKept ==
  ASSUME TypeOK, [Next]_vars
  PROVE  \/ \E q \in Requests : Plan(q)
         \/ /\ DOMAIN records' = DOMAIN records
            /\ \A s \in DOMAIN records :
                 /\ records'[s].request = records[s].request
                 /\ records'[s].attempt >= records[s].attempt
<1> DEFINE Kept == /\ DOMAIN records' = DOMAIN records
                   /\ \A s \in DOMAIN records :
                        /\ records'[s].request = records[s].request
                        /\ records'[s].attempt >= records[s].attempt
<1>1. \A s \in DOMAIN records : records[s].attempt >= records[s].attempt
  BY DEF TypeOK, Record
<1>2. ASSUME UNCHANGED records PROVE Kept
  BY <1>1, <1>2
<1>3. ASSUME NEW s \in DOMAIN records, NEW st \in Status,
             NEW done \in Results, MoveTo(s, st, done)
      PROVE  Kept
  BY <1>1, <1>3, MoveToType
<1>4. ASSUME NEW s \in DOMAIN records, StartLaunched(s)
      PROVE  Kept
  <2>1. PICK e : records' = [records EXCEPT ![s] = Started(records[s], e)]
    BY <1>4 DEF StartLaunched
  <2>2. DOMAIN records' = DOMAIN records
    BY <2>1
  <2>3. records[s].attempt + 1 >= records[s].attempt
    BY DEF TypeOK, Record
  <2> QED
    BY <1>1, <2>1, <2>2, <2>3 DEF Started
<1>5. ASSUME NEW s \in DOMAIN records, Cancel(s) \/ WaitTimesOut(s)
      PROVE  Kept
  <2>1. "cancelled" \in Status /\ "ok" \in Results
    BY DEF Status, Results
  <2>2. CASE CancelNotStarted(s) \/ CancelStarted(s)
    BY <1>3, <2>1, <2>2 DEF CancelNotStarted, CancelStarted
  <2>3. CASE CancelRaised(s)
    BY <1>2, <2>3 DEF CancelRaised, Raise
  <2>4. CASE WaitTimesOut(s)
    <3> DEFINE e == records[s].external
    <3>1. e \in Executions /\ execution[e] # "absent"
      BY <2>4 DEF WaitTimesOut, TypeOK, Record
    <3>2. PICK state \in StatesAfterCancel(e) :
            \E done \in {Reported(state), "harness_error"} :
              MoveTo(s, "cancelled", done)
      BY <2>4 DEF WaitTimesOut
    <3>3. Reported(state) \in Results /\ "harness_error" \in Results
      BY <3>1, AfterCancelType DEF Results, Errors
    <3> QED
      BY <1>3, <2>1, <3>2, <3>3
  <2> QED
    BY <1>5, <2>2, <2>3, <2>4 DEF Cancel
<1>6. CASE Call
  <2>1. ASSUME NEW s \in DOMAIN records,
               StartRefused(s) \/ StartRaised(s) \/ WaitBegin(s)
        PROVE  Kept
    BY <1>2, <2>1 DEF StartRefused, StartRaised, WaitBegin, Raise
  <2>2. ASSUME NEW s \in DOMAIN records, NEW st \in Status, Transition(s, st)
        PROVE  Kept
    BY <1>3, <2>2 DEF Transition, Results
  <2> QED
    BY <1>4, <1>5, <1>6, <2>1, <2>2 DEF Call
<1>7. CASE WaitStep
  BY <1>2, <1>5, <1>7
  DEF WaitStep, DeadlinePasses, WaitSeesEnd, WaitRaised, WaitCancelRaised, Raise
<1>8. CASE (\E e \in Executions : ExecutionEnds(e)) \/ UNCHANGED vars
  BY <1>2, <1>8 DEF ExecutionEnds, vars
<1> QED
  BY <1>6, <1>7, <1>8 DEF Next

\* A concatenation starts with what its first part starts with.
LEMMA ConcatKeepsFirst ==
  ASSUME NEW a \in Seq(STRING), NEW b \in Seq(STRING), Len(a) >= 1
  PROVE  /\ a \o b \in Seq(STRING)
         /\ Len(a \o b) >= 1
         /\ (a \o b)[1] = a[1]
<1>1. Len(a) \in Nat /\ Len(b) \in Nat
  BY LenProperties
<1>2. a \o b \in Seq(STRING) /\ Len(a \o b) = Len(a) + Len(b)
  BY ConcatProperties
<1>3. 1 \in 1..(Len(a) + Len(b)) /\ 1 <= Len(a)
  BY <1>1
<1>4. \A i \in 1..(Len(a) + Len(b)) :
        (a \o b)[i] = IF i <= Len(a) THEN a[i] ELSE b[i - Len(a)]
  BY ConcatProperties
<1>5. (a \o b)[1] = a[1]
  BY <1>3, <1>4
<1> QED
  BY <1>1, <1>2, <1>5

\* The first segment of a full name is the run when runs have no ":".
LEMMA NameGivesRun ==
  ASSUME ColonFreeRuns, NEW q \in Requests, NEW r \in Requests,
         FullName(q) = FullName(r)
  PROVE  q.run = r.run
<1>1. \A x \in Requests :
        /\ x.run \in Name /\ x.increment \in Name /\ x.role \in Name
        /\ Len(x.run) = 1
  BY RequestsAssumption DEF Request, ColonFreeRuns
<1>2. ASSUME NEW x \in Requests PROVE FullName(x)[1] = x.run[1]
  <2>0. Len(x.run) = 1
    BY <1>1
  <2>1. x.run \in Seq(STRING) /\ x.increment \in Seq(STRING)
    BY <1>1 DEF Name
  <2>2. /\ x.run \o x.increment \in Seq(STRING)
        /\ Len(x.run \o x.increment) >= 1
        /\ (x.run \o x.increment)[1] = x.run[1]
    <3>1. Len(x.run) >= 1
      BY <2>0
    <3> QED
      BY <2>1, <3>1, ConcatKeepsFirst
  <2>3. x.role \in Seq(STRING)
    BY <1>1 DEF Name
  <2>4. ((x.run \o x.increment) \o x.role)[1] = (x.run \o x.increment)[1]
    BY <2>2, <2>3, ConcatKeepsFirst
  <2> QED
    BY <2>2, <2>4 DEF FullName
<1>3. q.run[1] = r.run[1]
  BY <1>2
<1> QED
  BY <1>1, <1>3, SeqEqual DEF Name

\* plan() computes an id that no record has.
LEMMA PlannedIdIsFresh ==
  ASSUME TypeOK, IdsNumbered, ColonFreeRuns, NEW q \in Requests
  PROVE  PlannedId(q) \notin DOMAIN records
<1> DEFINE s == PlannedId(q)
<1> SUFFICES ASSUME s \in DOMAIN records PROVE FALSE
  OBVIOUS
<1>1. records[s].request \in Requests
  BY DEF TypeOK, Record
<1>2. s[1] = FullName(q) /\ s[2] = Cardinality(SameRun(q.run)) + 1
  BY DEF PlannedId
<1>3. records[s].request.run = q.run
  BY <1>1, <1>2, NameGivesRun DEF IdsNumbered
<1>4. s[2] \in 1..Cardinality(SameRun(q.run))
  BY <1>3 DEF IdsNumbered
<1>5. Cardinality(SameRun(q.run)) \in Nat
  BY SameRunFinite, FS_CardinalityType
<1> QED
  BY <1>2, <1>4, <1>5

\* Every step keeps the numbering of session ids.
LEMMA IdsNumberedKept ==
  ASSUME TypeOK, ColonFreeRuns, IdsNumbered, [Next]_vars
  PROVE  IdsNumbered'
<1>1. ASSUME NEW q \in Requests, Plan(q)
      PROVE  IdsNumbered'
  <2> DEFINE new == PlannedId(q)
             record == [request |-> q, status |-> "planned",
                        external |-> NoExecution, attempt |-> 0]
  <2>1. new \notin DOMAIN records
    BY PlannedIdIsFresh
  <2>2. /\ records' = [s \in DOMAIN records \cup {new} |->
                        IF s = new THEN record ELSE records[s]]
        /\ DOMAIN records' = DOMAIN records \cup {new}
    BY <1>1 DEF Plan
  <2> DEFINE After(run) == {s \in DOMAIN records' : records'[s].request.run = run}
  <2>3. ASSUME NEW run
        PROVE  After(run) = IF run = q.run THEN SameRun(run) \cup {new}
                                           ELSE SameRun(run)
    BY <2>1, <2>2 DEF SameRun
  <2>4. ASSUME NEW run
        PROVE  /\ Cardinality(SameRun(run)) \in Nat
               /\ Cardinality(After(run)) =
                    IF run = q.run THEN Cardinality(SameRun(run)) + 1
                                   ELSE Cardinality(SameRun(run))
    <3>1. IsFiniteSet(SameRun(run)) /\ Cardinality(SameRun(run)) \in Nat
      BY SameRunFinite, FS_CardinalityType
    <3>2. new \notin SameRun(run)
      BY <2>1 DEF SameRun
    <3>3. Cardinality(SameRun(run) \cup {new}) = Cardinality(SameRun(run)) + 1
      BY <3>1, <3>2, FS_AddElement
    <3> HIDE DEF After, new
    <3> QED
      BY <2>3, <3>1, <3>3
  <2> HIDE DEF After
  <2>5. ASSUME NEW s \in DOMAIN records, s # new
        PROVE  /\ s[1] = FullName(records'[s].request)
               /\ s[2] \in 1..Cardinality(After(records'[s].request.run))
    <3>1. records'[s].request = records[s].request
      BY <2>2, <2>5
    <3>2. /\ s[1] = FullName(records[s].request)
          /\ s[2] \in 1..Cardinality(SameRun(records[s].request.run))
      BY DEF IdsNumbered
    <3> QED
      BY <2>4, <3>1, <3>2
  <2>6. /\ new[1] = FullName(records'[new].request)
        /\ new[2] \in 1..Cardinality(After(records'[new].request.run))
    <3>1. records'[new].request = q
      BY <2>2
    <3>2. new[1] = FullName(q) /\ new[2] = Cardinality(SameRun(q.run)) + 1
      BY DEF PlannedId
    <3> HIDE DEF new
    <3> QED
      BY <2>4, <3>1, <3>2
  <2>7. \A s \in DOMAIN records' :
          /\ s[1] = FullName(records'[s].request)
          /\ s[2] \in 1..Cardinality(After(records'[s].request.run))
    BY <2>2, <2>5, <2>6
  <2> QED
    BY <2>7 DEF IdsNumbered, SameRun, After, FullName
<1>2. ASSUME DOMAIN records' = DOMAIN records,
             \A s \in DOMAIN records : records'[s].request = records[s].request
      PROVE  IdsNumbered'
  <2> DEFINE After(run) == {s \in DOMAIN records' : records'[s].request.run = run}
  <2>1. \A run : After(run) = SameRun(run)
    BY <1>2 DEF SameRun
  <2> HIDE DEF After
  <2>2. \A s \in DOMAIN records' :
          /\ s[1] = FullName(records'[s].request)
          /\ s[2] \in 1..Cardinality(After(records'[s].request.run))
    BY <1>2, <2>1 DEF IdsNumbered
  <2> QED
    BY <2>2 DEF IdsNumbered, SameRun, After, FullName
<1> QED
  BY <1>1, <1>2, RecordsKept

\* No session, no number.
LEMMA IdsNumberedInit == Init => IdsNumbered
BY DEF Init, IdsNumbered

\* Session ids are numbered within their run, for ever.
THEOREM IdsStayNumbered ==
  ASSUME ColonFreeRuns
  PROVE  Spec => []IdsNumbered
<1>1. TypeOK /\ IdsNumbered /\ [Next]_vars => IdsNumbered'
  BY IdsNumberedKept
<1> QED
  BY <1>1, IdsNumberedInit, TypeCorrect, PTL DEF Spec

\* plan() gives each session a record of its own: as long as run ids have no
\* ":", no later call replaces its request, removes it or takes an attempt
\* back.
THEOREM IdsNeverReused ==
  ASSUME ColonFreeRuns
  PROVE  Spec => PlanNeverOverwrites
<1> DEFINE Kept == \A s \in DOMAIN records :
                      /\ s \in DOMAIN records'
                      /\ records'[s].attempt >= records[s].attempt
                      /\ records'[s].request = records[s].request
<1>1. TypeOK /\ IdsNumbered /\ [Next]_vars => [Kept]_vars
  <2> SUFFICES ASSUME TypeOK, IdsNumbered, [Next]_vars PROVE Kept
    OBVIOUS
  <2>1. ASSUME NEW q \in Requests, Plan(q) PROVE Kept
    <3>1. PlannedId(q) \notin DOMAIN records
      BY PlannedIdIsFresh
    <3>2. \A s \in DOMAIN records : records[s].attempt \in Nat
      BY DEF TypeOK, Record
    <3> QED
      BY <2>1, <3>1, <3>2 DEF Plan
  <2> QED
    BY <2>1, RecordsKept
<1>2. Spec => []IdsNumbered
  BY IdsStayNumbered
<1> QED
  BY <1>1, <1>2, TypeCorrect, PTL DEF Spec, PlanNeverOverwrites

-----------------------------------------------------------------------------
\* What a step may do to the statuses and the trail.

\* Nothing.
StatusesStay ==
  /\ UNCHANGED trail
  /\ DOMAIN records' = DOMAIN records
  /\ \A t \in DOMAIN records : records'[t].status = records[t].status

\* The record of s moves along an allowed transition, and one event says so
\* unless the sink raised.
StatusMoves(s, st) ==
  /\ st \in AllowedTransitions[records[s].status]
  /\ DOMAIN records' = DOMAIN records
  /\ \A t \in DOMAIN records \ {s} : records'[t].status = records[t].status
  /\ records'[s].status = st
  /\ \/ trail' = Append(trail, [session |-> s, previous |-> records[s].status,
                                status |-> st])
     \/ SinkMayFail /\ UNCHANGED trail

\* Allowed transitions stay among the statuses, and none leads back to the
\* status of a new record.
LEMMA TransitionTargets ==
  \A from \in Status :
    /\ AllowedTransitions[from] \subseteq Status
    /\ "planned" \notin AllowedTransitions[from]
BY DEF AllowedTransitions, Status

\* transition() moves one status or leaves them all alone.
LEMMA MoveToSteps ==
  ASSUME TypeOK, NEW s \in DOMAIN records, NEW st, NEW done,
         MoveTo(s, st, done)
  PROVE  StatusesStay \/ StatusMoves(s, st)
<1>1. CASE st \in AllowedTransitions[records[s].status]
  BY <1>1 DEF MoveTo, RecordEvent, StatusMoves, TypeOK, Record
<1>2. CASE st \notin AllowedTransitions[records[s].status]
  BY <1>2 DEF MoveTo, Raise, StatusesStay
<1> QED
  BY <1>1, <1>2

\* start() moves its session to running and no other.
LEMMA StartSteps ==
  ASSUME TypeOK, NEW s \in DOMAIN records, StartLaunched(s)
  PROVE  StatusMoves(s, "running")
<1>1. PICK e : /\ records' = [records EXCEPT ![s] = Started(records[s], e)]
               /\ RecordEvent(s, records[s].status, "running", "ok")
  BY DEF StartLaunched
<1> QED
  BY <1>1 DEF Started, StartLaunched, MayStart, RecordEvent, StatusMoves

\* Every step plans a session, moves one status or leaves them all alone.
LEMMA StatusSteps ==
  ASSUME TypeOK, [Next]_vars
  PROVE  \/ \E q \in Requests : MayPlan /\ Plan(q)
         \/ \E s \in DOMAIN records, st \in Status : StatusMoves(s, st)
         \/ StatusesStay
<1> DEFINE Goal == \/ \E s \in DOMAIN records, st \in Status : StatusMoves(s, st)
                   \/ StatusesStay
<1> SUFFICES Goal \/ \E q \in Requests : MayPlan /\ Plan(q)
  OBVIOUS
<1>1. ASSUME UNCHANGED <<records, trail>> PROVE Goal
  BY <1>1 DEF StatusesStay
<1>2. ASSUME NEW s \in DOMAIN records, NEW st \in Status, NEW done,
             MoveTo(s, st, done)
      PROVE  Goal
  BY <1>2, MoveToSteps
<1>3. "cancelled" \in Status /\ "running" \in Status
  BY DEF Status
<1>4. ASSUME NEW s \in DOMAIN records, StartLaunched(s) PROVE Goal
  BY <1>3, <1>4, StartSteps
<1>5. ASSUME NEW s \in DOMAIN records, Cancel(s) \/ WaitTimesOut(s) PROVE Goal
  <2>1. UNCHANGED <<records, trail>> \/ \E done : MoveTo(s, "cancelled", done)
    BY <1>5 DEF Cancel, CancelNotStarted, CancelStarted, CancelRaised, Raise,
                WaitTimesOut
  <2> QED
    BY <1>1, <1>2, <1>3, <2>1
<1>6. ASSUME NEW s \in DOMAIN records,
             StartRefused(s) \/ StartRaised(s) \/ WaitBegin(s)
      PROVE  Goal
  BY <1>1, <1>6 DEF StartRefused, StartRaised, WaitBegin, Raise
<1>7. ASSUME NEW s \in DOMAIN records, NEW st \in Status, Transition(s, st)
      PROVE  Goal
  BY <1>2, <1>7 DEF Transition
<1> HIDE DEF Goal
<1>8. CASE Call
  BY <1>4, <1>5, <1>6, <1>7, <1>8 DEF Call
<1>9. CASE WaitStep
  BY <1>1, <1>5, <1>9
  DEF WaitStep, DeadlinePasses, WaitSeesEnd, WaitRaised, WaitCancelRaised, Raise
<1>10. CASE (\E e \in Executions : ExecutionEnds(e)) \/ UNCHANGED vars
  BY <1>1, <1>10 DEF ExecutionEnds, vars
<1> QED
  BY <1>8, <1>9, <1>10 DEF Next

-----------------------------------------------------------------------------
\* The trail is the history of the sessions.

\* An appended event comes after all others and changes none of them.
LEMMA AppendedTrail ==
  ASSUME TypeOK, NEW event, trail' = Append(trail, event)
  PROVE  /\ Len(trail) \in Nat /\ DOMAIN trail = 1..Len(trail)
         /\ Len(trail') = Len(trail) + 1
         /\ DOMAIN trail' = 1..(Len(trail) + 1)
         /\ \A i \in DOMAIN trail : trail'[i] = trail[i]
         /\ trail'[Len(trail) + 1] = event
<1> DEFINE n == Len(trail)
<1>1. n \in Nat /\ DOMAIN trail = 1..n
  BY LenProperties DEF TypeOK
<1>2. trail \in Seq({trail[i] : i \in DOMAIN trail} \cup {event})
  <2>1. trail \in Seq(Event)
    BY DEF TypeOK
  <2>2. trail \in [1..n -> {trail[i] : i \in DOMAIN trail} \cup {event}]
    BY <1>1, <2>1, LenProperties
  <2> QED
    BY <1>1, <2>2, SeqDef
<1>3. trail' \in Seq({trail[i] : i \in DOMAIN trail} \cup {event})
  BY <1>2, AppendProperties
<1>4. /\ Len(trail') = n + 1
      /\ \A i \in 1..n : trail'[i] = trail[i]
      /\ trail'[n + 1] = event
  BY <1>2, AppendProperties
<1>5. DOMAIN trail' = 1..(n + 1)
  BY <1>3, <1>4, LenProperties
<1> QED
  BY <1>1, <1>4, <1>5

\* Consecutive events after an append were consecutive before it, or are the
\* last one of the session and the new one.
LEMMA ConsecutiveAfterAppend ==
  ASSUME TypeOK, NEW event, trail' = Append(trail, event),
         NEW i \in DOMAIN trail', NEW j \in DOMAIN trail', Consecutive(i, j)'
  PROVE  /\ i \in DOMAIN trail
         /\ trail'[i] = trail[i]
         /\ \/ j \in DOMAIN trail /\ trail'[j] = trail[j] /\ Consecutive(i, j)
            \/ /\ trail'[j] = event
               /\ IsLast(i)
               /\ trail[i].session = event.session
<1> DEFINE n == Len(trail)
<1>1. /\ n \in Nat /\ DOMAIN trail = 1..n
      /\ DOMAIN trail' = 1..(n + 1)
      /\ \A k \in 1..n : trail'[k] = trail[k]
      /\ trail'[n + 1] = event
  BY AppendedTrail
<1>2. /\ i < j
      /\ trail'[i].session = trail'[j].session
      /\ \A k \in (i + 1)..(j - 1) : trail'[k].session # trail'[i].session
  BY DEF Consecutive
<1> HIDE DEF n
<1>3. i \in 1..n /\ trail'[i] = trail[i]
  BY <1>1, <1>2
<1>4. CASE j \in 1..n
  <2>1. trail'[j] = trail[j]
    BY <1>1, <1>4
  <2>2. \A k \in (i + 1)..(j - 1) : k \in 1..n /\ trail'[k] = trail[k]
    BY <1>1, <1>3, <1>4
  <2>3. Consecutive(i, j)
    BY <1>2, <1>3, <2>1, <2>2 DEF Consecutive
  <2> QED
    BY <1>1, <1>3, <1>4, <2>1, <2>3
<1>5. CASE j = n + 1
  <2>1. \A k \in (i + 1)..n :
          /\ k \in (i + 1)..(j - 1)
          /\ k \in 1..n /\ trail'[k] = trail[k]
    BY <1>1, <1>3, <1>5
  <2>2. IsLast(i)
    BY <1>2, <1>3, <2>1 DEF IsLast, n
  <2> QED
    BY <1>1, <1>2, <1>3, <1>5, <2>2
<1>6. j \in 1..n \/ j = n + 1
  BY <1>1
<1> QED
  BY <1>4, <1>5, <1>6

\* The last event of a session after an append was the last one before it, of
\* another session than the new one's, or is the new one.
LEMMA LastAfterAppend ==
  ASSUME TypeOK, NEW event, trail' = Append(trail, event),
         NEW i \in DOMAIN trail', IsLast(i)'
  PROVE  \/ trail'[i] = event
         \/ /\ i \in DOMAIN trail
            /\ trail'[i] = trail[i]
            /\ IsLast(i)
            /\ trail[i].session # event.session
<1> DEFINE n == Len(trail)
<1>1. /\ n \in Nat /\ DOMAIN trail = 1..n
      /\ Len(trail') = n + 1
      /\ DOMAIN trail' = 1..(n + 1)
      /\ \A k \in 1..n : trail'[k] = trail[k]
      /\ trail'[n + 1] = event
  BY AppendedTrail
<1>2. \A k \in (i + 1)..(n + 1) : trail'[k].session # trail'[i].session
  BY <1>1 DEF IsLast
<1> HIDE DEF n
<1>3. CASE i = n + 1
  BY <1>1, <1>3
<1>4. CASE i \in 1..n
  <2>1. n + 1 \in (i + 1)..(n + 1) /\ trail'[i] = trail[i]
    BY <1>1, <1>4
  <2>2. \A k \in (i + 1)..n :
          /\ k \in (i + 1)..(n + 1)
          /\ k \in 1..n /\ trail'[k] = trail[k]
    BY <1>1, <1>4
  <2>3. IsLast(i)
    BY <1>2, <2>1, <2>2 DEF IsLast, n
  <2> QED
    BY <1>1, <1>2, <1>4, <2>1, <2>3
<1> QED
  BY <1>1, <1>3, <1>4

\* An event that continues the status of its record, or opens a new session,
\* extends a history to a history.
LEMMA AppendKeepsHistory ==
  ASSUME TypeOK, TrailIsHistory,
         NEW s, NEW previous, NEW st,
         trail' = Append(trail, [session |-> s, previous |-> previous,
                                 status |-> st]),
         DOMAIN records' = DOMAIN records \cup {s},
         \A t \in DOMAIN records \ {s} : records'[t].status = records[t].status,
         records'[s].status = st,
         s \in DOMAIN records => previous = records[s].status,
         previous = NoStatus <=> st = "planned"
  PROVE  TrailIsHistory'
<1>1. PICK event : event = [session |-> s, previous |-> previous, status |-> st]
  OBVIOUS
<1>2. event.session = s /\ event.previous = previous /\ event.status = st
  BY <1>1
<1>3. trail' = Append(trail, event)
  BY <1>1
<1>4. /\ Len(trail) \in Nat /\ DOMAIN trail = 1..Len(trail)
      /\ DOMAIN trail' = 1..(Len(trail) + 1)
      /\ \A i \in DOMAIN trail : trail'[i] = trail[i]
      /\ trail'[Len(trail) + 1] = event
  BY <1>3, AppendedTrail
<1>5. /\ DOMAIN trail \subseteq DOMAIN trail'
      /\ Len(trail) + 1 \in DOMAIN trail'
      /\ \A i \in DOMAIN trail' : i \in DOMAIN trail \/ trail'[i] = event
  BY <1>4
<1>6. TrailChains'
  <2>1. ASSUME NEW i \in DOMAIN trail', NEW j \in DOMAIN trail',
               Consecutive(i, j)'
        PROVE  trail'[j].previous = trail'[i].status
    <3>1. /\ i \in DOMAIN trail
          /\ trail'[i] = trail[i]
          /\ \/ j \in DOMAIN trail /\ trail'[j] = trail[j] /\ Consecutive(i, j)
             \/ /\ trail'[j] = event
                /\ IsLast(i)
                /\ trail[i].session = s
      BY <1>2, <1>3, <2>1, ConsecutiveAfterAppend
    <3> QED
      BY <1>2, <3>1 DEF TrailIsHistory, TrailChains, TrailEndsAtRecord
  <2> QED
    BY <2>1 DEF TrailChains
<1>7. TrailEndsAtRecord'
  <2>1. ASSUME NEW i \in DOMAIN trail'
        PROVE  trail'[i].session \in DOMAIN records'
    BY <1>2, <1>4, <1>5 DEF TrailIsHistory, TrailEndsAtRecord
  <2>2. ASSUME NEW i \in DOMAIN trail', IsLast(i)'
        PROVE  trail'[i].status = records'[trail'[i].session].status
    <3>1. \/ trail'[i] = event
          \/ /\ i \in DOMAIN trail
             /\ trail'[i] = trail[i]
             /\ IsLast(i)
             /\ trail[i].session # s
      BY <1>2, <1>3, <2>2, LastAfterAppend
    <3> QED
      BY <1>2, <3>1 DEF TrailIsHistory, TrailEndsAtRecord
  <2> QED
    BY <2>1, <2>2 DEF TrailEndsAtRecord
<1>8. TrailStartsPlanned'
  <2>1. ASSUME NEW t \in DOMAIN records'
        PROVE  \E i \in DOMAIN trail' : trail'[i].session = t
    BY <1>2, <1>4, <1>5 DEF TrailIsHistory, TrailStartsPlanned
  <2>2. ASSUME NEW i \in DOMAIN trail'
        PROVE  trail'[i].previous = NoStatus <=> trail'[i].status = "planned"
    BY <1>2, <1>4, <1>5 DEF TrailIsHistory, TrailStartsPlanned
  <2> QED
    BY <2>1, <2>2 DEF TrailStartsPlanned, NoStatus
<1> QED
  BY <1>6, <1>7, <1>8 DEF TrailIsHistory

\* Nothing that leaves the trail and every status alone disturbs the history.
LEMMA StutterKeepsHistory ==
  ASSUME TrailIsHistory, UNCHANGED trail, DOMAIN records' = DOMAIN records,
         \A t \in DOMAIN records : records'[t].status = records[t].status
  PROVE  TrailIsHistory'
<1>1. TrailChains'
  BY DEF TrailIsHistory, TrailChains, Consecutive
<1>2. TrailEndsAtRecord'
  BY DEF TrailIsHistory, TrailEndsAtRecord, IsLast
<1>3. TrailStartsPlanned'
  BY DEF TrailIsHistory, TrailStartsPlanned
<1> QED
  BY <1>1, <1>2, <1>3 DEF TrailIsHistory

\* plan() adds a session whose history begins on the trail.
LEMMA PlanKeepsHistory ==
  ASSUME TypeOK, IdsNumbered, ColonFreeRuns, TrailIsHistory, ~SinkMayFail,
         NEW q \in Requests, Plan(q)
  PROVE  TrailIsHistory'
<1> DEFINE new == PlannedId(q)
<1>1. new \notin DOMAIN records
  BY PlannedIdIsFresh
<1>2. /\ DOMAIN records' = DOMAIN records \cup {new}
      /\ \A t \in DOMAIN records \ {new} : records'[t].status = records[t].status
      /\ records'[new].status = "planned"
  BY DEF Plan
<1>3. trail' = Append(trail, [session |-> new, previous |-> NoStatus,
                              status |-> "planned"])
  BY DEF Plan, RecordEvent
<1> HIDE DEF new
<1> QED
  BY <1>1, <1>2, <1>3, AppendKeepsHistory

\* With a sink that never raises, every step keeps the trail a history.
LEMMA HistoryKept ==
  ASSUME TypeOK, IdsNumbered, ColonFreeRuns, ~SinkMayFail, TrailIsHistory,
         [Next]_vars
  PROVE  TrailIsHistory'
<1>1. CASE StatusesStay
  BY <1>1, StutterKeepsHistory DEF StatusesStay
<1>2. ASSUME NEW s \in DOMAIN records, NEW st \in Status, StatusMoves(s, st)
      PROVE  TrailIsHistory'
  <2>1. records[s].status \in Status /\ records[s].status # NoStatus
    BY DEF TypeOK, Record, Status, NoStatus
  <2>2. st # "planned"
    BY <1>2, <2>1, TransitionTargets DEF StatusMoves
  <2> QED
    BY <1>2, <2>1, <2>2, AppendKeepsHistory DEF StatusMoves
<1> QED
  BY <1>1, <1>2, PlanKeepsHistory, StatusSteps

\* An empty trail is the history of no session.
LEMMA HistoryInit == Init => TrailIsHistory
BY DEF Init, TrailIsHistory, TrailChains, TrailEndsAtRecord, TrailStartsPlanned

\* The trail file alone tells what happened to every session, and ends where
\* the records are: transition() and start() update the record and write the
\* event that continues the previous one, or do neither.  It holds as long as
\* the sink never raises and run ids have no ":".
THEOREM TrailTellsHistory ==
  ASSUME ColonFreeRuns, ~SinkMayFail
  PROVE  Spec => []TrailIsHistory
<1>1. TypeOK /\ IdsNumbered /\ TrailIsHistory /\ [Next]_vars => TrailIsHistory'
  BY HistoryKept
<1>2. Spec => []IdsNumbered
  BY IdsStayNumbered
<1> QED
  BY <1>1, <1>2, HistoryInit, TypeCorrect, PTL DEF Spec

-----------------------------------------------------------------------------
\* With a sink that may raise, the trail is still in order.

\* A status is reachable from itself, and whatever an allowed transition leads
\* to from a reachable status is reachable.
LEMMA ReachableSteps ==
  ASSUME NEW from \in Status
  PROVE  /\ from \in Reachable[from]
         /\ \A st \in Reachable[from] :
              st \in Status /\ AllowedTransitions[st] \subseteq Reachable[from]
<1>1. \A st \in Status : AllowedTransitions[st] \subseteq Status
  BY DEF AllowedTransitions, Status
<1>2. Reachable[from] =
        {x \in Status : \A C \in ClosedStatuses : from \in C => x \in C}
  BY DEF Reachable
<1>3. ASSUME NEW st \in Reachable[from], NEW next \in AllowedTransitions[st]
      PROVE  next \in Reachable[from]
  <2>1. st \in Status /\ next \in Status
    BY <1>1, <1>2, <1>3
  <2>2. ASSUME NEW C \in ClosedStatuses, from \in C PROVE next \in C
    <3>1. st \in C
      BY <1>2, <2>2
    <3> QED
      BY <1>3, <3>1 DEF ClosedStatuses
  <2> QED
    BY <1>2, <2>1, <2>2
<1> QED
  BY <1>2, <1>3

\* The events are those of sessions that have a record, and in order.
OrderInv ==
  /\ \A i \in DOMAIN trail : trail[i].session \in DOMAIN records
  /\ TrailIsOrdered

\* The update of a record to a status reachable from the one it had, logged or
\* not, and the plan of a session that had no record keep the trail in order.
LEMMA UnloggedKeepsOrder ==
  ASSUME TypeOK, OrderInv, UNCHANGED trail,
         DOMAIN records \subseteq DOMAIN records',
         \A t \in DOMAIN records :
           records'[t].status \in
             {records[t].status} \cup AllowedTransitions[records[t].status]
  PROVE  OrderInv'
<1>1. \A i \in DOMAIN trail : trail[i] \in Event
  BY LenProperties DEF TypeOK
<1>2. \A i, j \in DOMAIN trail :
        Consecutive(i, j) => trail[j].previous \in Reachable[trail[i].status]
  BY DEF OrderInv, TrailIsOrdered
<1>3. \A i \in DOMAIN trail :
        IsLast(i) =>
          records'[trail[i].session].status \in Reachable[trail[i].status]
  <2> SUFFICES ASSUME NEW i \in DOMAIN trail, IsLast(i)
               PROVE  records'[trail[i].session].status
                        \in Reachable[trail[i].status]
    OBVIOUS
  <2>1. /\ trail[i].session \in DOMAIN records
        /\ records[trail[i].session].status \in Reachable[trail[i].status]
        /\ trail[i].status \in Status
    BY <1>1 DEF OrderInv, TrailIsOrdered, Event
  <2> QED
    BY <2>1, ReachableSteps
<1>4. TrailIsOrdered'
  BY <1>2, <1>3 DEF TrailIsOrdered, Consecutive, IsLast
<1> QED
  BY <1>4 DEF OrderInv

\* An event that starts at the status of its record extends the trail in order.
LEMMA LoggedKeepsOrder ==
  ASSUME TypeOK, OrderInv,
         NEW s, NEW previous, NEW st \in Status,
         trail' = Append(trail, [session |-> s, previous |-> previous,
                                 status |-> st]),
         DOMAIN records' = DOMAIN records \cup {s},
         \A t \in DOMAIN records \ {s} : records'[t].status = records[t].status,
         records'[s].status = st,
         s \in DOMAIN records => previous = records[s].status
  PROVE  OrderInv'
<1>1. PICK event : event = [session |-> s, previous |-> previous, status |-> st]
  OBVIOUS
<1>2. event.session = s /\ event.previous = previous /\ event.status = st
  BY <1>1
<1>3. trail' = Append(trail, event)
  BY <1>1
<1>4. \A i \in DOMAIN trail' : \/ i \in DOMAIN trail /\ trail'[i] = trail[i]
                               \/ trail'[i] = event
  BY <1>3, AppendedTrail
<1>5. \A i \in DOMAIN trail' : trail'[i].session \in DOMAIN records'
  BY <1>2, <1>4 DEF OrderInv
<1>6. ASSUME NEW i \in DOMAIN trail', NEW j \in DOMAIN trail',
             Consecutive(i, j)'
      PROVE  trail'[j].previous \in Reachable[trail'[i].status]
  <2>1. /\ i \in DOMAIN trail
        /\ trail'[i] = trail[i]
        /\ \/ j \in DOMAIN trail /\ trail'[j] = trail[j] /\ Consecutive(i, j)
           \/ /\ trail'[j] = event
              /\ IsLast(i)
              /\ trail[i].session = s
    BY <1>2, <1>3, <1>6, ConsecutiveAfterAppend
  <2> QED
    BY <1>2, <2>1 DEF OrderInv, TrailIsOrdered
<1>7. ASSUME NEW i \in DOMAIN trail', IsLast(i)'
      PROVE  records'[trail'[i].session].status \in Reachable[trail'[i].status]
  <2>1. \/ trail'[i] = event
        \/ /\ i \in DOMAIN trail
           /\ trail'[i] = trail[i]
           /\ IsLast(i)
           /\ trail[i].session # s
    BY <1>2, <1>3, <1>7, LastAfterAppend
  <2>2. CASE trail'[i] = event
    BY <1>2, <2>2, ReachableSteps
  <2> QED
    BY <2>1, <2>2 DEF OrderInv, TrailIsOrdered
<1>8. TrailIsOrdered'
  BY <1>6, <1>7 DEF TrailIsOrdered
<1> QED
  BY <1>5, <1>8 DEF OrderInv

\* plan() begins a session that the trail has not met.
LEMMA PlanKeepsOrder ==
  ASSUME TypeOK, IdsNumbered, ColonFreeRuns, OrderInv,
         NEW q \in Requests, Plan(q)
  PROVE  OrderInv'
<1>1. PICK new : new = PlannedId(q)
  OBVIOUS
<1>2. new \notin DOMAIN records
  BY <1>1, PlannedIdIsFresh
<1>3. /\ DOMAIN records' = DOMAIN records \cup {new}
      /\ \A t \in DOMAIN records \ {new} : records'[t].status = records[t].status
      /\ records'[new].status = "planned"
  BY <1>1 DEF Plan
<1>4. CASE UNCHANGED trail
  BY <1>2, <1>3, <1>4, UnloggedKeepsOrder
<1>5. CASE trail' = Append(trail, [session |-> new, previous |-> NoStatus,
                                   status |-> "planned"])
  BY <1>2, <1>3, <1>5, LoggedKeepsOrder DEF Status
<1> QED
  BY <1>1, <1>4, <1>5 DEF Plan, RecordEvent

\* Every step keeps the trail in order, whether the sink takes its event or
\* raises.
LEMMA OrderKept ==
  ASSUME TypeOK, IdsNumbered, ColonFreeRuns, OrderInv, [Next]_vars
  PROVE  OrderInv'
<1>1. CASE StatusesStay
  BY <1>1, UnloggedKeepsOrder DEF StatusesStay
<1>2. ASSUME NEW s \in DOMAIN records, NEW st \in Status, StatusMoves(s, st)
      PROVE  OrderInv'
  BY <1>2, LoggedKeepsOrder, UnloggedKeepsOrder DEF StatusMoves
<1> QED
  BY <1>1, <1>2, PlanKeepsOrder, StatusSteps

\* An empty trail is in order.
LEMMA OrderInit == Init => OrderInv
BY DEF Init, OrderInv, TrailIsOrdered

\* A sink that raises leaves gaps in the trail but never an event out of order
\* nor one the session has not been through (transition() and start() update
\* the record first, so what the next event starts from was reached), as long
\* as run ids have no ":".
THEOREM TrailStaysOrdered ==
  ASSUME ColonFreeRuns
  PROVE  Spec => []TrailIsOrdered
<1>1. TypeOK /\ IdsNumbered /\ OrderInv /\ [Next]_vars => OrderInv'
  BY OrderKept
<1>2. OrderInv => TrailIsOrdered
  BY DEF OrderInv
<1>3. Spec => []IdsNumbered
  BY IdsStayNumbered
<1> QED
  BY <1>1, <1>2, <1>3, OrderInit, TypeCorrect, PTL DEF Spec

-----------------------------------------------------------------------------
\* The trail implements the lifecycle promised to its readers.

\* Every session has a last event, and there are no more sessions than the
\* bound on plan() allows.
LastEventInv ==
  /\ \A s \in DOMAIN records :
       \E i \in DOMAIN trail : trail[i].session = s /\ IsLast(i)
  /\ Cardinality(DOMAIN records) <= MaxSessions

\* The invariants the refinement rests on.
LifecycleInv == TypeOK /\ IdsNumbered /\ TrailIsHistory /\ LastEventInv

\* The event of a session that has just been appended is its last one; the
\* last events of the others stay last.
LEMMA AppendKeepsLast ==
  ASSUME TypeOK, LastEventInv, NEW event, trail' = Append(trail, event),
         DOMAIN records' = DOMAIN records \cup {event.session},
         NEW s \in DOMAIN records'
  PROVE  \E i \in DOMAIN trail' : trail'[i].session = s /\ IsLast(i)'
<1>0. PICK n : n = Len(trail)
  OBVIOUS
<1>1. /\ n \in Nat /\ DOMAIN trail = 1..n
      /\ Len(trail') = n + 1
      /\ DOMAIN trail' = 1..(n + 1)
      /\ \A k \in 1..n : trail'[k] = trail[k]
      /\ trail'[n + 1] = event
  BY <1>0, AppendedTrail
<1>2. CASE s = event.session
  <2>1. n + 1 \in DOMAIN trail' /\ (n + 2)..(n + 1) = {}
    BY <1>1
  <2>2. IsLast(n + 1)'
    BY <1>1 DEF IsLast
  <2> QED
    BY <1>1, <1>2, <2>1, <2>2
<1>3. CASE s # event.session
  <2>1. PICK i \in 1..n : trail[i].session = s /\ IsLast(i)
    BY <1>1, <1>3 DEF LastEventInv
  <2>2. i \in DOMAIN trail' /\ trail'[i] = trail[i]
    BY <1>1
  <2>3. ASSUME NEW k \in (i + 1)..(n + 1)
        PROVE  trail'[k].session # trail'[i].session
    <3>1. CASE k = n + 1
      BY <1>1, <1>3, <2>1, <2>2, <3>1
    <3>2. CASE k \in (i + 1)..n
      <4>1. k \in 1..n
        BY <1>1, <3>2
      <4> QED
        BY <1>0, <1>1, <2>1, <2>2, <3>2, <4>1 DEF IsLast
    <3> QED
      BY <1>1, <2>1, <3>1, <3>2
  <2>4. IsLast(i)'
    BY <1>1, <2>3 DEF IsLast
  <2> QED
    BY <2>1, <2>2, <2>4
<1> QED
  BY <1>2, <1>3

\* Every step keeps the last event of a session at its record.
LEMMA LastEventKept ==
  ASSUME TypeOK, ~SinkMayFail, LastEventInv, [Next]_vars
  PROVE  LastEventInv'
<1>1. CASE StatusesStay
  BY <1>1 DEF StatusesStay, LastEventInv, IsLast
<1>2. ASSUME NEW s \in DOMAIN records, NEW st \in Status, StatusMoves(s, st)
      PROVE  LastEventInv'
  <2>1. PICK event : event = [session |-> s, previous |-> records[s].status,
                              status |-> st]
    OBVIOUS
  <2>2. /\ trail' = Append(trail, event)
        /\ DOMAIN records' = DOMAIN records \cup {event.session}
        /\ DOMAIN records' = DOMAIN records
    BY <1>2, <2>1 DEF StatusMoves
  <2>3. \A t \in DOMAIN records' :
          \E i \in DOMAIN trail' : trail'[i].session = t /\ IsLast(i)'
    BY <2>2, AppendKeepsLast
  <2> QED
    BY <2>2, <2>3 DEF LastEventInv
<1>3. ASSUME NEW q \in Requests, MayPlan, Plan(q)
      PROVE  LastEventInv'
  <2>1. PICK event : event = [session |-> PlannedId(q), previous |-> NoStatus,
                              status |-> "planned"]
    OBVIOUS
  <2>2. /\ trail' = Append(trail, event)
        /\ DOMAIN records' = DOMAIN records \cup {event.session}
    BY <1>3, <2>1 DEF Plan, RecordEvent
  <2>3. \A t \in DOMAIN records' :
          \E i \in DOMAIN trail' : trail'[i].session = t /\ IsLast(i)'
    BY <2>2, AppendKeepsLast
  <2>4. Cardinality(DOMAIN records') <= MaxSessions
    <3>1. IsFiniteSet(DOMAIN records) /\ Cardinality(DOMAIN records) \in Nat
      BY FS_CardinalityType DEF TypeOK
    <3>2. \/ Cardinality(DOMAIN records') = Cardinality(DOMAIN records)
          \/ Cardinality(DOMAIN records') = Cardinality(DOMAIN records) + 1
      BY <2>2, <3>1, FS_AddElement
    <3> QED
      BY <1>3, <3>1, <3>2, BoundsAssumption DEF MayPlan
  <2> QED
    BY <2>3, <2>4 DEF LastEventInv
<1> QED
  BY <1>1, <1>2, <1>3, StatusSteps

\* An empty trail has no last event.
LEMMA LastEventInit == Init => LastEventInv
BY FS_EmptySet, BoundsAssumption DEF Init, LastEventInv

\* What a reader of the trail takes for the phase of a session is the phase of
\* its record.
LEMMA PhaseOfRecords ==
  ASSUME TypeOK, TrailIsHistory, LastEventInv
  PROVE  TrailPhase = [s \in DOMAIN records |-> PhaseOf(records[s].status)]
<1>1. {trail[i].session : i \in DOMAIN trail} = DOMAIN records
  BY DEF TrailIsHistory, TrailEndsAtRecord, TrailStartsPlanned
<1>2. ASSUME NEW s \in DOMAIN records
      PROVE  trail[CHOOSE i \in DOMAIN trail :
                     trail[i].session = s /\ IsLast(i)].status
               = records[s].status
  <2>1. \E i \in DOMAIN trail : trail[i].session = s /\ IsLast(i)
    BY DEF LastEventInv
  <2>2. PICK last : last = CHOOSE i \in DOMAIN trail :
                             trail[i].session = s /\ IsLast(i)
    OBVIOUS
  <2>3. last \in DOMAIN trail /\ trail[last].session = s /\ IsLast(last)
    BY <2>1, <2>2
  <2>4. trail[last].status = records[s].status
    BY <2>3 DEF TrailIsHistory, TrailEndsAtRecord
  <2> QED
    BY <2>2, <2>4
<1> QED
  BY <1>1, <1>2 DEF TrailPhase

\* Along an allowed transition a session stays in its phase or goes to one the
\* lifecycle allows next.
LEMMA PhaseSteps ==
  ASSUME NEW from \in Status, NEW st \in AllowedTransitions[from]
  PROVE  /\ PhaseOf(from) \in Lifecycle!Phases
         /\ PhaseOf(st) \in Lifecycle!Phases
         /\ \/ PhaseOf(st) = PhaseOf(from)
            \/ PhaseOf(st) \in Lifecycle!NextPhases[PhaseOf(from)]
BY DEF AllowedTransitions, Status, PhaseOf, Lifecycle!Phases, Lifecycle!NextPhases

\* Every session id that exists is one plan() can be asked for.
LEMMA IdsArePlannable ==
  ASSUME TypeOK, IdsNumbered, Cardinality(DOMAIN records) <= MaxSessions
  PROVE  DOMAIN records \subseteq PlannableIds
<1> SUFFICES ASSUME NEW s \in DOMAIN records
             PROVE  s \in PlannableIds
  OBVIOUS
<1>1. PICK q \in Requests : q = records[s].request
  BY DEF TypeOK, Record
<1>2. s = <<s[1], s[2]>> /\ s[1] = FullName(q)
      /\ s[2] \in 1..Cardinality(SameRun(q.run))
  BY <1>1 DEF TypeOK, SessionId, IdsNumbered
<1>3. /\ Cardinality(SameRun(q.run)) \in Nat
      /\ Cardinality(DOMAIN records) \in Nat
      /\ Cardinality(SameRun(q.run)) <= Cardinality(DOMAIN records)
  <2>1. SameRun(q.run) \subseteq DOMAIN records /\ IsFiniteSet(DOMAIN records)
    BY DEF SameRun, TypeOK
  <2> QED
    BY <2>1, FS_Subset, FS_CardinalityType
<1>4. s[2] \in 1..MaxSessions
  BY <1>2, <1>3, BoundsAssumption
<1> QED
  BY <1>2, <1>4 DEF PlannableIds

\* A new manager is a new lifecycle.
LEMMA LifecycleInit == Init => Lifecycle!Init
<1> SUFFICES ASSUME Init PROVE TrailPhase = [s \in {} |-> "open"]
  BY DEF Lifecycle!Init
<1>1. {trail[i].session : i \in DOMAIN trail} = {}
  BY DEF Init
<1> QED
  BY <1>1 DEF TrailPhase

\* Every step of the manager is a step of the lifecycle or leaves the phases
\* alone.
LEMMA LifecycleStep ==
  ASSUME LifecycleInv, LifecycleInv', ColonFreeRuns, [Next]_vars
  PROVE  [Lifecycle!Next]_TrailPhase
<1>1. TrailPhase = [s \in DOMAIN records |-> PhaseOf(records[s].status)]
  BY PhaseOfRecords DEF LifecycleInv
<1>2. TrailPhase' = [s \in DOMAIN records' |-> PhaseOf(records'[s].status)]
  <2>1. (TrailPhase = [s \in DOMAIN records |-> PhaseOf(records[s].status)])'
    BY PhaseOfRecords, PTL DEF LifecycleInv
  <2> QED
    BY <2>1 DEF PhaseOf
<1>3. CASE StatusesStay
  BY <1>1, <1>2, <1>3 DEF StatusesStay
<1>4. ASSUME NEW s \in DOMAIN records, NEW st \in Status, StatusMoves(s, st)
      PROVE  [Lifecycle!Next]_TrailPhase
  <2>1. records[s].status \in Status /\ s \in PlannableIds
    BY IdsArePlannable DEF LifecycleInv, LastEventInv, TypeOK, Record
  <2>2. TrailPhase' = [TrailPhase EXCEPT ![s] = PhaseOf(st)]
    BY <1>1, <1>2, <1>4 DEF StatusMoves
  <2>3. TrailPhase[s] = PhaseOf(records[s].status) /\ s \in DOMAIN TrailPhase
    BY <1>1
  <2>4. CASE PhaseOf(st) = PhaseOf(records[s].status)
    BY <1>1, <2>2, <2>3, <2>4
  <2>5. CASE /\ PhaseOf(st) \in Lifecycle!Phases
             /\ PhaseOf(st) \in Lifecycle!NextPhases[PhaseOf(records[s].status)]
    BY <2>1, <2>2, <2>3, <2>5 DEF Lifecycle!Next, Lifecycle!Move
  <2> QED
    BY <1>4, <2>1, <2>4, <2>5, PhaseSteps DEF StatusMoves
<1>5. ASSUME NEW q \in Requests, Plan(q)
      PROVE  [Lifecycle!Next]_TrailPhase
  <2>1. PICK new : new = PlannedId(q)
    OBVIOUS
  <2>2. new \notin DOMAIN records
    BY <2>1, PlannedIdIsFresh DEF LifecycleInv
  <2>3. /\ DOMAIN records' = DOMAIN records \cup {new}
        /\ \A t \in DOMAIN records \ {new} : records'[t].status = records[t].status
        /\ records'[new].status = "planned"
    BY <1>5, <2>1 DEF Plan
  <2>4. new \in PlannableIds
    <3>1. (DOMAIN records \subseteq PlannableIds)'
      BY IdsArePlannable, PTL DEF LifecycleInv, LastEventInv
    <3> QED
      BY <2>3, <3>1
  <2>5. PhaseOf("planned") = "open"
    BY DEF PhaseOf
  <2>6. TrailPhase' = [t \in DOMAIN TrailPhase \cup {new} |->
                         IF t = new THEN "open" ELSE TrailPhase[t]]
    BY <1>1, <1>2, <2>2, <2>3, <2>5
  <2>7. new \notin DOMAIN TrailPhase
    BY <1>1, <2>2
  <2> QED
    BY <2>4, <2>6, <2>7 DEF Lifecycle!Next, Lifecycle!Open
<1> QED
  BY <1>3, <1>4, <1>5, StatusSteps DEF LifecycleInv

\* The session manager implements the lifecycle of SessionLifecycle through
\* its trail: settled work is only ever closed, an abandoned session never
\* comes back (AllowedTransitions, transition() and start()), as long as the
\* sink never raises and run ids have no ":".
THEOREM TrailImplementsLifecycle ==
  ASSUME ColonFreeRuns, ~SinkMayFail
  PROVE  Spec => LifecycleSpec
<1>1. TypeOK /\ LastEventInv /\ [Next]_vars => LastEventInv'
  BY LastEventKept
<1>2. LifecycleInv /\ LifecycleInv' /\ [Next]_vars => [Lifecycle!Next]_TrailPhase
  BY LifecycleStep
<1>3. Spec => []IdsNumbered
  BY IdsStayNumbered
<1>4. Spec => []TrailIsHistory
  BY TrailTellsHistory
<1>5. TypeOK /\ IdsNumbered /\ TrailIsHistory /\ LastEventInv => LifecycleInv
  BY DEF LifecycleInv
<1> QED
  BY <1>1, <1>2, <1>3, <1>4, <1>5, LastEventInit, LifecycleInit, TypeCorrect, PTL
  DEF Spec, LifecycleSpec, Lifecycle!Spec

-----------------------------------------------------------------------------
\* A record points at an execution launched for its own session.

\* No session has the id that stands for no session, because suffixes count
\* from 1, and an execution is nobody's until it is launched.
IdsArePositive == \A s \in DOMAIN records : s[2] >= 1
AbsentIsNobodys ==
  \A e \in Executions : execution[e] = "absent" => owner[e] = NoSession
OwnedInv == IdsArePositive /\ AbsentIsNobodys /\ ExecutionsAreOwned

\* The executions launched for a session.
Mine(s) == {e \in Executions : owner[e] = s}

\* Once launched, an execution is never "absent" again: harness.cancel and the
\* end of an execution leave it in another state.
LEMMA StaysLaunched ==
  ASSUME TypeOK, NEW e \in Executions, execution[e] # "absent",
         NEW state,
         state \in StatesAfterCancel(e) \cup StatesAfterFailedCancel(e) \cup Terminal,
         execution' = [execution EXCEPT ![e] = state]
  PROVE  \A x \in Executions :
           execution'[x] = "absent" <=> execution[x] = "absent"
<1>1. state # "absent"
  BY DEF StatesAfterCancel, StatesAfterFailedCancel, Terminal, Live
<1> QED
  BY <1>1 DEF TypeOK

\* An execution that has ended is never started again, nor made to end otherwise.
LEMMA EndsStay ==
  ASSUME TypeOK, [Next]_vars, NEW e \in Executions, execution[e] \in Terminal
  PROVE  execution'[e] = execution[e]
<1>1. execution[e] # "absent" /\ execution[e] \notin Live
  BY DEF Terminal, Live
<1>2. CASE UNCHANGED execution
  BY <1>2
<1>3. ASSUME NEW s \in DOMAIN records, StartLaunched(s) \/ StartRaised(s)
      PROVE  execution'[e] = execution[e]
  BY <1>1, <1>3 DEF StartLaunched, StartRaised, Launchable, Launch, TypeOK
<1>4. ASSUME NEW s \in DOMAIN records,
             Cancel(s) \/ WaitTimesOut(s) \/ WaitCancelRaised(s)
      PROVE  execution'[e] = execution[e]
  <2>1. CASE CancelNotStarted(s)
    BY <2>1 DEF CancelNotStarted
  <2>2. CASE CancelStarted(s) \/ CancelRaised(s) \/ WaitTimesOut(s) \/ WaitCancelRaised(s)
    <3> DEFINE x == records[s].external
    <3>1. PICK state \in StatesAfterCancel(x) \cup StatesAfterFailedCancel(x) :
            execution' = [execution EXCEPT ![x] = state]
      BY <2>2 DEF CancelStarted, CancelRaised, WaitTimesOut, WaitCancelRaised
    <3>2. x = e => state = execution[e]
      BY <1>1, <3>1 DEF StatesAfterCancel, StatesAfterFailedCancel
    <3> QED
      BY <3>1, <3>2 DEF TypeOK
  <2> QED
    BY <1>4, <2>1, <2>2 DEF Cancel
<1>5. CASE \E x \in Executions : ExecutionEnds(x)
  BY <1>1, <1>5 DEF ExecutionEnds, TypeOK
<1>6. CASE Call
  BY <1>2, <1>3, <1>4, <1>6 DEF Call, Plan, StartRefused, Transition, WaitBegin
<1>7. CASE WaitStep
  BY <1>2, <1>4, <1>7 DEF WaitStep, DeadlinePasses, WaitSeesEnd, WaitRaised
<1> QED
  BY <1>2, <1>5, <1>6, <1>7 DEF Next, vars

\* Launching an absent execution for a session takes no execution away from
\* any session and adds that one to its own.
LEMMA LaunchAddsOne ==
  ASSUME TypeOK, OwnedInv, NEW s \in DOMAIN records, NEW h,
         NEW e \in Launchable(h), NEW state \in {"running", "failed"},
         Launch(e, s, state)
  PROVE  /\ AbsentIsNobodys'
         /\ e \in Executions
         /\ \A t \in DOMAIN records : Mine(t) \subseteq Mine(t)'
         /\ e \in Mine(s)'
         /\ Cardinality(Mine(s)') = Cardinality(Mine(s)) + 1
<1>1. e \in Executions /\ execution[e] = "absent"
  BY ExecutionsAssumption DEF Launchable
<1>2. /\ execution' = [execution EXCEPT ![e] = state]
      /\ owner' = [owner EXCEPT ![e] = s]
      /\ execution \in [Executions -> ExecutionState]
      /\ owner \in [Executions -> SessionId]
  BY DEF Launch, TypeOK
<1>3. \A t \in DOMAIN records : t # NoSession
  BY DEF OwnedInv, IdsArePositive, NoSession
<1>4. owner[e] = NoSession
  BY <1>1 DEF OwnedInv, AbsentIsNobodys
<1>5. AbsentIsNobodys'
  BY <1>1, <1>2 DEF OwnedInv, AbsentIsNobodys
<1>6. \A t \in DOMAIN records : Mine(t) \subseteq Mine(t)'
  BY <1>1, <1>2, <1>3, <1>4 DEF Mine
<1>7. Mine(s)' = Mine(s) \cup {e} /\ e \notin Mine(s)
  BY <1>1, <1>2, <1>3, <1>4 DEF Mine
<1>8. IsFiniteSet(Mine(s))
  BY ExecutionsAssumption, FS_Subset DEF Mine
<1>9. Cardinality(Mine(s) \cup {e}) = Cardinality(Mine(s)) + 1
  BY <1>7, <1>8, FS_AddElement
<1> QED
  BY <1>1, <1>5, <1>6, <1>7, <1>9

\* A session's own executions are finitely many, and more of them never count
\* less.
LEMMA MineFinite ==
  ASSUME NEW s
  PROVE  /\ IsFiniteSet(Mine(s)) /\ Cardinality(Mine(s)) \in Nat
         /\ IsFiniteSet(Mine(s)') /\ Cardinality(Mine(s)') \in Nat
         /\ Mine(s) \subseteq Mine(s)' =>
              Cardinality(Mine(s)) <= Cardinality(Mine(s)')
<1>1. IsFiniteSet(Mine(s)) /\ IsFiniteSet(Mine(s)')
  BY ExecutionsAssumption, FS_Subset DEF Mine
<1> QED
  BY <1>1, FS_CardinalityType, FS_Subset

\* What is left to show of a step that launches nothing on a record.
LEMMA OwnedByKeeping ==
  ASSUME TypeOK, OwnedInv,
         DOMAIN records' = DOMAIN records,
         \A t \in DOMAIN records :
           /\ records'[t].external = records[t].external
           /\ records'[t].attempt = records[t].attempt,
         \A t \in DOMAIN records : Mine(t) \subseteq Mine(t)',
         AbsentIsNobodys'
  PROVE  OwnedInv'
<1>1. IdsArePositive'
  BY DEF OwnedInv, IdsArePositive
<1>2. ASSUME NEW t \in DOMAIN records'
      PROVE  /\ records'[t].external = NoExecution <=> records'[t].attempt = 0
             /\ records'[t].external # NoExecution => records'[t].external \in Mine(t)'
             /\ records'[t].attempt <= Cardinality(Mine(t)')
  <2>1. /\ records[t].external = NoExecution <=> records[t].attempt = 0
        /\ records[t].external # NoExecution => records[t].external \in Mine(t)
        /\ records[t].attempt <= Cardinality(Mine(t))
    BY DEF OwnedInv, ExecutionsAreOwned, Mine
  <2>2. records[t].attempt \in Nat
    BY DEF TypeOK, Record
  <2>3. Mine(t) \subseteq Mine(t)'
    OBVIOUS
  <2>4. /\ Cardinality(Mine(t)) \in Nat /\ Cardinality(Mine(t)') \in Nat
        /\ Cardinality(Mine(t)) <= Cardinality(Mine(t)')
    BY <2>3, MineFinite
  <2> QED
    BY <2>1, <2>2, <2>3, <2>4
<1>3. ExecutionsAreOwned'
  BY <1>2 DEF ExecutionsAreOwned, Mine
<1> QED
  BY <1>1, <1>3 DEF OwnedInv

\* A step that changes no owner and launches nothing keeps the invariant.
LEMMA OwnedByQuiet ==
  ASSUME TypeOK, OwnedInv,
         DOMAIN records' = DOMAIN records,
         \A t \in DOMAIN records :
           /\ records'[t].external = records[t].external
           /\ records'[t].attempt = records[t].attempt,
         owner' = owner,
         \A x \in Executions :
           execution'[x] = "absent" <=> execution[x] = "absent"
  PROVE  OwnedInv'
<1>1. \A t \in DOMAIN records : Mine(t) \subseteq Mine(t)'
  BY DEF Mine
<1>2. AbsentIsNobodys'
  BY DEF OwnedInv, AbsentIsNobodys
<1> QED
  BY <1>1, <1>2, OwnedByKeeping

\* plan() takes no execution from anyone: its session has none yet.
LEMMA PlanKeepsOwners ==
  ASSUME TypeOK, OwnedInv, NEW q \in Requests, Plan(q)
  PROVE  OwnedInv'
<1> DEFINE new == PlannedId(q)
<1>1. /\ DOMAIN records' = DOMAIN records \cup {new}
      /\ records'[new].external = NoExecution
      /\ records'[new].attempt = 0
      /\ \A t \in DOMAIN records \ {new} : records'[t] = records[t]
      /\ UNCHANGED <<execution, owner>>
  BY DEF Plan
<1>2. new[2] >= 1
  <2>1. Cardinality(SameRun(q.run)) \in Nat
    BY SameRunFinite, FS_CardinalityType
  <2> QED
    BY <2>1 DEF PlannedId
<1> HIDE DEF new
<1>3. IdsArePositive'
  BY <1>1, <1>2 DEF OwnedInv, IdsArePositive
<1>4. AbsentIsNobodys'
  BY <1>1 DEF OwnedInv, AbsentIsNobodys
<1>5. \A t : Mine(t)' = Mine(t)
  BY <1>1 DEF Mine
<1>6. ASSUME NEW t \in DOMAIN records'
      PROVE  /\ records'[t].external = NoExecution <=> records'[t].attempt = 0
             /\ records'[t].external # NoExecution => records'[t].external \in Mine(t)
             /\ records'[t].attempt <= Cardinality(Mine(t))
  <2>1. CASE t = new
    BY <1>1, <2>1, MineFinite
  <2>2. CASE t # new
    BY <1>1, <2>2 DEF OwnedInv, ExecutionsAreOwned, Mine
  <2> QED
    BY <2>1, <2>2
<1>7. ExecutionsAreOwned'
  BY <1>1, <1>6 DEF ExecutionsAreOwned, Mine
<1> QED
  BY <1>3, <1>4, <1>7 DEF OwnedInv

\* start() points the record at the execution it launched and counts it.
LEMMA StartKeepsOwners ==
  ASSUME TypeOK, OwnedInv, NEW s \in DOMAIN records, StartLaunched(s)
  PROVE  OwnedInv'
<1>1. PICK e \in Launchable(records[s].request.harness) :
        /\ \/ Launch(e, s, "running")
           \/ Launch(e, s, "failed")
        /\ records' = [records EXCEPT ![s] = Started(records[s], e)]
  BY DEF StartLaunched
<1>2. /\ AbsentIsNobodys'
      /\ e \in Executions
      /\ \A t \in DOMAIN records : Mine(t) \subseteq Mine(t)'
      /\ e \in Mine(s)'
      /\ Cardinality(Mine(s)') = Cardinality(Mine(s)) + 1
  BY <1>1, LaunchAddsOne
<1>3. /\ DOMAIN records' = DOMAIN records
      /\ records'[s].external = e
      /\ records'[s].attempt = records[s].attempt + 1
      /\ \A t \in DOMAIN records \ {s} : records'[t] = records[t]
  BY <1>1 DEF Started
<1>4. IdsArePositive'
  BY <1>3 DEF OwnedInv, IdsArePositive
<1>5. ASSUME NEW t \in DOMAIN records'
      PROVE  /\ records'[t].external = NoExecution <=> records'[t].attempt = 0
             /\ records'[t].external # NoExecution => records'[t].external \in Mine(t)'
             /\ records'[t].attempt <= Cardinality(Mine(t)')
  <2>1. /\ records[t].external = NoExecution <=> records[t].attempt = 0
        /\ records[t].external # NoExecution => records[t].external \in Mine(t)
        /\ records[t].attempt <= Cardinality(Mine(t))
    BY <1>3 DEF OwnedInv, ExecutionsAreOwned, Mine
  <2>2. records[t].attempt \in Nat /\ records[s].attempt \in Nat
    BY <1>3 DEF TypeOK, Record
  <2>3. Mine(t) \subseteq Mine(t)'
    BY <1>2, <1>3
  <2>4. /\ Cardinality(Mine(t)) \in Nat /\ Cardinality(Mine(t)') \in Nat
        /\ Cardinality(Mine(t)) <= Cardinality(Mine(t)')
    BY <2>3, MineFinite
  <2>5. CASE t = s
    BY <1>2, <1>3, <2>1, <2>2, <2>4, <2>5, ExecutionsAssumption
  <2>6. CASE t # s
    BY <1>3, <2>1, <2>2, <2>3, <2>4, <2>6
  <2> QED
    BY <2>5, <2>6
<1>6. ExecutionsAreOwned'
  BY <1>5 DEF ExecutionsAreOwned, Mine
<1> QED
  BY <1>2, <1>4, <1>6 DEF OwnedInv

\* start() that raises after the launch leaves an execution no record points at.
LEMMA RaiseKeepsOwners ==
  ASSUME TypeOK, OwnedInv, NEW s \in DOMAIN records, StartRaised(s)
  PROVE  OwnedInv'
<1>1. UNCHANGED records
  BY DEF StartRaised, Raise
<1>2. CASE UNCHANGED <<execution, owner>>
  BY <1>1, <1>2, OwnedByQuiet
<1>3. CASE \E e \in Launchable(records[s].request.harness) : Launch(e, s, "running")
  <2>1. /\ AbsentIsNobodys'
        /\ \A t \in DOMAIN records : Mine(t) \subseteq Mine(t)'
    BY <1>3, LaunchAddsOne
  <2> QED
    BY <1>1, <2>1, OwnedByKeeping
<1> QED
  BY <1>2, <1>3 DEF StartRaised

\* cancel() and the timeout of wait() touch the execution's state only.
LEMMA CancelKeepsOwners ==
  ASSUME TypeOK, OwnedInv, NEW s \in DOMAIN records,
         Cancel(s) \/ WaitTimesOut(s) \/ WaitCancelRaised(s)
  PROVE  OwnedInv'
<1>1. "cancelled" \in Status /\ {"ok", "harness_error"} \subseteq Results
  BY DEF Status, Results, Errors
<1>2. CASE CancelNotStarted(s)
  <2>1. MoveTo(s, "cancelled", "ok") /\ UNCHANGED <<execution, owner>>
    BY <1>2 DEF CancelNotStarted
  <2> QED
    BY <1>1, <2>1, MoveToType, OwnedByQuiet
<1>3. CASE CancelRaised(s) \/ WaitCancelRaised(s)
  <2>1. PICK e \in Executions :
          /\ execution[e] # "absent"
          /\ \E state \in StatesAfterFailedCancel(e) :
               execution' = [execution EXCEPT ![e] = state]
    BY <1>3 DEF CancelRaised, WaitCancelRaised, TypeOK, Record
  <2>2. \A x \in Executions :
          execution'[x] = "absent" <=> execution[x] = "absent"
    BY <2>1, StaysLaunched
  <2>3. UNCHANGED <<records, owner>>
    BY <1>3 DEF CancelRaised, WaitCancelRaised, Raise
  <2> QED
    BY <2>2, <2>3, OwnedByQuiet
<1>4. CASE CancelStarted(s) \/ WaitTimesOut(s)
  <2>0. PICK e \in Executions :
          /\ execution[e] # "absent"
          /\ \E state \in StatesAfterCancel(e) :
               /\ execution' = [execution EXCEPT ![e] = state]
               /\ \E done \in {"ok", Reported(state), "harness_error"} :
                    MoveTo(s, "cancelled", done)
    <3>1. /\ records[s].external \in Executions
          /\ execution[records[s].external] # "absent"
      BY <1>4 DEF CancelStarted, WaitTimesOut, TypeOK, Record
    <3> QED
      BY <1>4, <3>1 DEF CancelStarted, WaitTimesOut
  <2>1. PICK state \in StatesAfterCancel(e) :
          /\ execution' = [execution EXCEPT ![e] = state]
          /\ \E done \in {"ok", Reported(state), "harness_error"} :
               MoveTo(s, "cancelled", done)
    BY <2>0
  <2>2. Reported(state) \in Results
    BY <2>0, <2>1, AfterCancelType
  <2>3. /\ DOMAIN records' = DOMAIN records
        /\ \A t \in DOMAIN records :
             /\ records'[t].external = records[t].external
             /\ records'[t].attempt = records[t].attempt
    BY <1>1, <2>1, <2>2, MoveToType
  <2>4. \A x \in Executions :
          execution'[x] = "absent" <=> execution[x] = "absent"
    BY <2>0, <2>1, StaysLaunched
  <2>5. owner' = owner
    BY <1>4 DEF CancelStarted, WaitTimesOut
  <2> QED
    BY <2>3, <2>4, <2>5, OwnedByQuiet
<1> QED
  BY <1>2, <1>3, <1>4 DEF Cancel

\* Every step keeps executions with their sessions.
LEMMA OwnedKept == TypeOK /\ OwnedInv /\ [Next]_vars => OwnedInv'
<1> SUFFICES ASSUME TypeOK, OwnedInv, [Next]_vars PROVE OwnedInv'
  OBVIOUS
<1>1. ASSUME UNCHANGED <<records, execution, owner>> PROVE OwnedInv'
  BY <1>1, OwnedByQuiet
<1>2. CASE Call
  <2>1. ASSUME NEW s \in DOMAIN records, StartRefused(s) \/ WaitBegin(s)
        PROVE  OwnedInv'
    BY <1>1, <2>1 DEF StartRefused, WaitBegin, Raise
  <2>2. ASSUME NEW s \in DOMAIN records, NEW st \in Status, Transition(s, st)
        PROVE  OwnedInv'
    <3>1. MoveTo(s, st, "ok") /\ "ok" \in Results /\ UNCHANGED <<execution, owner>>
      BY <2>2 DEF Transition, Results
    <3> QED
      BY <3>1, MoveToType, OwnedByQuiet
  <2> QED
    BY <1>2, <2>1, <2>2, PlanKeepsOwners, StartKeepsOwners, RaiseKeepsOwners,
       CancelKeepsOwners DEF Call
<1>3. CASE WaitStep
  BY <1>1, <1>3, CancelKeepsOwners
  DEF WaitStep, DeadlinePasses, WaitSeesEnd, WaitRaised, WaitCancelRaised
<1>4. CASE \E e \in Executions : ExecutionEnds(e)
  <2>1. PICK e \in Executions, state \in Terminal :
          /\ execution[e] \in Live
          /\ execution' = [execution EXCEPT ![e] = state]
          /\ UNCHANGED <<records, owner>>
    BY <1>4 DEF ExecutionEnds
  <2>2. execution[e] # "absent"
    BY <2>1 DEF Live
  <2>3. \A x \in Executions :
          execution'[x] = "absent" <=> execution[x] = "absent"
    BY <2>1, <2>2, StaysLaunched
  <2> QED
    BY <2>1, <2>3, OwnedByQuiet
<1>5. CASE UNCHANGED vars
  BY <1>1, <1>5 DEF vars
<1> QED
  BY <1>2, <1>3, <1>4, <1>5 DEF Next

\* No session, no execution.
LEMMA OwnedInit == Init => OwnedInv
BY DEF Init, OwnedInv, IdsArePositive, AbsentIsNobodys, ExecutionsAreOwned

\* wait() and cancel() only ever act on an execution launched for their own
\* session, restarts and lost replies included, and the attempts a record
\* counts were really launched: for every set of requests and harnesses, run
\* ids with a ":" included.
THEOREM OwnersHold == Spec => []ExecutionsAreOwned
<1>1. OwnedInv => ExecutionsAreOwned
  BY DEF OwnedInv
<1> QED
  BY <1>1, OwnedInit, OwnedKept, TypeCorrect, PTL DEF Spec

=============================================================================
