--------------------------- MODULE SessionManager ---------------------------
(***************************************************************************)
(* specjam.sessions.SessionManager: the in-memory records of execution     *)
(* sessions, the append-only event trail written beside them, and the      *)
(* external executions (local processes or remote agent sessions) that the *)
(* records point at.                                                       *)
(*                                                                         *)
(* The manager itself is single threaded: one call runs at a time.  What   *)
(* runs concurrently is the external executions, which finish whenever     *)
(* they like, also between the polls of wait().                            *)
(***************************************************************************)
EXTENDS Naturals, Sequences, FiniteSets

CONSTANTS
  Requests,          \* the SessionRequests that may be planned
  Harnesses,         \* names registered with the manager
  RemoteHarnesses,   \* registered harnesses whose cancel is only a request
  Executions,        \* external executions that can be launched
  RemoteExecutions,  \* those a remote harness launches
  SinkMayFail,       \* whether the event sink may raise
  MaxSessions,       \* bound: no further plan() beyond this many records
  MaxTrail           \* bound: no new call once the trail is this long

VARIABLES
  records,    \* SessionManager._records
  trail,      \* the lines of the SessionTrailStore
  execution,  \* state of each external execution
  owner,      \* the session whose request an execution works on
  waiting,    \* {s} while wait(s) is polling, {} otherwise
  expired,    \* whether the deadline of that wait has passed
  result      \* what the last call returned or raised

vars == <<records, trail, execution, owner, waiting, expired, result>>

Status == {"planned", "created", "running", "waiting", "evaluating",
           "reflecting", "accepted", "learned", "retrying", "blocked",
           "cancelled", "closed"}

AllowedTransitions == [st \in Status |->
  CASE st = "planned"    -> {"created", "running", "cancelled"}
    [] st = "created"    -> {"running", "cancelled"}
    [] st = "running"    -> {"waiting", "evaluating", "blocked", "cancelled"}
    [] st = "waiting"    -> {"running", "evaluating", "blocked", "cancelled"}
    [] st = "evaluating" -> {"reflecting", "retrying", "waiting", "blocked"}
    [] st = "reflecting" -> {"accepted", "blocked"}
    [] st = "accepted"   -> {"learned"}
    [] st = "learned"    -> {"closed"}
    [] st = "retrying"   -> {"running", "blocked", "cancelled"}
    [] st = "blocked"    -> {"retrying", "cancelled"}
    [] st = "cancelled"  -> {}
    [] st = "closed"     -> {}]

NoStatus    == "none"
NoExecution == "none"
NoSession   == <<<<>>, 0>>    \* suffixes start at 1

\* A name is the sequence of its ":"-separated segments, so that joining
\* names with ":" is concatenation, as in the f-string of plan().
Name      == Seq(STRING)
Request   == [run : Name, increment : Name, role : Name, harness : STRING]
SessionId == Name \X Nat
Record    == [request : Requests, status : Status,
              external : Executions \cup {NoExecution}, attempt : Nat]
Event     == [session : SessionId, previous : Status \cup {NoStatus},
              status : Status]

Terminal  == {"succeeded", "failed", "cancelled"}
Live      == {"running", "stopping"}
ExecutionState == {"absent"} \cup Live \cup Terminal

Errors  == {"invalid_transition", "unknown_harness", "harness_error",
            "not_started", "sink_error"}
Results == {"none", "ok", "running"} \cup Terminal \cup Errors

ASSUME RequestsAssumption == Requests \subseteq Request
ASSUME HarnessAssumption ==
  /\ Harnesses \subseteq STRING
  /\ RemoteHarnesses \subseteq Harnesses
ASSUME ExecutionsAssumption ==
  /\ RemoteExecutions \subseteq Executions
  /\ NoExecution \notin Executions
  /\ IsFiniteSet(Executions)
ASSUME BoundsAssumption ==
  /\ SinkMayFail \in BOOLEAN
  /\ MaxSessions \in Nat
  /\ MaxTrail \in Nat

Init ==
  /\ records = [s \in {} |-> NoStatus]
  /\ trail = <<>>
  /\ execution = [e \in Executions |-> "absent"]
  /\ owner = [e \in Executions |-> NoSession]
  /\ waiting = {}
  /\ expired = FALSE
  /\ result = "none"

-----------------------------------------------------------------------------
\* Helpers of the calls.

\* _record_event: append one event, or raise with the record already updated.
RecordEvent(s, previous, st, done) ==
  \/ /\ trail' = Append(trail, [session |-> s, previous |-> previous,
                                status |-> st])
     /\ result' = done
  \/ /\ SinkMayFail
     /\ trail' = trail
     /\ result' = "sink_error"

Raise(error) ==
  /\ result' = error
  /\ UNCHANGED <<records, trail>>

\* Mutants of MoveTo: the event shows the status after the update as the
\* previous one; the guard is missing; the event is logged before the guard.
MoveToMisreported(s, st, done) ==
  IF st \in AllowedTransitions[records[s].status]
    THEN /\ records' = [records EXCEPT ![s].status = st]
         /\ RecordEvent(s, st, st, done)
    ELSE Raise("invalid_transition")
MoveToUnguarded(s, st, done) ==
  /\ records' = [records EXCEPT ![s].status = st]
  /\ RecordEvent(s, records[s].status, st, done)
MoveToLogsFirst(s, st, done) ==
  IF st \in AllowedTransitions[records[s].status]
    THEN /\ records' = [records EXCEPT ![s].status = st]
         /\ RecordEvent(s, records[s].status, st, done)
    ELSE /\ UNCHANGED records
         /\ RecordEvent(s, records[s].status, st, "invalid_transition")

\* transition(): guard, then record, then event.
MoveTo(s, st, done) ==
  IF st \in AllowedTransitions[records[s].status]
    THEN /\ records' = [records EXCEPT ![s].status = st]
         /\ RecordEvent(s, records[s].status, st, done)
    ELSE Raise("invalid_transition")

\* The executions a harness can still launch.
Launchable(h) ==
  {e \in (IF h \in RemoteHarnesses THEN RemoteExecutions
                                   ELSE Executions \ RemoteExecutions) :
     execution[e] = "absent"}

\* States an execution can be in when harness.cancel returns: a local process
\* is killed, a remote session is asked to stop and may finish all the same.
StatesAfterCancel(e) ==
  IF execution[e] \notin Live THEN {execution[e]}
  ELSE IF e \in RemoteExecutions THEN {"stopping"} \cup Terminal
  ELSE {"cancelled"}

\* The same when it raises: the reply of a remote session is lost, before or after
\* it was asked to stop; a local process that was killed does not go away in time,
\* and counts as cancelled once it does.
StatesAfterFailedCancel(e) ==
  IF e \in RemoteExecutions THEN {execution[e]} \cup StatesAfterCancel(e)
  ELSE IF execution[e] \in Live THEN {"stopping"}
  ELSE {}

\* What harness.status and harness.result report of an execution.
Reported(state) == IF state = "stopping" THEN "running" ELSE state

-----------------------------------------------------------------------------
\* The calls.

FullName(q) == q.run \o q.increment \o q.role

\* Mutant of SameRun: only sessions still in progress are counted.
SameRunInProgress(run) ==
  {s \in DOMAIN records : /\ records[s].request.run = run
                          /\ records[s].status \notin {"cancelled", "closed"}}

\* plan(): the suffix counts the records of the same run.
SameRun(run) == {s \in DOMAIN records : records[s].request.run = run}

PlannedId(q) == <<FullName(q), Cardinality(SameRun(q.run)) + 1>>

Plan(q) ==
  LET new == PlannedId(q)
      record == [request |-> q, status |-> "planned",
                 external |-> NoExecution, attempt |-> 0]
  IN  /\ records' = [s \in DOMAIN records \cup {new} |->
                       IF s = new THEN record ELSE records[s]]
      /\ RecordEvent(new, NoStatus, "planned", "ok")
      /\ UNCHANGED <<execution, owner, waiting, expired>>

\* start(): guard and harness lookup come before the harness is called.
MayStart(s) == "running" \in AllowedTransitions[records[s].status]

StartRefused(s) ==
  /\ \/ ~MayStart(s) /\ Raise("invalid_transition")
     \/ /\ MayStart(s)
        /\ records[s].request.harness \notin Harnesses
        /\ Raise("unknown_harness")
  /\ UNCHANGED <<execution, owner, waiting, expired>>

\* Mutant of Launch: the record is updated before the harness has launched.
LaunchLater(e, s, state) == UNCHANGED <<execution, owner>>

\* The execution e now works on the request of s.
Launch(e, s, state) ==
  /\ execution' = [execution EXCEPT ![e] = state]
  /\ owner' = [owner EXCEPT ![e] = s]

Started(record, e) ==
  [request |-> record.request, status |-> "running",
   external |-> e, attempt |-> record.attempt + 1]

\* harness.start returns an id: of a running execution or, for a command that
\* could not be spawned, of one already recorded as failed.
StartLaunched(s) ==
  /\ MayStart(s)
  /\ records[s].request.harness \in Harnesses
  /\ \E e \in Launchable(records[s].request.harness) :
       /\ \/ Launch(e, s, "running")
          \/ e \notin RemoteExecutions /\ Launch(e, s, "failed")
       /\ records' = [records EXCEPT ![s] = Started(@, e)]
       /\ RecordEvent(s, records[s].status, "running", "ok")
  /\ UNCHANGED <<waiting, expired>>

\* Mutant of StartRaised: the attempt is counted before harness.start.
StartRaisedCounted(s) ==
  /\ MayStart(s)
  /\ records[s].request.harness \in Harnesses
  /\ records' = [records EXCEPT ![s].attempt = @ + 1]
  /\ result' = "harness_error"
  /\ UNCHANGED <<trail, execution, owner, waiting, expired>>

\* harness.start raises: before anything was launched, or after (the POST
\* reply carries no id, the prompt cannot be written to the process).
StartRaised(s) ==
  /\ MayStart(s)
  /\ records[s].request.harness \in Harnesses
  /\ Raise("harness_error")
  /\ \/ UNCHANGED <<execution, owner>>
     \/ \E e \in Launchable(records[s].request.harness) :
          Launch(e, s, "running")
  /\ UNCHANGED <<waiting, expired>>

Transition(s, st) ==
  /\ MoveTo(s, st, "ok")
  /\ UNCHANGED <<execution, owner, waiting, expired>>

\* cancel(): the harness is told first, the transition is guarded after.
CancelNotStarted(s) ==
  /\ records[s].external = NoExecution
  /\ MoveTo(s, "cancelled", "ok")
  /\ UNCHANGED <<execution, owner, waiting, expired>>

CancelStarted(s) ==
  LET e == records[s].external IN
  /\ e # NoExecution
  /\ \E state \in StatesAfterCancel(e) :
       execution' = [execution EXCEPT ![e] = state]
  /\ MoveTo(s, "cancelled", "ok")
  /\ UNCHANGED <<owner, waiting, expired>>

CancelRaised(s) ==
  LET e == records[s].external IN
  /\ e # NoExecution
  /\ \E state \in StatesAfterFailedCancel(e) :
       execution' = [execution EXCEPT ![e] = state]
  /\ Raise("harness_error")
  /\ UNCHANGED <<owner, waiting, expired>>

Cancel(s) == CancelNotStarted(s) \/ CancelStarted(s) \/ CancelRaised(s)

\* wait(): begins by polling; the loop goes on until a terminal status is
\* seen or the deadline has passed.
WaitBegin(s) ==
  /\ IF records[s].external = NoExecution
       THEN waiting' = {} /\ result' = "not_started"
       ELSE waiting' = {s} /\ result' = "none"
  /\ expired' = FALSE
  /\ UNCHANGED <<records, trail, execution, owner>>

WaitSeesEnd(s) ==
  /\ s \in waiting
  /\ ~expired
  /\ execution[records[s].external] \in Terminal
  /\ result' = execution[records[s].external]
  /\ waiting' = {}
  /\ expired' = FALSE
  /\ UNCHANGED <<records, trail, execution, owner>>

\* A poll raises, when a remote reply is lost; or reading the result does, of a local
\* execution when what it printed cannot be read.
WaitRaised(s) ==
  LET e == records[s].external IN
  /\ s \in waiting
  /\ ~expired
  /\ e \in RemoteExecutions \/ execution[e] \in Terminal
  /\ result' = "harness_error"
  /\ waiting' = {}
  /\ expired' = FALSE
  /\ UNCHANGED <<records, trail, execution, owner>>

\* Mutant of DeadlinePasses: each poll starts a new deadline.
DeadlineRenewed ==
  /\ waiting # {}
  /\ ~expired
  /\ result' = "none"
  /\ UNCHANGED <<records, trail, execution, owner, waiting, expired>>

DeadlinePasses ==
  /\ waiting # {}
  /\ ~expired
  /\ expired' = TRUE
  /\ result' = "none"
  /\ UNCHANGED <<records, trail, execution, owner, waiting>>

\* The deadline has passed: cancel(), then whatever the harness reports; reading that
\* may still raise, with the session cancelled.
WaitTimesOut(s) ==
  LET e == records[s].external IN
  /\ s \in waiting
  /\ expired
  /\ \E state \in StatesAfterCancel(e) :
       /\ execution' = [execution EXCEPT ![e] = state]
       /\ \E done \in {Reported(state), "harness_error"} : MoveTo(s, "cancelled", done)
  /\ waiting' = {}
  /\ expired' = FALSE
  /\ UNCHANGED owner

WaitCancelRaised(s) ==
  LET e == records[s].external IN
  /\ s \in waiting
  /\ expired
  /\ \E state \in StatesAfterFailedCancel(e) :
       execution' = [execution EXCEPT ![e] = state]
  /\ Raise("harness_error")
  /\ waiting' = {}
  /\ expired' = FALSE
  /\ UNCHANGED owner

-----------------------------------------------------------------------------
\* The environment: executions end by themselves; a remote session can also
\* be stopped by its own users, or because it was asked to.  A local process whose
\* cancellation raised is reported as cancelled, however it ends.
ExecutionEnds(e) ==
  /\ execution[e] \in Live
  /\ \E state \in Terminal :
       /\ e \notin RemoteExecutions => (state = "cancelled" <=> execution[e] = "stopping")
       /\ execution' = [execution EXCEPT ![e] = state]
  /\ result' = "none"
  /\ UNCHANGED <<records, trail, owner, waiting, expired>>

MayCall == waiting = {} /\ Len(trail) < MaxTrail
MayPlan == Cardinality(DOMAIN records) < MaxSessions

Call ==
  /\ MayCall
  /\ \/ \E q \in Requests : MayPlan /\ Plan(q)
     \/ \E s \in DOMAIN records :
          \/ StartRefused(s)
          \/ StartLaunched(s)
          \/ StartRaised(s)
          \/ \E st \in Status : Transition(s, st)
          \/ Cancel(s)
          \/ WaitBegin(s)

WaitStep ==
  \/ DeadlinePasses
  \/ \E s \in DOMAIN records :
       WaitSeesEnd(s) \/ WaitRaised(s) \/ WaitTimesOut(s) \/ WaitCancelRaised(s)

Next == Call \/ WaitStep \/ \E e \in Executions : ExecutionEnds(e)

Spec == Init /\ [][Next]_vars

\* The loop of wait() keeps running and the clock advances; nobody is obliged
\* to call anything and no execution is obliged to end.
FairSpec == Spec /\ WF_vars(WaitStep)

-----------------------------------------------------------------------------
\* Properties.

\* The shape of every variable; in particular the external id of a record is
\* that of an execution already launched, and wait() polls a session with one.
TypeOK ==
  /\ DOMAIN records \subseteq SessionId
  /\ IsFiniteSet(DOMAIN records)
  /\ records \in [DOMAIN records -> Record]
  /\ trail \in Seq(Event)
  /\ execution \in [Executions -> ExecutionState]
  /\ owner \in [Executions -> SessionId]
  /\ \A s \in DOMAIN records :
       records[s].external # NoExecution =>
         execution[records[s].external] # "absent"
  /\ waiting \subseteq DOMAIN records
  /\ \A s \in waiting : records[s].external # NoExecution
  /\ expired \in BOOLEAN
  /\ result \in Results

\* Trail positions i < j hold consecutive events of one session.
Consecutive(i, j) ==
  /\ i < j
  /\ trail[i].session = trail[j].session
  /\ \A k \in (i + 1)..(j - 1) : trail[k].session # trail[i].session

\* Trail position i holds the last event of its session.
IsLast(i) ==
  \A k \in (i + 1)..Len(trail) : trail[k].session # trail[i].session

\* Each session id is its request's name and a number among those given to the
\* run so far: why plan() computes a fresh one (when runs have no ":").
IdsNumbered ==
  \A s \in DOMAIN records :
    /\ s[1] = FullName(records[s].request)
    /\ s[2] \in 1..Cardinality(SameRun(records[s].request.run))

ColonFreeRuns == \A q \in Requests : Len(q.run) = 1

\* With a sink that never raises, the trail alone tells the whole history: the
\* events of a session start at "planned", each continues where the previous
\* one ended, and the last one is the status of the record.
TrailChains ==
  \A i, j \in DOMAIN trail :
    Consecutive(i, j) => trail[j].previous = trail[i].status
TrailEndsAtRecord ==
  \A i \in DOMAIN trail :
    /\ trail[i].session \in DOMAIN records
    /\ IsLast(i) => trail[i].status = records[trail[i].session].status
TrailStartsPlanned ==
  /\ \A s \in DOMAIN records : \E i \in DOMAIN trail : trail[i].session = s
  /\ \A i \in DOMAIN trail :
       trail[i].previous = NoStatus <=> trail[i].status = "planned"
TrailIsHistory == TrailChains /\ TrailEndsAtRecord /\ TrailStartsPlanned

\* Sets of statuses that no allowed transition leaves, and the statuses
\* reachable from each status: those in every such set that contains it.
ClosedStatuses ==
  {C \in SUBSET Status : \A st \in C : AllowedTransitions[st] \subseteq C}
Reachable ==
  [st \in Status |-> {x \in Status : \A C \in ClosedStatuses : st \in C => x \in C}]

\* With a sink that may raise, the trail can miss events but it never shows a
\* session anywhere it has not been, nor out of order: what an event starts
\* from was reachable from where the previous one ended, and the record is
\* reachable from the last one.
TrailIsOrdered ==
  /\ \A i, j \in DOMAIN trail :
       Consecutive(i, j) => trail[j].previous \in Reachable[trail[i].status]
  /\ \A i \in DOMAIN trail :
       IsLast(i) => records[trail[i].session].status \in Reachable[trail[i].status]

\* plan() "creates a separate session for each increment or reviewer"
\* (sessions.py, class docstring): the request of a record is never replaced
\* by another plan, and no record disappears.
PlanNeverOverwrites ==
  [][\A s \in DOMAIN records :
       /\ s \in DOMAIN records'
       /\ records'[s].attempt >= records[s].attempt
       /\ records'[s].request = records[s].request]_vars

\* A record points at an execution launched for that very session, so that
\* wait() and cancel() never act on the work of another one, and it counts at
\* most the launches that really happened.
ExecutionsAreOwned ==
  \A s \in DOMAIN records :
    LET mine == {e \in Executions : owner[e] = s} IN
    /\ records[s].external = NoExecution <=> records[s].attempt = 0
    /\ records[s].external # NoExecution => records[s].external \in mine
    /\ records[s].attempt <= Cardinality(mine)

\* The phase of each session as read off the trail.
PhaseOf(st) ==
  CASE st \in {"evaluating", "reflecting"} -> "judging"
    [] st \in {"accepted", "learned"}      -> "settled"
    [] st = "closed"                       -> "closed"
    [] st = "cancelled"                    -> "abandoned"
    [] OTHER                               -> "open"
TrailPhase ==
  [s \in {trail[i].session : i \in DOMAIN trail} |->
     PhaseOf(trail[CHOOSE i \in DOMAIN trail :
                     trail[i].session = s /\ IsLast(i)].status)]

PlannableIds == {<<FullName(q), n>> : q \in Requests, n \in 1..MaxSessions}

\* The trail implements the lifecycle promised to its readers.
Lifecycle == INSTANCE SessionLifecycle
               WITH Sessions <- PlannableIds, phase <- TrailPhase
LifecycleSpec == Lifecycle!Spec

\* wait() always returns or raises, whatever the execution does: the deadline
\* bounds it even when a remote harness never reports an end.
WaitReturns == waiting # {} ~> waiting = {}

=============================================================================
