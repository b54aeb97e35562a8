---------------------------- MODULE MetaRuntime ----------------------------
(***************************************************************************)
(* specjam.meta_runtime.MetaHarnessRuntime over the session manager, the   *)
(* learning loop and the memory projection: plan_increment,                *)
(* execute_increment and complete_increment, each as the sequence of calls *)
(* it makes.  A call may raise at any of them, which leaves what was done. *)
(*                                                                         *)
(* Executions end between the steps of a call; between calls the operator  *)
(* uses the session manager directly (start, cancel, retry).               *)
(***************************************************************************)
EXTENDS Integers, Sequences, FiniteSets

CONSTANTS
  Increments,         \* what plan_increment plans: sequences of requests,
                      \* the implementation first, then its reviewers
  Reflections,        \* reflection candidates
  GraphId,            \* the graph of the increments
  StoreMayFail,       \* whether the memory store may raise
  OperatorStatuses,   \* statuses the operator moves sessions to by hand
  Requests, Harnesses, RemoteHarnesses, Executions, RemoteExecutions,
  SinkMayFail, MaxSessions, MaxTrail

VARIABLES
  records, trail, execution, owner, waiting, expired, result,
  call,       \* the call in progress
  memory,     \* records the learning loop wrote: by which session, from what
  feedback,   \* verdict fed back to the retrieval event of each session
  report      \* the outcome execute_increment returned, if the last call was
              \* one that did: its session, execution and status

managed == <<records, trail, execution, owner, waiting, expired, result>>
vars == <<records, trail, execution, owner, waiting, expired, result,
          call, memory, feedback, report>>

Sessions == INSTANCE SessionManager

Verdict == {"accepted", "rejected", "inconclusive"}
AfterVerdict ==
  [accepted |-> "reflecting", rejected |-> "blocked", inconclusive |-> "waiting"]

\* PromotionPolicy, confidences in percent.
PromotableKinds == {"decision", "failure", "recovery", "procedure", "outcome"}
SemanticGraphs  == {"postmortem"}
MinConfidence   == [layer \in {"episodic", "semantic"} |->
                      IF layer = "semantic" THEN 90 ELSE 75]
Reflection == [id : STRING, kind : STRING, layer : {"episodic", "semantic"},
               confidence : 0..100]

Idle     == [op |-> "idle"]
NoReport == [status |-> "none"]
Plan(todo)          == [op |-> "plan", todo |-> todo]
Execute(s, step)    == [op |-> "execute", session |-> s, step |-> step]
Complete(s, step, verdict, used, given, todo) ==
  [op |-> "complete", session |-> s, step |-> step, verdict |-> verdict,
   used |-> used, given |-> given, todo |-> todo]

\* The events one call writes at most, one per session of a plan aside: a
\* completion writes five.
MaxCallEvents == 5
MayBegin == call = Idle /\ Len(trail) + MaxCallEvents <= MaxTrail

ASSUME IncrementsAssumption == Increments \subseteq Seq(Requests) \ {<<>>}
ASSUME ReflectionsAssumption ==
  /\ Reflections \subseteq Reflection
  /\ IsFiniteSet(Reflections)
  /\ StoreMayFail \in BOOLEAN
  /\ OperatorStatuses \subseteq Sessions!Status

\* What SessionManager asks of the constants it shares with this module.
ASSUME ManagerAssumption ==
  /\ Requests \subseteq Sessions!Request
  /\ Harnesses \subseteq STRING /\ RemoteHarnesses \subseteq Harnesses
  /\ RemoteExecutions \subseteq Executions
  /\ Sessions!NoExecution \notin Executions
  /\ IsFiniteSet(Executions)
  /\ SinkMayFail \in BOOLEAN
  /\ MaxSessions \in Nat /\ MaxTrail \in Nat

Init ==
  /\ Sessions!Init
  /\ call = Idle
  /\ memory = [id \in {} |-> Idle]
  /\ feedback = [s \in {} |-> "none"]
  /\ report = NoReport

\* The call goes on to `next` when the manager's call succeeded, and raises
\* otherwise.
GoOn(next) == call' = IF result' = "ok" THEN next ELSE Idle

-----------------------------------------------------------------------------
\* plan_increment(): one session for the implementation, one per reviewer.
PlanBegin(increment) ==
  /\ MayBegin
  /\ Len(trail) + Len(increment) <= MaxTrail
  /\ Cardinality(DOMAIN records) + Len(increment) <= MaxSessions
  /\ call' = Plan(increment)
  /\ report' = NoReport
  /\ UNCHANGED <<managed, memory, feedback>>

\* Mutant of PlanNext: the loop over the reviewers goes one too far.
PlanNextOverruns ==
  /\ call.op = "plan"
  /\ Sessions!Plan(Head(call.todo))
  /\ GoOn(Plan(Tail(call.todo)))
  /\ UNCHANGED <<memory, feedback, report>>

PlanNext ==
  /\ call.op = "plan"
  /\ Sessions!Plan(Head(call.todo))
  /\ GoOn(IF Len(call.todo) = 1 THEN Idle ELSE Plan(Tail(call.todo)))
  /\ UNCHANGED <<memory, feedback, report>>

-----------------------------------------------------------------------------
\* execute_increment(): start a planned session, or take up a running one, and
\* wait for it.
ExecuteBegin(s) ==
  /\ MayBegin
  /\ records[s].status \in {"planned", "running"}
  /\ call' = Execute(s, IF records[s].status = "planned" THEN "start" ELSE "wait")
  /\ report' = NoReport
  /\ UNCHANGED <<managed, memory, feedback>>

ExecuteStart ==
  /\ call.op = "execute" /\ call.step = "start"
  /\ \/ Sessions!StartRefused(call.session)
     \/ Sessions!StartLaunched(call.session)
     \/ Sessions!StartRaised(call.session)
  /\ GoOn(Execute(call.session, "wait"))
  /\ UNCHANGED <<memory, feedback, report>>

ExecuteWait ==
  /\ call.op = "execute" /\ call.step = "wait"
  /\ Sessions!WaitBegin(call.session)
  /\ call' = IF waiting' = {} THEN Idle ELSE Execute(call.session, "waiting")
  /\ UNCHANGED <<memory, feedback, report>>

\* Mutant of Outcome: every cancelled session timed out.
OutcomeAlwaysTimedOut(status, seen) == IF status = "cancelled" THEN "timed_out" ELSE seen

\* The outcome of a cancelled session that ended cancelled timed out.
Outcome(status, seen) ==
  IF status = "cancelled" /\ seen = "cancelled" THEN "timed_out" ELSE seen

ExecuteWaitStep ==
  /\ call.op = "execute" /\ call.step = "waiting"
  /\ Sessions!WaitStep
  /\ IF waiting' # {} THEN UNCHANGED <<call, report>>
     ELSE /\ call' = Idle
          /\ report' =
               IF result' \in Sessions!Errors THEN report
               ELSE LET record == records'[call.session]
                    IN  [session |-> call.session, execution |-> record.external,
                         status |-> Outcome(record.status, result')]
  /\ UNCHANGED <<memory, feedback>>

-----------------------------------------------------------------------------
\* complete_increment(): feedback, evaluation, reflection and learning.

\* Mutant of CompleteBegin: the status of the session is not looked at.
CompleteBeginAnyStatus(s, verdict, used, given) ==
  /\ MayBegin
  /\ call' = Complete(s, IF used THEN "feedback" ELSE "evaluate",
                      verdict, used, given, given)
  /\ report' = NoReport
  /\ UNCHANGED <<managed, memory, feedback>>

CompleteBegin(s, verdict, used, given) ==
  /\ MayBegin
  /\ records[s].status \in {"running", "waiting"}
  /\ call' = Complete(s, IF used THEN "feedback" ELSE "evaluate",
                      verdict, used, given, given)
  /\ report' = NoReport
  /\ UNCHANGED <<managed, memory, feedback>>

At(step) == call.op = "complete" /\ call.step = step
To(step) == [call EXCEPT !.step = step]

\* Only an implementation session is given memories, and the retrieval event
\* they came from takes feedback once; anything else raises.
HasRetrieval(s) == records[s].request.role = <<"implementation">>

CompleteFeedback ==
  /\ At("feedback")
  /\ \/ /\ HasRetrieval(call.session) /\ call.session \notin DOMAIN feedback
        /\ feedback' = [s \in DOMAIN feedback \cup {call.session} |->
                          IF s = call.session THEN call.verdict ELSE feedback[s]]
        /\ call' = To("evaluate")
     \/ /\ ~HasRetrieval(call.session) \/ call.session \in DOMAIN feedback \/ StoreMayFail
        /\ call' = Idle
        /\ UNCHANGED feedback
  /\ UNCHANGED <<managed, memory, report>>

\* transition() to the next status of the completion.
Advance(step, st, next) ==
  /\ At(step)
  /\ Sessions!Transition(call.session, st)
  /\ GoOn(next)
  /\ UNCHANGED <<memory, feedback, report>>

CompleteEvaluate == Advance("evaluate", "evaluating", To("judge"))

CompleteJudge ==
  Advance("judge", AfterVerdict[call.verdict],
          IF call.verdict = "accepted" THEN To("learn") ELSE Idle)

\* LearningLoop._eligible, of an accepted evaluation.
Eligible(reflection) ==
  /\ reflection.kind \in PromotableKinds
  /\ reflection.layer = "semantic" => GraphId \in SemanticGraphs
  /\ reflection.confidence >= MinConfidence[reflection.layer]

\* Mutant of LearnOne: the gate is left out.
LearnOneUngated(reflection) ==
  /\ At("learn") /\ reflection \in call.todo
  /\ reflection.id \notin DOMAIN memory
  /\ memory' = [id \in DOMAIN memory \cup {reflection.id} |->
                  IF id = reflection.id
                    THEN [session |-> call.session, reflection |-> reflection]
                    ELSE memory[id]]
  /\ call' = [call EXCEPT !.todo = @ \ {reflection}]
  /\ UNCHANGED <<managed, feedback, report>>

\* Mutant of LearnOne: a store that fails is passed over.
LearnOneSwallows(reflection) ==
  /\ At("learn") /\ reflection \in call.todo
  /\ \/ memory' = [id \in DOMAIN memory \cup {reflection.id} |->
                     IF id = reflection.id
                       THEN [session |-> call.session, reflection |-> reflection]
                       ELSE memory[id]]
     \/ StoreMayFail /\ UNCHANGED memory
  /\ call' = [call EXCEPT !.todo = @ \ {reflection}]
  /\ UNCHANGED <<managed, feedback, report>>

\* learn() goes through the candidates.  The id of a memory is a hash of what
\* it says, but its signature holds its time of creation: promoting the same
\* reflection again collides.  When add() raises, what was promoted stays and
\* the session stays in REFLECTING.
LearnOne(reflection) ==
  /\ At("learn") /\ reflection \in call.todo
  /\ \/ /\ ~Eligible(reflection)
        /\ call' = [call EXCEPT !.todo = @ \ {reflection}]
        /\ UNCHANGED memory
     \/ /\ Eligible(reflection) /\ reflection.id \notin DOMAIN memory
        /\ memory' = [id \in DOMAIN memory \cup {reflection.id} |->
                        IF id = reflection.id
                          THEN [session |-> call.session, reflection |-> reflection]
                          ELSE memory[id]]
        /\ call' = [call EXCEPT !.todo = @ \ {reflection}]
     \/ /\ Eligible(reflection) /\ (reflection.id \in DOMAIN memory \/ StoreMayFail)
        /\ call' = Idle
        /\ UNCHANGED memory
  /\ UNCHANGED <<managed, feedback, report>>

CompleteLearn ==
  \/ \E reflection \in Reflections : LearnOne(reflection)
  \/ call.todo = {} /\ Advance("learn", "accepted", To("settle"))

CompleteSettle == Advance("settle", "learned", To("close"))

CompleteClose == Advance("close", "closed", Idle)

-----------------------------------------------------------------------------
\* Between calls the operator starts, cancels and moves sessions.
Operate ==
  /\ MayBegin
  /\ \E s \in DOMAIN records :
       \/ Sessions!StartLaunched(s)
       \/ Sessions!Cancel(s)
       \/ \E st \in OperatorStatuses : Sessions!Transition(s, st)
  /\ UNCHANGED <<call, memory, feedback, report>>

ExecutionEnds ==
  /\ \E e \in Executions : Sessions!ExecutionEnds(e)
  /\ UNCHANGED <<call, memory, feedback, report>>

Begin ==
  \/ \E increment \in Increments : PlanBegin(increment)
  \/ \E s \in DOMAIN records :
       \/ ExecuteBegin(s)
       \/ \E verdict \in Verdict, used \in BOOLEAN, given \in SUBSET Reflections :
            \* the candidates of other verdicts are not looked at
            /\ verdict # "accepted" => given = {}
            /\ CompleteBegin(s, verdict, used, given)

CallStep ==
  \/ PlanNext
  \/ ExecuteStart \/ ExecuteWait \/ ExecuteWaitStep
  \/ CompleteFeedback \/ CompleteEvaluate \/ CompleteJudge
  \/ At("learn") /\ CompleteLearn
  \/ CompleteSettle \/ CompleteClose

Next == Begin \/ CallStep \/ Operate \/ ExecutionEnds

Spec == Init /\ [][Next]_vars

-----------------------------------------------------------------------------
\* Properties.

SessionIds == DOMAIN records

Calls ==
  {Idle}
    \cup [op : {"plan"}, todo : Seq(Requests) \ {<<>>}]
    \cup [op : {"execute"}, session : SessionIds, step : {"start", "wait", "waiting"}]
    \cup [op : {"complete"}, session : SessionIds,
          step : {"feedback", "evaluate", "judge", "learn", "settle", "close"},
          verdict : Verdict, used : BOOLEAN,
          given : SUBSET Reflections, todo : SUBSET Reflections]

Reports ==
  {NoReport}
    \cup [session : SessionIds, execution : Executions,
          status : {"none", "timed_out"} \cup (Sessions!Results \ Sessions!Errors)]

\* The shape of every variable; in particular a call in progress is about a
\* session there is, and never about an empty rest of an increment.
TypeOK ==
  /\ Sessions!TypeOK
  /\ call \in Calls
  /\ memory \in [DOMAIN memory -> [session : SessionIds, reflection : Reflections]]
  /\ feedback \in [DOMAIN feedback -> Verdict]
  /\ DOMAIN feedback \subseteq SessionIds
  /\ report \in Reports

\* "A reflection candidate reaches episodic memory only after an accepted
\* evaluation [...] Semantic memory has a stricter threshold" (README.md:203):
\* whatever raises, and however often a session is retried, each memory passed
\* the gate and comes from a session the trail shows reflecting.
MemoryIsEarned ==
  \A id \in DOMAIN memory :
    /\ Eligible(memory[id].reflection)
    /\ \E i \in DOMAIN trail :
         trail[i].session = memory[id].session /\ trail[i].status = "reflecting"

\* A session that is settled by a completion has everything eligible it was
\* given in memory, under its own name: learning is never half done there.
SettledMeansLearned ==
  At("settle") \/ At("close") =>
    \A reflection \in call.given :
      Eligible(reflection) =>
        /\ reflection.id \in DOMAIN memory
        /\ memory[reflection.id].session = call.session

\* Feedback in the projection and evaluations on the trail agree: once the call
\* that gave it is over, the verdict fed back is one the trail shows.
FeedbackIsOnTrail ==
  \A s \in DOMAIN feedback :
    \/ call.op = "complete" /\ call.session = s
    \/ \E i \in DOMAIN trail :
         /\ trail[i].session = s
         /\ trail[i].previous = "evaluating"
         /\ trail[i].status = AfterVerdict[feedback[s]]

\* What execute_increment() reported goes on being so, whatever remote sessions and
\* the operator do next: an execution it saw end ended like that, one that timed out
\* has stopped, and a session given up, because of a timeout or with its execution
\* still running, is cancelled for good and never given another execution.
OutcomeStaysTrue ==
  report # NoReport =>
    LET record == records[report.session]
        state  == execution[report.execution]
    IN  /\ report.status \in Sessions!Terminal => state = report.status
        /\ report.status = "timed_out" => state = "cancelled"
        /\ report.status \in {"timed_out", "running"} =>
             record.status = "cancelled" /\ record.external = report.execution
=============================================================================
