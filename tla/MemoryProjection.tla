-------------------------- MODULE MemoryProjection --------------------------
(***************************************************************************)
(* specjam.memory.SQLiteVectorMemory: the memory records, their lifecycle  *)
(* state, and the retrieval events that feedback is attached to.  Several  *)
(* processes (commands, runtimes) have the same database open.             *)
(*                                                                         *)
(* A connection only opens a transaction before its first INSERT or UPDATE,*)
(* so what an operation SELECTs before that is read on its own: such an    *)
(* operation is a read step and a write step here, with the other clients  *)
(* in between.  What follows the first INSERT or UPDATE is one transaction *)
(* and one step.                                                           *)
(***************************************************************************)
EXTENDS Integers, FiniteSets

CONSTANTS
  Clients,         \* processes with the database open
  Curators,        \* those that change states by hand ("memory state")
  Memories,        \* record ids
  Retrievals,      \* retrieval event ids, each used once (uuid4)
  SharedFeedback,  \* whether a client reports on the retrieval of another
  Queries,         \* lifecycle states searches ask for, each a set
  TopK,            \* context budget of a search
  TrustAfterUses   \* uses before feedback may change a state

VARIABLES
  memory,     \* memory_records
  retrieval,  \* retrieval_events
  pending     \* what each client has read and not yet written

vars == <<memory, retrieval, pending>>

MemoryState == {"candidate", "validated", "trusted", "deprecated", "rejected"}
Usable      == {"validated", "trusted", "deprecated"}

AllowedStates ==
  [candidate  |-> {"validated", "rejected"},
   validated  |-> {"trusted", "deprecated"},
   trusted    |-> {"deprecated"},
   deprecated |-> {"validated"},
   rejected   |-> {}]

\* outcome_score in halves: 0.0, 0.5 and 1.0, as the runtime reports them.
Outcome   == 0..2
NoOutcome == -1

\* success_score is the mean of the outcomes: here their sum, in halves.
Record    == [state : MemoryState, uses : Nat, score : Nat]
Retrieval == [by : Clients, states : Queries, selected : SUBSET Memories,
              used : SUBSET Memories, outcome : Outcome \cup {NoOutcome}]
Idle      == [op |-> "idle"]
Pending   ==
  {Idle}
    \cup [op : {"search"}, states : Queries, selected : SUBSET Memories]
    \cup [op : {"state"}, id : Memories, target : MemoryState]
    \cup [op : {"feedback"}, event : Retrievals, used : SUBSET Memories,
          outcome : Outcome]

ASSUME ClientsAssumption ==
  /\ Curators \subseteq Clients
  /\ IsFiniteSet(Retrievals)
  /\ SharedFeedback \in BOOLEAN
ASSUME QueriesAssumption == Queries \subseteq SUBSET MemoryState
ASSUME LimitsAssumption ==
  /\ TopK \in Nat \ {0}
  /\ TrustAfterUses \in Nat \ {0}

Init ==
  /\ memory = [m \in {} |-> Idle]
  /\ retrieval = [r \in {} |-> Idle]
  /\ pending = [c \in Clients |-> Idle]

-----------------------------------------------------------------------------
\* add(): INSERT OR IGNORE.  A record that is already there is left alone,
\* whether add() then returns False or raises because the signatures differ.
New(st) == [state |-> st, uses |-> 0, score |-> 0]

\* Mutant of Add: INSERT OR REPLACE.
AddReplaces(c, m, st) ==
  /\ pending[c] = Idle
  /\ memory' = [n \in DOMAIN memory \cup {m} |->
                  IF n = m THEN New(st) ELSE memory[n]]
  /\ UNCHANGED <<retrieval, pending>>

Add(c, m, st) ==
  /\ pending[c] = Idle
  /\ memory' = [n \in DOMAIN memory \cup {m} |->
                  IF n \in DOMAIN memory THEN memory[n] ELSE New(st)]
  /\ UNCHANGED <<retrieval, pending>>

-----------------------------------------------------------------------------
\* search(): reads the rows in the states asked for (an empty choice is no
\* filter), scores them and keeps what the budget allows; the event is written
\* afterwards, on a connection of its own.  Which rows score well enough is left
\* open.
Matching(states) ==
  {m \in DOMAIN memory : states = {} \/ memory[m].state \in states}

SearchRead(c, states) ==
  /\ pending[c] = Idle
  /\ \E selected \in SUBSET Matching(states) :
       /\ Cardinality(selected) <= TopK
       /\ pending' = [pending EXCEPT ![c] = [op |-> "search", states |-> states,
                                             selected |-> selected]]
  /\ UNCHANGED <<memory, retrieval>>

SearchTrace(c, r) ==
  /\ pending[c].op = "search"
  /\ r \notin DOMAIN retrieval
  /\ retrieval' = [e \in DOMAIN retrieval \cup {r} |->
                     IF e = r THEN [by |-> c, states |-> pending[c].states,
                                    selected |-> pending[c].selected,
                                    used |-> {}, outcome |-> NoOutcome]
                              ELSE retrieval[e]]
  /\ pending' = [pending EXCEPT ![c] = Idle]
  /\ UNCHANGED memory

-----------------------------------------------------------------------------
\* record_retrieval_feedback(): the event is read and checked first.  A refused
\* feedback (unknown event, feedback already given, memory not selected) raises
\* and changes nothing.

\* Mutants of FeedbackRead: used memories are not compared with the selected
\* ones; feedback_at is not looked at.
FeedbackReadAnyMemory(c, r, used, outcome) ==
  /\ pending[c] = Idle
  /\ r \in DOMAIN retrieval
  /\ SharedFeedback \/ retrieval[r].by = c
  /\ retrieval[r].outcome = NoOutcome
  /\ pending' = [pending EXCEPT ![c] = [op |-> "feedback", event |-> r,
                                        used |-> used, outcome |-> outcome]]
  /\ UNCHANGED <<memory, retrieval>>

FeedbackReadUnchecked(c, r, used, outcome) ==
  /\ pending[c] = Idle
  /\ r \in DOMAIN retrieval
  /\ SharedFeedback \/ retrieval[r].by = c
  /\ used \subseteq retrieval[r].selected
  /\ pending' = [pending EXCEPT ![c] = [op |-> "feedback", event |-> r,
                                        used |-> used, outcome |-> outcome]]
  /\ UNCHANGED <<memory, retrieval>>

FeedbackRead(c, r, used, outcome) ==
  /\ pending[c] = Idle
  /\ r \in DOMAIN retrieval
  /\ SharedFeedback \/ retrieval[r].by = c
  /\ retrieval[r].outcome = NoOutcome
  /\ used \subseteq retrieval[r].selected
  /\ pending' = [pending EXCEPT ![c] = [op |-> "feedback", event |-> r,
                                        used |-> used, outcome |-> outcome]]
  /\ UNCHANGED <<memory, retrieval>>

\* A mean of at least 0.8 earns trust, one of at most 0.2 loses it.
StateAfterUse(st, uses, score) ==
  IF uses < TrustAfterUses \/ st \notin {"validated", "trusted"} THEN st
  ELSE IF st = "validated" /\ 5 * score >= 8 * uses THEN "trusted"
  ELSE IF 5 * score <= 2 * uses THEN "deprecated"
  ELSE st

AfterUse(record, outcome) ==
  LET uses == record.uses + 1
      score == record.score + outcome
  IN  [state |-> StateAfterUse(record.state, uses, score),
       uses |-> uses, score |-> score]

\* One transaction: the event, then every memory used, each read again in it.
FeedbackWrite(c) ==
  LET fb == pending[c] IN
  /\ fb.op = "feedback"
  /\ retrieval' = [retrieval EXCEPT ![fb.event].used = fb.used,
                                    ![fb.event].outcome = fb.outcome]
  /\ memory' = [m \in DOMAIN memory |->
                  IF m \in fb.used THEN AfterUse(memory[m], fb.outcome)
                                   ELSE memory[m]]
  /\ pending' = [pending EXCEPT ![c] = Idle]

-----------------------------------------------------------------------------
\* update_state(): the current state is read and checked, then the new one is
\* written whatever the state has become.

\* Mutant of StateRead: every transition is allowed.
StateReadUnguarded(c, m, target) ==
  /\ c \in Curators
  /\ pending[c] = Idle
  /\ m \in DOMAIN memory
  /\ pending' = [pending EXCEPT ![c] = [op |-> "state", id |-> m, target |-> target]]
  /\ UNCHANGED <<memory, retrieval>>

StateRead(c, m, target) ==
  /\ c \in Curators
  /\ pending[c] = Idle
  /\ m \in DOMAIN memory
  /\ target \in {memory[m].state} \cup AllowedStates[memory[m].state]
  /\ pending' = [pending EXCEPT ![c] = [op |-> "state", id |-> m, target |-> target]]
  /\ UNCHANGED <<memory, retrieval>>

StateWrite(c) ==
  /\ pending[c].op = "state"
  /\ memory' = [memory EXCEPT ![pending[c].id].state = pending[c].target]
  /\ pending' = [pending EXCEPT ![c] = Idle]
  /\ UNCHANGED retrieval

\* A client dies, or its write fails, between reading and writing.
Abandon(c) ==
  /\ pending[c] # Idle
  /\ pending' = [pending EXCEPT ![c] = Idle]
  /\ UNCHANGED <<memory, retrieval>>

Next ==
  \E c \in Clients :
    \/ \E m \in Memories, st \in MemoryState : Add(c, m, st)
    \/ \E states \in Queries : SearchRead(c, states)
    \/ \E r \in Retrievals : SearchTrace(c, r)
    \/ \E r \in Retrievals, used \in SUBSET Memories, outcome \in Outcome :
         FeedbackRead(c, r, used, outcome)
    \/ FeedbackWrite(c)
    \/ \E m \in Memories, target \in MemoryState : StateRead(c, m, target)
    \/ StateWrite(c)
    \/ Abandon(c)

Spec == Init /\ [][Next]_vars

-----------------------------------------------------------------------------
\* Properties.

\* The shape of every variable; in particular a retrieval selects no more than
\* the budget, and feedback names only memories it selected.
TypeOK ==
  /\ DOMAIN memory \subseteq Memories
  /\ memory \in [DOMAIN memory -> Record]
  /\ DOMAIN retrieval \subseteq Retrievals
  /\ retrieval \in [DOMAIN retrieval -> Retrieval]
  /\ \A r \in DOMAIN retrieval :
       /\ Cardinality(retrieval[r].selected) <= TopK
       /\ retrieval[r].used \subseteq retrieval[r].selected
  /\ pending \in [Clients -> Pending]

\* The retrievals whose feedback named a memory, and those among them with a
\* given outcome.
UsesOf(m) ==
  {r \in DOMAIN retrieval : retrieval[r].outcome # NoOutcome /\ m \in retrieval[r].used}
UsesWith(m, outcome) == {r \in UsesOf(m) : retrieval[r].outcome = outcome}

\* When each retrieval is reported on by the client that made it, the usage
\* count and score of a memory are exactly those of the feedback on record, with
\* any number of clients reporting at once: no use is lost, none counts twice.
UsesMatchFeedback ==
  \A m \in DOMAIN memory :
    /\ memory[m].uses = Cardinality(UsesOf(m))
    /\ memory[m].score = Cardinality(UsesWith(m, 1)) + 2 * Cardinality(UsesWith(m, 2))

\* With one curator at most, what a retrieval that asked for usable states
\* handed to an agent never turns into a candidate or a rejected memory.  (One
\* that asked for candidates may have handed out what is rejected later.)
RecallStaysUsable ==
  \A r \in DOMAIN retrieval :
    retrieval[r].states # {} /\ retrieval[r].states \subseteq Usable =>
      \A m \in retrieval[r].selected : m \in DOMAIN memory /\ memory[m].state \in Usable

\* With one curator at most, rejection is final.
RejectionIsFinal ==
  [][\A m \in DOMAIN memory :
       memory[m].state = "rejected" => memory'[m].state = "rejected"]_vars

=============================================================================
