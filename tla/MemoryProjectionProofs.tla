------------------------ MODULE MemoryProjectionProofs ------------------------
(***************************************************************************)
(* Proofs about MemoryProjection for every set of clients, memories and    *)
(* retrievals, and every budget.  What holds only while each retrieval is  *)
(* reported on by its own client, or while one curator at most changes     *)
(* states by hand, says so in its hypothesis.                              *)
(***************************************************************************)
EXTENDS MemoryProjection, FiniteSetTheorems, TLAPS

-----------------------------------------------------------------------------
\* The inductive invariants.

\* What a client has read stays true of the rows it is about to write: rows are
\* never deleted and a retrieval never changes what it selected.
ReadHolds(p) ==
  /\ p.op = "search" => p.selected \subseteq DOMAIN memory /\ Cardinality(p.selected) <= TopK
  /\ p.op = "state" => p.id \in DOMAIN memory
  /\ p.op = "feedback" => p.event \in DOMAIN retrieval /\ p.used \subseteq retrieval[p.event].selected

TypeInv ==
  /\ TypeOK
  /\ \A c \in Clients : ReadHolds(pending[c])
  /\ \A r \in DOMAIN retrieval : retrieval[r].selected \subseteq DOMAIN memory

\* Feedback on its way is for a retrieval of that client which has none yet.
UsesInv ==
  /\ \A c \in Clients : pending[c].op = "feedback" =>
       /\ retrieval[pending[c].event].by = c
       /\ retrieval[pending[c].event].outcome = NoOutcome
  /\ UsesMatchFeedback

\* States as retrievals and a curator at work see them: what is or was about to be
\* handed out to one who asked for usable memories is usable, and the curator's target is reached from where the memory
\* is now, whatever feedback did to it since the curator looked.
AsksUsable(states) == states # {} /\ states \subseteq Usable

TargetFits(p) ==
  p.op = "state" =>
    /\ memory[p.id].state \in Usable => p.target \in Usable
    /\ memory[p.id].state = "rejected" => p.target = "rejected"

RecallInv ==
  /\ \A r \in DOMAIN retrieval : AsksUsable(retrieval[r].states) =>
       \A m \in retrieval[r].selected : memory[m].state \in Usable
  /\ \A c \in Clients : pending[c].op = "search" /\ AsksUsable(pending[c].states) =>
       \A m \in pending[c].selected : memory[m].state \in Usable
  /\ \A c \in Clients : pending[c].op = "state" => c \in Curators
  /\ \A c \in Clients : TargetFits(pending[c])

-----------------------------------------------------------------------------
\* What a step writes into the rows.

Writes(c, p) ==
  /\ pending' \in [Clients -> Pending] /\ pending'[c] = p
  /\ \A d \in Clients \ {c} : pending'[d] = pending[d]

\* A step that sets the pending operation of one client leaves that of the
\* others.
LEMMA Replaced ==
  ASSUME TypeOK, NEW c \in Clients, NEW p \in Pending, pending' = [pending EXCEPT ![c] = p]
  PROVE  Writes(c, p)
BY DEF TypeOK, Writes

\* The idle operation is a pending operation.
LEMMA IdleTyped == Idle \in Pending /\ Idle.op = "idle"
BY DEF Idle, Pending

\* Rows are added and never deleted, and the selection of a retrieval stands.
RowsStay ==
  /\ DOMAIN memory \subseteq DOMAIN memory'
  /\ DOMAIN retrieval \subseteq DOMAIN retrieval'
  /\ \A r \in DOMAIN retrieval :
       retrieval'[r].selected = retrieval[r].selected /\ retrieval'[r].by = retrieval[r].by

\* What a client has read of rows stays true while those rows stay.
LEMMA ReadsKept ==
  ASSUME TypeInv, RowsStay, NEW d \in Clients, pending'[d] = pending[d]
  PROVE  ReadHolds(pending[d])'
BY DEF TypeInv, RowsStay, ReadHolds

\* An idle client has read nothing.
LEMMA IdleReads ==
  ASSUME NEW d, pending'[d] = Idle
  PROVE  ReadHolds(pending[d])'
BY IdleTyped DEF ReadHolds

\* add() leaves the rows that are there alone.
LEMMA AddWrites ==
  ASSUME TypeOK, NEW c, NEW m \in Memories, NEW st \in MemoryState, Add(c, m, st)
  PROVE  /\ DOMAIN memory' = DOMAIN memory \cup {m}
         /\ memory' \in [DOMAIN memory' -> Record]
         /\ \A n \in DOMAIN memory : memory'[n] = memory[n]
         /\ \A n \in DOMAIN memory' \ DOMAIN memory : memory'[n] = New(st)
         /\ retrieval' = retrieval /\ pending' = pending
<1>1. New(st) \in Record
  BY DEF New, Record
<1>2. memory' = [n \in DOMAIN memory \cup {m} |-> IF n \in DOMAIN memory THEN memory[n] ELSE New(st)]
  BY DEF Add
<1>3. DOMAIN memory' = DOMAIN memory \cup {m}
  BY <1>2
<1>4. \A n \in DOMAIN memory : memory[n] \in Record
  BY DEF TypeOK
<1>5. memory' \in [DOMAIN memory' -> Record]
  BY <1>1, <1>2, <1>3, <1>4
<1> QED BY <1>2, <1>3, <1>5 DEF Add

\* A search that ends adds its event, on which there is no feedback.
Traced(c) ==
  [by |-> c, states |-> pending[c].states, selected |-> pending[c].selected,
   used |-> {}, outcome |-> NoOutcome]

\* The second half of search() records one new retrieval, with what the first
\* half selected.
LEMMA TraceWrites ==
  ASSUME TypeInv, NEW c \in Clients, NEW r \in Retrievals, SearchTrace(c, r)
  PROVE  /\ DOMAIN retrieval' = DOMAIN retrieval \cup {r} /\ r \notin DOMAIN retrieval
         /\ retrieval' \in [DOMAIN retrieval' -> Retrieval]
         /\ \A e \in DOMAIN retrieval : retrieval'[e] = retrieval[e]
         /\ retrieval'[r] = Traced(c)
         /\ pending[c].op = "search" /\ pending[c].selected \subseteq DOMAIN memory
         /\ Cardinality(pending[c].selected) <= TopK
         /\ memory' = memory /\ Writes(c, Idle)
<1>1. /\ TypeOK /\ pending[c].op = "search" /\ pending[c].selected \subseteq DOMAIN memory
      /\ Cardinality(pending[c].selected) <= TopK
      /\ DOMAIN memory \subseteq Memories
  BY DEF SearchTrace, TypeInv, ReadHolds, TypeOK
<1>2. Traced(c) \in Retrieval
  <2>1. pending[c] \in Pending /\ pending[c].op = "search"
    BY <1>1 DEF TypeOK
  <2>2. pending[c].states \in Queries
    BY <2>1 DEF Pending, Idle
  <2> QED BY <1>1, <2>2 DEF Retrieval, Traced
<1>3. /\ retrieval' = [e \in DOMAIN retrieval \cup {r} |-> IF e = r THEN Traced(c) ELSE retrieval[e]]
      /\ r \notin DOMAIN retrieval /\ memory' = memory
      /\ pending' = [pending EXCEPT ![c] = Idle]
  BY DEF SearchTrace, Traced
<1>4. DOMAIN retrieval' = DOMAIN retrieval \cup {r}
  BY <1>3
<1>5. \A e \in DOMAIN retrieval : retrieval[e] \in Retrieval
  BY <1>1 DEF TypeOK
<1>6. retrieval' \in [DOMAIN retrieval' -> Retrieval]
  BY <1>2, <1>3, <1>4, <1>5
<1> QED BY <1>1, <1>3, <1>4, <1>6, IdleTyped, Replaced

\* A client that has read something writes its own place only.
LEMMA SearchReads ==
  ASSUME TypeOK, NEW c \in Clients, NEW states \in Queries, SearchRead(c, states)
  PROVE  \E selected \in SUBSET DOMAIN memory :
           /\ AsksUsable(states) => \A m \in selected : memory[m].state \in Usable
           /\ Cardinality(selected) <= TopK
           /\ Writes(c, [op |-> "search", states |-> states, selected |-> selected])
           /\ memory' = memory /\ retrieval' = retrieval
<1>1. PICK selected \in SUBSET Matching(states) :
        /\ Cardinality(selected) <= TopK
        /\ pending' = [pending EXCEPT ![c] = [op |-> "search", states |-> states,
                                             selected |-> selected]]
        /\ memory' = memory /\ retrieval' = retrieval
  BY DEF SearchRead
<1>2. selected \in SUBSET DOMAIN memory
  BY <1>1 DEF Matching
<1>3. AsksUsable(states) => \A m \in selected : memory[m].state \in Usable
  BY <1>1 DEF Matching, AsksUsable
<1> DEFINE p == [op |-> "search", states |-> states, selected |-> selected]
<1>4. p \in Pending
  BY <1>2 DEF Pending, TypeOK
<1>5. Writes(c, p)
  <2> HIDE DEF p
  <2> SUFFICES pending' = [pending EXCEPT ![c] = p]
    BY <1>4, Replaced
  <2> QED BY <1>1 DEF p
<1> QED BY <1>1, <1>2, <1>3, <1>5

\* The first half of feedback() finds an event without outcome and used records
\* among those it selected.
LEMMA FeedbackReads ==
  ASSUME TypeOK, NEW c \in Clients, NEW r \in Retrievals, NEW used \in SUBSET Memories,
         NEW outcome \in Outcome, FeedbackRead(c, r, used, outcome)
  PROVE  /\ r \in DOMAIN retrieval /\ used \subseteq retrieval[r].selected
         /\ retrieval[r].outcome = NoOutcome /\ (SharedFeedback \/ retrieval[r].by = c)
         /\ Writes(c, [op |-> "feedback", event |-> r, used |-> used, outcome |-> outcome])
         /\ memory' = memory /\ retrieval' = retrieval
<1> DEFINE p == [op |-> "feedback", event |-> r, used |-> used, outcome |-> outcome]
<1>1. p \in Pending
  BY DEF Pending
<1>2. Writes(c, p)
  <2> HIDE DEF p
  <2> SUFFICES pending' = [pending EXCEPT ![c] = p]
    BY <1>1, Replaced
  <2> QED BY DEF FeedbackRead, p
<1> QED BY <1>2 DEF FeedbackRead

\* The first half of update_state() finds a row that may move to the target.
LEMMA StateReads ==
  ASSUME TypeOK, NEW c \in Clients, NEW m \in Memories, NEW target \in MemoryState,
         StateRead(c, m, target)
  PROVE  /\ c \in Curators /\ m \in DOMAIN memory
         /\ target \in {memory[m].state} \cup AllowedStates[memory[m].state]
         /\ Writes(c, [op |-> "state", id |-> m, target |-> target])
         /\ memory' = memory /\ retrieval' = retrieval
<1> DEFINE p == [op |-> "state", id |-> m, target |-> target]
<1>1. p \in Pending
  BY DEF Pending
<1>2. Writes(c, p)
  <2> HIDE DEF p
  <2> SUFFICES pending' = [pending EXCEPT ![c] = p]
    BY <1>1, Replaced
  <2> QED BY DEF StateRead, p
<1> QED BY <1>2 DEF StateRead

\* One use more moves a record only between the usable states.
LEMMA AfterUseTyped ==
  ASSUME NEW record \in Record, NEW outcome \in Outcome
  PROVE  LET after == AfterUse(record, outcome) IN
         /\ after \in Record /\ after.uses = record.uses + 1 /\ after.score = record.score + outcome
         /\ record.state \in Usable => after.state \in Usable
         /\ record.state \notin Usable => after.state = record.state
<1> DEFINE uses == record.uses + 1
           score == record.score + outcome
           state == StateAfterUse(record.state, uses, score)
<1>1. uses \in Nat /\ score \in Nat /\ record.state \in MemoryState
  BY DEF Record, Outcome
<1>2. state \in {record.state, "trusted", "deprecated"} /\ (record.state \notin {"validated", "trusted"} => state = record.state)
  BY DEF StateAfterUse
<1>3. /\ state \in MemoryState
      /\ record.state \in Usable => state \in Usable
      /\ record.state \notin Usable => state = record.state
  BY <1>1, <1>2 DEF MemoryState, Usable
<1>4. AfterUse(record, outcome) = [state |-> state, uses |-> uses, score |-> score]
  BY DEF AfterUse
<1> HIDE DEF state, uses, score
<1>5. [state |-> state, uses |-> uses, score |-> score] \in Record
  BY <1>1, <1>3 DEF Record
<1> QED BY <1>3, <1>4, <1>5 DEF uses, score

\* The second half of feedback() writes to its event and to the records used,
\* and to nothing else.
LEMMA FeedbackWrites ==
  ASSUME TypeInv, NEW c \in Clients, FeedbackWrite(c)
  PROVE  /\ pending[c].op = "feedback" /\ pending[c].event \in DOMAIN retrieval
         /\ pending[c].used \in SUBSET Memories
         /\ pending[c].used \subseteq retrieval[pending[c].event].selected
         /\ pending[c].outcome \in Outcome
         /\ DOMAIN retrieval' = DOMAIN retrieval /\ retrieval' \in [DOMAIN retrieval -> Retrieval]
         /\ \A e \in DOMAIN retrieval : e # pending[c].event => retrieval'[e] = retrieval[e]
         /\ retrieval'[pending[c].event].used = pending[c].used
         /\ retrieval'[pending[c].event].outcome = pending[c].outcome
         /\ retrieval'[pending[c].event].selected = retrieval[pending[c].event].selected
         /\ retrieval'[pending[c].event].by = retrieval[pending[c].event].by
         /\ retrieval'[pending[c].event].states = retrieval[pending[c].event].states
         /\ DOMAIN memory' = DOMAIN memory /\ memory' \in [DOMAIN memory -> Record]
         /\ \A m \in DOMAIN memory \ pending[c].used : memory'[m] = memory[m]
         /\ \A m \in DOMAIN memory \cap pending[c].used :
              memory'[m] = AfterUse(memory[m], pending[c].outcome)
         /\ Writes(c, Idle)
<1> DEFINE fb == pending[c]
<1>1. /\ TypeOK /\ fb.op = "feedback" /\ fb.event \in DOMAIN retrieval
      /\ fb.used \subseteq retrieval[fb.event].selected
  BY DEF FeedbackWrite, TypeInv, ReadHolds
<1>2. fb.used \in SUBSET Memories /\ fb.outcome \in Outcome
  <2>1. fb \in Pending
    BY <1>1 DEF TypeOK
  <2> QED BY <1>1, <2>1 DEF Pending, Idle
<1>3. /\ retrieval' = [retrieval EXCEPT ![fb.event].used = fb.used, ![fb.event].outcome = fb.outcome]
      /\ memory' = [m \in DOMAIN memory |->
                      IF m \in fb.used THEN AfterUse(memory[m], fb.outcome) ELSE memory[m]]
      /\ pending' = [pending EXCEPT ![c] = Idle]
  BY DEF FeedbackWrite
<1> HIDE DEF fb
<1>4. Writes(c, Idle)
  BY <1>1, <1>3, IdleTyped, Replaced
<1>5. \A m \in DOMAIN memory : memory[m] \in Record /\ AfterUse(memory[m], fb.outcome) \in Record
  BY <1>1, <1>2, AfterUseTyped DEF TypeOK
<1>6. DOMAIN memory' = DOMAIN memory /\ memory' \in [DOMAIN memory -> Record]
  BY <1>3, <1>5
<1>7. \A m \in DOMAIN memory :
        memory'[m] = IF m \in fb.used THEN AfterUse(memory[m], fb.outcome) ELSE memory[m]
  BY <1>3
<1> DEFINE old == retrieval[fb.event]
           new == [old EXCEPT !.used = fb.used, !.outcome = fb.outcome]
<1>8. old \in Retrieval /\ retrieval \in [DOMAIN retrieval -> Retrieval]
  BY <1>1 DEF TypeOK
<1>9. /\ new \in Retrieval /\ new.used = fb.used /\ new.outcome = fb.outcome
      /\ new.selected = old.selected /\ new.by = old.by /\ new.states = old.states
  BY <1>2, <1>8 DEF Retrieval
<1>10. retrieval' = [retrieval EXCEPT ![fb.event] = new]
  BY <1>3
<1> HIDE DEF new
<1>11. /\ DOMAIN retrieval' = DOMAIN retrieval /\ retrieval' \in [DOMAIN retrieval -> Retrieval]
       /\ \A e \in DOMAIN retrieval : e # fb.event => retrieval'[e] = retrieval[e]
       /\ retrieval'[fb.event] = new
  BY <1>1, <1>8, <1>9, <1>10
<1> QED BY <1>1, <1>2, <1>4, <1>6, <1>7, <1>9, <1>11 DEF fb

\* The second half of update_state() writes the target state to its row, and
\* nothing else.
LEMMA StateWrites ==
  ASSUME TypeInv, NEW c \in Clients, StateWrite(c)
  PROVE  /\ pending[c].op = "state" /\ pending[c].id \in DOMAIN memory
         /\ DOMAIN memory' = DOMAIN memory /\ memory' \in [DOMAIN memory -> Record]
         /\ \A m \in DOMAIN memory : m # pending[c].id => memory'[m] = memory[m]
         /\ memory'[pending[c].id].state = pending[c].target
         /\ memory'[pending[c].id].uses = memory[pending[c].id].uses
         /\ memory'[pending[c].id].score = memory[pending[c].id].score
         /\ retrieval' = retrieval /\ Writes(c, Idle)
<1> DEFINE p == pending[c]
<1>1. TypeOK /\ p.op = "state" /\ p.id \in DOMAIN memory
  BY DEF StateWrite, TypeInv, ReadHolds
<1>2. p.target \in MemoryState
  <2>1. p \in Pending
    BY <1>1 DEF TypeOK
  <2> QED BY <1>1, <2>1 DEF Pending, Idle
<1> DEFINE new == [memory[p.id] EXCEPT !.state = p.target]
<1>3. memory' = [memory EXCEPT ![p.id] = new] /\ retrieval' = retrieval
  BY DEF StateWrite
<1>4. Writes(c, Idle)
  BY <1>1, IdleTyped, Replaced DEF StateWrite
<1> HIDE DEF p
<1>5. memory \in [DOMAIN memory -> Record] /\ memory[p.id] \in Record
  BY <1>1 DEF TypeOK
<1>6. /\ new \in Record /\ new.state = p.target
      /\ new.uses = memory[p.id].uses /\ new.score = memory[p.id].score
  BY <1>2, <1>5 DEF Record
<1> HIDE DEF new
<1>7. /\ DOMAIN memory' = DOMAIN memory /\ memory' \in [DOMAIN memory -> Record]
      /\ \A m \in DOMAIN memory : m # p.id => memory'[m] = memory[m]
      /\ memory'[p.id] = new
  BY <1>1, <1>3, <1>5, <1>6
<1> QED BY <1>1, <1>3, <1>4, <1>6, <1>7 DEF p

-----------------------------------------------------------------------------
\* The type invariant.

\* add() keeps the types.
LEMMA AddKeepsTypes ==
  ASSUME TypeInv, NEW c \in Clients, NEW m \in Memories, NEW st \in MemoryState, Add(c, m, st)
  PROVE  TypeInv'
<1>1. /\ DOMAIN memory' = DOMAIN memory \cup {m} /\ memory' \in [DOMAIN memory' -> Record]
      /\ retrieval' = retrieval /\ pending' = pending /\ TypeOK
  BY AddWrites DEF TypeInv
<1>2. TypeOK'
  BY <1>1 DEF TypeOK
<1>3. ASSUME NEW d \in Clients PROVE ReadHolds(pending[d])'
  BY <1>1, ReadsKept DEF RowsStay
<1>4. \A r \in DOMAIN retrieval' : retrieval'[r].selected \subseteq DOMAIN memory'
  BY <1>1 DEF TypeInv
<1> QED BY <1>2, <1>3, <1>4 DEF TypeInv

\* A step that only reads: its own place holds what it has read.
LEMMA ReadKeepsTypes ==
  ASSUME TypeInv, NEW c \in Clients, NEW p, Writes(c, p), memory' = memory, retrieval' = retrieval,
         ReadHolds(p)
  PROVE  TypeInv'
<1>1. TypeOK'
  BY DEF TypeInv, TypeOK, Writes
<1>2. ASSUME NEW d \in Clients PROVE ReadHolds(pending[d])'
  <2>1. CASE d = c
    BY <2>1 DEF Writes, ReadHolds
  <2>2. CASE d # c
    BY <2>2, ReadsKept DEF Writes, RowsStay
  <2> QED BY <2>1, <2>2
<1> QED BY <1>1, <1>2 DEF TypeInv

\* The second half of search() keeps the types.
LEMMA TraceKeepsTypes ==
  ASSUME TypeInv, NEW c \in Clients, NEW r \in Retrievals, SearchTrace(c, r)
  PROVE  TypeInv'
<1>1. /\ DOMAIN retrieval' = DOMAIN retrieval \cup {r} /\ r \notin DOMAIN retrieval
      /\ retrieval' \in [DOMAIN retrieval' -> Retrieval]
      /\ \A e \in DOMAIN retrieval : retrieval'[e] = retrieval[e]
      /\ retrieval'[r] = Traced(c)
      /\ pending[c].selected \subseteq DOMAIN memory /\ Cardinality(pending[c].selected) <= TopK
      /\ memory' = memory /\ Writes(c, Idle)
  BY TraceWrites
<1>2. retrieval'[r].selected = pending[c].selected /\ retrieval'[r].used = {}
  BY <1>1 DEF Traced
<1>3. /\ TypeOK
      /\ \A e \in DOMAIN retrieval :
           /\ retrieval[e].selected \subseteq DOMAIN memory
           /\ Cardinality(retrieval[e].selected) <= TopK
           /\ retrieval[e].used \subseteq retrieval[e].selected
  BY DEF TypeInv, TypeOK
<1>4. \A e \in DOMAIN retrieval' :
        /\ retrieval'[e].selected \subseteq DOMAIN memory'
        /\ Cardinality(retrieval'[e].selected) <= TopK
        /\ retrieval'[e].used \subseteq retrieval'[e].selected
  BY <1>1, <1>2, <1>3
<1>5. TypeOK'
  BY <1>1, <1>3, <1>4 DEF TypeOK, Writes
<1>6. ASSUME NEW d \in Clients PROVE ReadHolds(pending[d])'
  <2>1. CASE d = c
    BY <1>1, <2>1, IdleReads DEF Writes
  <2>2. CASE d # c
    BY <1>1, <2>2, ReadsKept DEF Writes, RowsStay
  <2> QED BY <2>1, <2>2
<1> QED BY <1>4, <1>5, <1>6 DEF TypeInv

\* The second half of feedback() keeps the types.
LEMMA FeedbackKeepsTypes ==
  ASSUME TypeInv, NEW c \in Clients, FeedbackWrite(c)
  PROVE  TypeInv'
<1> DEFINE r == pending[c].event
<1>1. /\ r \in DOMAIN retrieval /\ pending[c].used \subseteq retrieval[r].selected
      /\ DOMAIN retrieval' = DOMAIN retrieval /\ retrieval' \in [DOMAIN retrieval -> Retrieval]
      /\ \A e \in DOMAIN retrieval : e # r => retrieval'[e] = retrieval[e]
      /\ retrieval'[r].used = pending[c].used
      /\ retrieval'[r].selected = retrieval[r].selected
      /\ retrieval'[r].by = retrieval[r].by
      /\ DOMAIN memory' = DOMAIN memory /\ memory' \in [DOMAIN memory -> Record]
      /\ Writes(c, Idle)
  BY FeedbackWrites
<1> HIDE DEF r
<1>2. /\ TypeOK
      /\ \A e \in DOMAIN retrieval :
           /\ retrieval[e].selected \subseteq DOMAIN memory
           /\ Cardinality(retrieval[e].selected) <= TopK
           /\ retrieval[e].used \subseteq retrieval[e].selected
  BY DEF TypeInv, TypeOK
<1>3. ASSUME NEW e \in DOMAIN retrieval
      PROVE  /\ retrieval'[e].selected = retrieval[e].selected
             /\ retrieval'[e].by = retrieval[e].by
             /\ retrieval'[e].used \subseteq retrieval[e].selected
  <2>1. CASE e = r
    BY <1>1, <2>1
  <2>2. CASE e # r
    BY <1>1, <1>2, <2>2
  <2> QED BY <2>1, <2>2
<1>4. TypeOK'
  BY <1>1, <1>2, <1>3 DEF TypeOK, Writes
<1>5. ASSUME NEW d \in Clients PROVE ReadHolds(pending[d])'
  <2>1. CASE d = c
    BY <1>1, <2>1, IdleReads DEF Writes
  <2>2. CASE d # c
    BY <1>1, <1>3, <2>2, ReadsKept DEF Writes, RowsStay
  <2> QED BY <2>1, <2>2
<1> QED BY <1>1, <1>2, <1>3, <1>4, <1>5 DEF TypeInv

\* The second half of update_state() keeps the types.
LEMMA StateKeepsTypes ==
  ASSUME TypeInv, NEW c \in Clients, StateWrite(c)
  PROVE  TypeInv'
<1>1. /\ DOMAIN memory' = DOMAIN memory /\ memory' \in [DOMAIN memory -> Record]
      /\ retrieval' = retrieval /\ Writes(c, Idle)
  BY StateWrites
<1>2. TypeOK'
  BY <1>1 DEF TypeInv, TypeOK, Writes
<1>3. ASSUME NEW d \in Clients PROVE ReadHolds(pending[d])'
  <2>1. CASE d = c
    BY <1>1, <2>1, IdleReads DEF Writes
  <2>2. CASE d # c
    BY <1>1, <2>2, ReadsKept DEF Writes, RowsStay
  <2> QED BY <2>1, <2>2
<1> QED BY <1>1, <1>2, <1>3 DEF TypeInv

\* A process that dies between read and write leaves no rows behind.
LEMMA AbandonWrites ==
  ASSUME TypeOK, NEW c \in Clients, Abandon(c)
  PROVE  Writes(c, Idle) /\ memory' = memory /\ retrieval' = retrieval
BY IdleTyped, Replaced DEF Abandon

\* Every step keeps the types.
LEMMA TypeStep == TypeInv /\ [Next]_vars => TypeInv'
<1> SUFFICES ASSUME TypeInv, [Next]_vars PROVE TypeInv'
  OBVIOUS
<1>0. TypeOK
  BY DEF TypeInv
<1>1. ASSUME NEW c \in Clients, NEW states \in Queries, SearchRead(c, states) PROVE TypeInv'
  <2>1. PICK selected \in SUBSET DOMAIN memory :
          /\ Cardinality(selected) <= TopK
          /\ Writes(c, [op |-> "search", states |-> states, selected |-> selected])
          /\ memory' = memory /\ retrieval' = retrieval
    BY <1>0, <1>1, SearchReads
  <2>2. ReadHolds([op |-> "search", states |-> states, selected |-> selected])
    BY <2>1 DEF ReadHolds
  <2> QED BY <2>1, <2>2, ReadKeepsTypes
<1>2. ASSUME NEW c \in Clients, NEW r \in Retrievals, NEW used \in SUBSET Memories,
             NEW outcome \in Outcome, FeedbackRead(c, r, used, outcome) PROVE TypeInv'
  <2> DEFINE p == [op |-> "feedback", event |-> r, used |-> used, outcome |-> outcome]
  <2>1. /\ r \in DOMAIN retrieval /\ used \subseteq retrieval[r].selected
        /\ Writes(c, p) /\ memory' = memory /\ retrieval' = retrieval
    BY <1>0, <1>2, FeedbackReads
  <2>2. ReadHolds(p)
    BY <2>1 DEF ReadHolds
  <2> QED BY <2>1, <2>2, ReadKeepsTypes
<1>3. ASSUME NEW c \in Clients, NEW m \in Memories, NEW target \in MemoryState,
             StateRead(c, m, target) PROVE TypeInv'
  <2> DEFINE p == [op |-> "state", id |-> m, target |-> target]
  <2>1. m \in DOMAIN memory /\ Writes(c, p) /\ memory' = memory /\ retrieval' = retrieval
    BY <1>0, <1>3, StateReads
  <2>2. ReadHolds(p)
    BY <2>1 DEF ReadHolds
  <2> QED BY <2>1, <2>2, ReadKeepsTypes
<1>4. ASSUME NEW c \in Clients, Abandon(c) PROVE TypeInv'
  <2>1. ReadHolds(Idle)
    BY IdleTyped DEF ReadHolds
  <2> QED BY <1>0, <1>4, <2>1, AbandonWrites, ReadKeepsTypes
<1>5. CASE UNCHANGED vars
  BY <1>5 DEF vars, TypeInv, TypeOK, ReadHolds
<1> QED BY <1>1, <1>2, <1>3, <1>4, <1>5, AddKeepsTypes, TraceKeepsTypes, FeedbackKeepsTypes,
           StateKeepsTypes DEF Next

\* No row, no event, and nothing read.
LEMMA Initially == Init => TypeInv /\ UsesInv /\ RecallInv
<1> SUFFICES ASSUME Init PROVE TypeInv /\ UsesInv /\ RecallInv
  OBVIOUS
<1>1. /\ DOMAIN memory = {} /\ DOMAIN retrieval = {}
      /\ memory = [m \in {} |-> Idle] /\ retrieval = [r \in {} |-> Idle]
      /\ pending \in [Clients -> Pending] /\ \A c \in Clients : pending[c].op = "idle"
  BY IdleTyped DEF Init
<1>2. TypeInv
  BY <1>1 DEF TypeInv, TypeOK, ReadHolds
<1>3. UsesInv
  BY <1>1 DEF UsesInv, UsesMatchFeedback
<1>4. RecallInv
  BY <1>1 DEF RecallInv, TargetFits
<1> QED BY <1>2, <1>3, <1>4

-----------------------------------------------------------------------------
\* Usage counts, when each retrieval is reported on by its own client.

\* A retrieval with feedback on it counts for the memories it used, and retrievals
\* are finitely many.
LEMMA UsesFinite ==
  ASSUME TypeOK, NEW m
  PROVE  /\ IsFiniteSet(UsesOf(m)) /\ Cardinality(UsesOf(m)) \in Nat
         /\ \A o \in Outcome : IsFiniteSet(UsesWith(m, o)) /\ Cardinality(UsesWith(m, o)) \in Nat
<1>1. DOMAIN retrieval \subseteq Retrievals /\ IsFiniteSet(Retrievals)
  BY ClientsAssumption DEF TypeOK
<1>2. IsFiniteSet(UsesOf(m)) /\ \A o \in Outcome : IsFiniteSet(UsesWith(m, o))
  <2>1. UsesOf(m) \subseteq Retrievals /\ \A o \in Outcome : UsesWith(m, o) \subseteq Retrievals
    BY <1>1 DEF UsesOf, UsesWith
  <2> QED BY <1>1, <2>1, FS_Subset
<1> QED BY <1>2, FS_CardinalityType

\* Counts and scores stay where no record and no feedback changes.
LEMMA CountsKept ==
  ASSUME NEW m, memory'[m].uses = memory[m].uses, memory'[m].score = memory[m].score,
         UsesOf(m)' = UsesOf(m), \A o \in Outcome : UsesWith(m, o)' = UsesWith(m, o),
         memory[m].uses = Cardinality(UsesOf(m)),
         memory[m].score = Cardinality(UsesWith(m, 1)) + 2 * Cardinality(UsesWith(m, 2))
  PROVE  /\ memory'[m].uses = Cardinality(UsesOf(m)')
         /\ memory'[m].score = Cardinality(UsesWith(m, 1)') + 2 * Cardinality(UsesWith(m, 2)')
BY DEF Outcome

\* The uses on record are a function of the retrieval events.
LEMMA SameUses ==
  ASSUME NEW m, retrieval' = retrieval
  PROVE  UsesOf(m)' = UsesOf(m) /\ \A o \in Outcome : UsesWith(m, o)' = UsesWith(m, o)
BY DEF UsesOf, UsesWith

\* The step that reports feedback counts one use, with its outcome, of every memory
\* it names, because there was no feedback on that retrieval yet.
LEMMA OneMoreUse ==
  ASSUME TypeInv, UsesInv, NEW c \in Clients, FeedbackWrite(c), NEW m \in DOMAIN memory
  PROVE  /\ memory'[m].uses = Cardinality(UsesOf(m)')
         /\ memory'[m].score = Cardinality(UsesWith(m, 1)') + 2 * Cardinality(UsesWith(m, 2)')
<1>0. PICK r, outcome, used :
        r = pending[c].event /\ outcome = pending[c].outcome /\ used = pending[c].used
  OBVIOUS
<1>1. /\ r \in DOMAIN retrieval /\ outcome \in Outcome
      /\ DOMAIN retrieval' = DOMAIN retrieval
      /\ \A e \in DOMAIN retrieval : e # r => retrieval'[e] = retrieval[e]
      /\ retrieval'[r].used = used /\ retrieval'[r].outcome = outcome
      /\ m \notin used => memory'[m] = memory[m]
      /\ m \in used => memory'[m] = AfterUse(memory[m], outcome)
      /\ retrieval[r].outcome = NoOutcome /\ memory[m] \in Record /\ TypeOK
  BY <1>0, FeedbackWrites DEF UsesInv, TypeInv, TypeOK
<1>2. /\ memory[m].uses = Cardinality(UsesOf(m))
      /\ memory[m].score = Cardinality(UsesWith(m, 1)) + 2 * Cardinality(UsesWith(m, 2))
  BY DEF UsesInv, UsesMatchFeedback
<1>3. outcome # NoOutcome /\ NoOutcome \notin Outcome
  BY <1>1 DEF Outcome, NoOutcome
<1>4. CASE m \notin used
  <2>1. UsesOf(m)' = UsesOf(m)
    BY <1>1, <1>3, <1>4 DEF UsesOf
  <2>2. \A o \in Outcome : UsesWith(m, o)' = UsesWith(m, o)
    <3>1. r \notin UsesOf(m)
      BY <1>1 DEF UsesOf
    <3> QED BY <1>1, <2>1, <3>1 DEF UsesWith, UsesOf
  <2>3. memory'[m] = memory[m]
    BY <1>1, <1>4
  <2> QED BY <1>2, <2>1, <2>2, <2>3, CountsKept
<1>5. CASE m \in used
  <2>1. UsesOf(m)' = UsesOf(m) \cup {r} /\ r \notin UsesOf(m)
    BY <1>1, <1>3, <1>5 DEF UsesOf
  <2>2. UsesWith(m, outcome)' = UsesWith(m, outcome) \cup {r} /\ r \notin UsesWith(m, outcome)
    BY <1>1, <2>1 DEF UsesWith, UsesOf
  <2>3. \A o \in Outcome \ {outcome} : UsesWith(m, o)' = UsesWith(m, o)
    BY <1>1, <2>1 DEF UsesWith, UsesOf
  <2>4. /\ memory'[m].uses = memory[m].uses + 1 /\ memory'[m].score = memory[m].score + outcome
    BY <1>1, <1>5, AfterUseTyped
  <2>5. Cardinality(UsesOf(m)') = Cardinality(UsesOf(m)) + 1
    BY <1>1, <2>1, UsesFinite, FS_AddElement
  <2>6. Cardinality(UsesWith(m, outcome)') = Cardinality(UsesWith(m, outcome)) + 1
    BY <1>1, <2>2, UsesFinite, FS_AddElement
  <2> DEFINE one == Cardinality(UsesWith(m, 1))
             two == Cardinality(UsesWith(m, 2))
             one1 == Cardinality(UsesWith(m, 1)')
             two1 == Cardinality(UsesWith(m, 2)')
  <2>7. one \in Nat /\ two \in Nat
    BY <1>1, UsesFinite DEF Outcome
  <2>8. one1 + 2 * two1 = one + 2 * two + outcome
    <3>1. CASE outcome = 0
      <4>1. one1 = one /\ two1 = two
        BY <2>3, <3>1 DEF Outcome
      <4> HIDE DEF one, two, one1, two1
      <4> QED BY <2>7, <3>1, <4>1
    <3>2. CASE outcome = 1
      <4>1. one1 = one + 1 /\ two1 = two
        BY <2>3, <2>6, <3>2 DEF Outcome
      <4> HIDE DEF one, two, one1, two1
      <4> QED BY <2>7, <3>2, <4>1
    <3>3. CASE outcome = 2
      <4>1. one1 = one /\ two1 = two + 1
        BY <2>3, <2>6, <3>3 DEF Outcome
      <4> HIDE DEF one, two, one1, two1
      <4> QED BY <2>7, <3>3, <4>1
    <3> QED BY <1>1, <3>1, <3>2, <3>3 DEF Outcome
  <2> QED BY <1>2, <2>4, <2>5, <2>8
<1> QED BY <1>4, <1>5

\* Feedback on its way keeps its retrieval to itself.
Owned(p, d) ==
  p.op = "feedback" => retrieval[p.event].by = d /\ retrieval[p.event].outcome = NoOutcome

\* Every step keeps usage and score equal to the feedback on record.
LEMMA UsesStep ==
  ASSUME SharedFeedback = FALSE, TypeInv, UsesInv, [Next]_vars
  PROVE  UsesInv'
<1>0. /\ TypeOK /\ UsesMatchFeedback
      /\ \A d \in Clients : Owned(pending[d], d)
      /\ \A d \in Clients : ReadHolds(pending[d])
  BY DEF TypeInv, UsesInv, Owned
<1>1. SUFFICES (\A d \in Clients : Owned(pending[d], d)') /\ UsesMatchFeedback'
  BY DEF UsesInv, Owned
<1>2. ASSUME NEW c \in Clients, NEW p, Writes(c, p), memory' = memory, retrieval' = retrieval, Owned(p, c)
      PROVE  (\A d \in Clients : Owned(pending[d], d)') /\ UsesMatchFeedback'
  <2>1. ASSUME NEW d \in Clients PROVE Owned(pending[d], d)'
    <3>1. CASE d = c
      BY <1>2, <3>1 DEF Writes, Owned
    <3>2. CASE d # c
      BY <1>0, <1>2, <3>2 DEF Writes, Owned
    <3> QED BY <3>1, <3>2
  <2>2. UsesMatchFeedback'
    BY <1>0, <1>2 DEF UsesMatchFeedback, UsesOf, UsesWith
  <2> QED BY <2>1, <2>2
<1>3. ASSUME NEW c \in Clients, NEW states \in Queries, SearchRead(c, states)
      PROVE  (\A d \in Clients : Owned(pending[d], d)') /\ UsesMatchFeedback'
  <2>1. PICK selected : /\ Writes(c, [op |-> "search", states |-> states, selected |-> selected])
                        /\ memory' = memory /\ retrieval' = retrieval
    BY <1>0, <1>3, SearchReads
  <2>2. Owned([op |-> "search", states |-> states, selected |-> selected], c)
    BY DEF Owned
  <2> QED BY <1>2, <2>1, <2>2
<1>4. ASSUME NEW c \in Clients, NEW r \in Retrievals, NEW used \in SUBSET Memories,
             NEW outcome \in Outcome, FeedbackRead(c, r, used, outcome)
      PROVE  (\A d \in Clients : Owned(pending[d], d)') /\ UsesMatchFeedback'
  <2> DEFINE p == [op |-> "feedback", event |-> r, used |-> used, outcome |-> outcome]
  <2>1. /\ retrieval[r].by = c /\ retrieval[r].outcome = NoOutcome
        /\ Writes(c, p) /\ memory' = memory /\ retrieval' = retrieval
    BY <1>0, <1>4, FeedbackReads
  <2>2. Owned(p, c)
    BY <2>1 DEF Owned
  <2> HIDE DEF p
  <2> QED BY <1>2, <2>1, <2>2
<1>5. ASSUME NEW c \in Clients, NEW m \in Memories, NEW target \in MemoryState, StateRead(c, m, target)
      PROVE  (\A d \in Clients : Owned(pending[d], d)') /\ UsesMatchFeedback'
  <2> DEFINE p == [op |-> "state", id |-> m, target |-> target]
  <2>1. Writes(c, p) /\ memory' = memory /\ retrieval' = retrieval
    BY <1>0, <1>5, StateReads
  <2>2. Owned(p, c)
    BY DEF Owned
  <2> HIDE DEF p
  <2> QED BY <1>2, <2>1, <2>2
<1>6. ASSUME NEW c \in Clients, Abandon(c)
      PROVE  (\A d \in Clients : Owned(pending[d], d)') /\ UsesMatchFeedback'
  <2>1. Owned(Idle, c)
    BY IdleTyped DEF Owned
  <2> QED BY <1>0, <1>2, <1>6, <2>1, AbandonWrites
<1>7. ASSUME NEW c \in Clients, NEW m \in Memories, NEW st \in MemoryState, Add(c, m, st)
      PROVE  (\A d \in Clients : Owned(pending[d], d)') /\ UsesMatchFeedback'
  <2>1. /\ DOMAIN memory' = DOMAIN memory \cup {m}
        /\ \A n \in DOMAIN memory : memory'[n] = memory[n]
        /\ \A n \in DOMAIN memory' \ DOMAIN memory : memory'[n] = New(st)
        /\ retrieval' = retrieval /\ pending' = pending
    BY <1>0, <1>7, AddWrites
  <2>2. \A d \in Clients : Owned(pending[d], d)'
    BY <1>0, <2>1 DEF Owned
  <2>3. ASSUME NEW n \in DOMAIN memory'
        PROVE  /\ memory'[n].uses = Cardinality(UsesOf(n)')
               /\ memory'[n].score = Cardinality(UsesWith(n, 1)') + 2 * Cardinality(UsesWith(n, 2)')
    <3>1. CASE n \in DOMAIN memory
      BY <1>0, <2>1, <3>1, CountsKept, SameUses DEF UsesMatchFeedback
    <3>2. CASE n \notin DOMAIN memory
      <4>1. memory'[n].uses = 0 /\ memory'[n].score = 0
        BY <2>1, <3>2 DEF New
      <4>2. UsesOf(n) = {}
        BY <3>2 DEF UsesOf, TypeInv, TypeOK
      <4>3. UsesOf(n)' = {} /\ UsesWith(n, 1)' = {} /\ UsesWith(n, 2)' = {}
        BY <2>1, <4>2 DEF UsesOf, UsesWith
      <4> QED BY <4>1, <4>3, FS_EmptySet
    <3> QED BY <3>1, <3>2
  <2> QED BY <2>2, <2>3 DEF UsesMatchFeedback
<1>8. ASSUME NEW c \in Clients, NEW r \in Retrievals, SearchTrace(c, r)
      PROVE  (\A d \in Clients : Owned(pending[d], d)') /\ UsesMatchFeedback'
  <2>0. /\ DOMAIN retrieval' = DOMAIN retrieval \cup {r} /\ r \notin DOMAIN retrieval
        /\ \A e \in DOMAIN retrieval : retrieval'[e] = retrieval[e]
        /\ retrieval'[r] = Traced(c) /\ memory' = memory /\ Writes(c, Idle)
    BY <1>8, TraceWrites
  <2>1. /\ DOMAIN retrieval' = DOMAIN retrieval \cup {r} /\ r \notin DOMAIN retrieval
        /\ \A e \in DOMAIN retrieval : retrieval'[e] = retrieval[e]
        /\ retrieval'[r].outcome = NoOutcome
        /\ memory' = memory /\ Writes(c, Idle)
    BY <2>0 DEF Traced
  <2>2. ASSUME NEW d \in Clients PROVE Owned(pending[d], d)'
    <3>1. CASE d = c
      BY <2>1, <3>1, IdleTyped DEF Writes, Owned
    <3>2. CASE d # c
      BY <1>0, <2>1, <3>2 DEF Writes, Owned, ReadHolds
    <3> QED BY <3>1, <3>2
  <2>3. ASSUME NEW n PROVE UsesOf(n)' = UsesOf(n) /\ \A o \in Outcome : UsesWith(n, o)' = UsesWith(n, o)
    <3>1. UsesOf(n)' = UsesOf(n)
      BY <2>1 DEF UsesOf
    <3> QED BY <2>1, <3>1 DEF UsesWith, UsesOf
  <2> QED BY <1>0, <2>1, <2>2, <2>3, CountsKept DEF UsesMatchFeedback
<1>9. ASSUME NEW c \in Clients, FeedbackWrite(c)
      PROVE  (\A d \in Clients : Owned(pending[d], d)') /\ UsesMatchFeedback'
  <2>1. /\ pending[c].op = "feedback" /\ pending[c].event \in DOMAIN retrieval
        /\ DOMAIN memory' = DOMAIN memory
        /\ \A e \in DOMAIN retrieval : e # pending[c].event => retrieval'[e] = retrieval[e]
        /\ Writes(c, Idle)
    BY <1>9, FeedbackWrites
  <2>2. ASSUME NEW d \in Clients PROVE Owned(pending[d], d)'
    <3>1. CASE d = c
      BY <2>1, <3>1, IdleTyped DEF Writes, Owned
    <3>2. CASE d # c
      BY <1>0, <2>1, <3>2 DEF Writes, Owned, ReadHolds
    <3> QED BY <3>1, <3>2
  <2> QED BY <1>9, <2>1, <2>2, OneMoreUse DEF UsesMatchFeedback
<1>10. ASSUME NEW c \in Clients, StateWrite(c)
       PROVE  (\A d \in Clients : Owned(pending[d], d)') /\ UsesMatchFeedback'
  <2>1. /\ DOMAIN memory' = DOMAIN memory
        /\ \A m \in DOMAIN memory :
             memory'[m].uses = memory[m].uses /\ memory'[m].score = memory[m].score
        /\ retrieval' = retrieval /\ Writes(c, Idle)
    BY <1>10, StateWrites
  <2>2. ASSUME NEW d \in Clients PROVE Owned(pending[d], d)'
    <3>1. CASE d = c
      BY <2>1, <3>1, IdleTyped DEF Writes, Owned
    <3>2. CASE d # c
      BY <1>0, <2>1, <3>2 DEF Writes, Owned
    <3> QED BY <3>1, <3>2
  <2> QED BY <1>0, <2>1, <2>2, CountsKept, SameUses DEF UsesMatchFeedback
<1>11. CASE UNCHANGED vars
  <2>1. memory' = memory /\ retrieval' = retrieval /\ pending' = pending
    BY <1>11 DEF vars
  <2>2. \A d \in Clients : Owned(pending[d], d)'
    BY <1>0, <2>1 DEF Owned
  <2>3. UsesMatchFeedback'
    BY <1>0, <2>1 DEF UsesMatchFeedback, UsesOf, UsesWith
  <2> QED BY <2>2, <2>3
<1> QED BY <1>3, <1>4, <1>5, <1>6, <1>7, <1>8, <1>9, <1>10, <1>11 DEF Next

-----------------------------------------------------------------------------
\* What is recalled, with one curator at most.

OneCurator == \A c, d \in Curators : c = d

\* What a client holds of the states, when it is client `d` that holds it.
Sound(p, d) ==
  /\ p.op = "search" /\ AsksUsable(p.states) =>
       \A m \in p.selected : memory[m].state \in Usable
  /\ p.op = "state" => d \in Curators
  /\ TargetFits(p)

Selected ==
  \A r \in DOMAIN retrieval : AsksUsable(retrieval[r].states) =>
    \A m \in retrieval[r].selected : memory[m].state \in Usable

\* The invariant of recalls, split into what is recorded and what each client
\* has read.
LEMMA RecallParts == RecallInv <=> Selected /\ \A d \in Clients : Sound(pending[d], d)
BY DEF RecallInv, Selected, Sound

\* How a step may change the state of a row: a usable one stays usable, and another
\* changes only by the curator at work on it.
StatesHold(m) ==
  /\ memory[m].state \in Usable => memory'[m].state \in Usable
  /\ memory[m].state \notin Usable => memory'[m].state = memory[m].state

\* What a client has read stays sound while the states of rows do not change.
LEMMA SoundKept ==
  ASSUME TypeInv, NEW d \in Clients, Sound(pending[d], d), pending'[d] = pending[d],
         \A m \in DOMAIN memory : StatesHold(m)
  PROVE  Sound(pending[d], d)'
<1>1. ReadHolds(pending[d])
  BY DEF TypeInv
<1>2. "rejected" \notin Usable
  BY DEF Usable
<1>3. pending[d].op = "search" /\ AsksUsable(pending[d].states) => \A m \in pending[d].selected : memory'[m].state \in Usable
  BY <1>1 DEF ReadHolds, Sound, StatesHold
<1>4. pending[d].op = "state" =>
        /\ memory'[pending[d].id].state \in Usable => pending[d].target \in Usable
        /\ memory'[pending[d].id].state = "rejected" => pending[d].target = "rejected"
  BY <1>1, <1>2 DEF ReadHolds, Sound, TargetFits, StatesHold
<1> QED BY <1>3, <1>4 DEF Sound, TargetFits

\* An idle client has nothing that could be unsound.
LEMMA IdleSound ==
  ASSUME NEW d, pending'[d] = Idle
  PROVE  Sound(pending[d], d)'
BY IdleTyped DEF Sound, TargetFits

\* Reading a state that allows the target, at which the target therefore fits.
LEMMA ReadKeepsRecall ==
  ASSUME TypeInv, RecallInv, NEW c \in Clients, NEW p, Writes(c, p),
         memory' = memory, retrieval' = retrieval, Sound(p, c)
  PROVE  RecallInv'
<1>1. ASSUME NEW d \in Clients PROVE Sound(pending[d], d)'
  <2>1. CASE d = c
    BY <2>1 DEF Writes, Sound, TargetFits
  <2>2. CASE d # c
    <3>1. pending'[d] = pending[d] /\ Sound(pending[d], d)
      BY <2>2, RecallParts DEF Writes
    <3> QED BY <3>1, SoundKept DEF StatesHold
  <2> QED BY <2>1, <2>2
<1>2. Selected'
  BY RecallParts DEF Selected
<1>3. (Selected /\ \A d \in Clients : Sound(pending[d], d))'
  BY <1>1, <1>2
<1> QED BY <1>3 DEF RecallInv, Selected, Sound

\* Every step keeps what was handed out usable.
LEMMA RecallStep ==
  ASSUME OneCurator, TypeInv, RecallInv, [Next]_vars
  PROVE  RecallInv'
<1>0. /\ TypeOK /\ Selected /\ \A d \in Clients : Sound(pending[d], d)
      /\ \A d \in Clients : ReadHolds(pending[d])
      /\ \A r \in DOMAIN retrieval : retrieval[r].selected \subseteq DOMAIN memory
  BY RecallParts DEF TypeInv
<1>a. ASSUME Selected', \A d \in Clients : Sound(pending[d], d)' PROVE RecallInv'
  BY <1>a DEF RecallInv, Selected, Sound
<1>1. ASSUME NEW c \in Clients, NEW states \in Queries, SearchRead(c, states) PROVE RecallInv'
  <2>1. PICK selected \in SUBSET DOMAIN memory :
          /\ AsksUsable(states) => \A m \in selected : memory[m].state \in Usable
          /\ Writes(c, [op |-> "search", states |-> states, selected |-> selected])
          /\ memory' = memory /\ retrieval' = retrieval
    BY <1>0, <1>1, SearchReads
  <2>2. Sound([op |-> "search", states |-> states, selected |-> selected], c)
    BY <2>1 DEF Sound, TargetFits
  <2> QED BY <2>1, <2>2, ReadKeepsRecall
<1>2. ASSUME NEW c \in Clients, NEW r \in Retrievals, NEW used \in SUBSET Memories,
             NEW outcome \in Outcome, FeedbackRead(c, r, used, outcome) PROVE RecallInv'
  <2> DEFINE p == [op |-> "feedback", event |-> r, used |-> used, outcome |-> outcome]
  <2>1. Writes(c, p) /\ memory' = memory /\ retrieval' = retrieval
    BY <1>0, <1>2, FeedbackReads
  <2>2. Sound(p, c)
    BY DEF Sound, TargetFits
  <2> HIDE DEF p
  <2> QED BY <2>1, <2>2, ReadKeepsRecall
<1>3. ASSUME NEW c \in Clients, NEW m \in Memories, NEW target \in MemoryState,
             StateRead(c, m, target) PROVE RecallInv'
  <2> DEFINE p == [op |-> "state", id |-> m, target |-> target]
  <2>1. /\ c \in Curators /\ m \in DOMAIN memory
        /\ target \in {memory[m].state} \cup AllowedStates[memory[m].state]
        /\ Writes(c, p) /\ memory' = memory /\ retrieval' = retrieval
    BY <1>0, <1>3, StateReads
  <2>2. memory[m].state \in Usable => target \in Usable
    BY <2>1 DEF Usable, AllowedStates
  <2>3. memory[m].state = "rejected" => target = "rejected"
    BY <2>1 DEF AllowedStates
  <2>4. Sound(p, c)
    BY <2>1, <2>2, <2>3 DEF Sound, TargetFits
  <2> HIDE DEF p
  <2> QED BY <2>1, <2>4, ReadKeepsRecall
<1>4. ASSUME NEW c \in Clients, Abandon(c) PROVE RecallInv'
  <2>1. Sound(Idle, c)
    BY IdleTyped DEF Sound, TargetFits
  <2> QED BY <1>0, <1>4, <2>1, AbandonWrites, ReadKeepsRecall
<1>5. ASSUME NEW c \in Clients, NEW m \in Memories, NEW st \in MemoryState, Add(c, m, st)
      PROVE  RecallInv'
  <2>1. /\ \A n \in DOMAIN memory : memory'[n] = memory[n]
        /\ retrieval' = retrieval /\ pending' = pending
    BY <1>0, <1>5, AddWrites
  <2>2. Selected'
    BY <1>0, <2>1 DEF Selected
  <2>3. \A d \in Clients : Sound(pending[d], d)'
    BY <1>0, <2>1, SoundKept DEF StatesHold
  <2> QED BY <1>a, <2>2, <2>3
<1>6. ASSUME NEW c \in Clients, NEW r \in Retrievals, SearchTrace(c, r) PROVE RecallInv'
  <2>0. /\ DOMAIN retrieval' = DOMAIN retrieval \cup {r}
        /\ \A e \in DOMAIN retrieval : retrieval'[e] = retrieval[e]
        /\ retrieval'[r] = Traced(c) /\ pending[c].op = "search"
        /\ memory' = memory /\ Writes(c, Idle)
    BY <1>6, TraceWrites
  <2>1. retrieval'[r].selected = pending[c].selected /\ retrieval'[r].states = pending[c].states
    BY <2>0 DEF Traced
  <2>2. AsksUsable(pending[c].states) => \A m \in pending[c].selected : memory[m].state \in Usable
    BY <1>0, <2>0 DEF Sound
  <2>3. Selected'
    BY <1>0, <2>0, <2>1, <2>2 DEF Selected
  <2>4. ASSUME NEW d \in Clients PROVE Sound(pending[d], d)'
    <3>1. CASE d = c
      BY <2>0, <3>1, IdleSound DEF Writes
    <3>2. CASE d # c
      BY <1>0, <2>0, <3>2, SoundKept DEF Writes, StatesHold
    <3> QED BY <3>1, <3>2
  <2> QED BY <1>a, <2>3, <2>4
<1>7. ASSUME NEW c \in Clients, FeedbackWrite(c) PROVE RecallInv'
  <2>1. /\ DOMAIN retrieval' = DOMAIN retrieval /\ pending[c].event \in DOMAIN retrieval
        /\ \A e \in DOMAIN retrieval : e # pending[c].event => retrieval'[e] = retrieval[e]
        /\ retrieval'[pending[c].event].selected = retrieval[pending[c].event].selected
        /\ retrieval'[pending[c].event].states = retrieval[pending[c].event].states
        /\ \A m \in DOMAIN memory \ pending[c].used : memory'[m] = memory[m]
        /\ \A m \in DOMAIN memory \cap pending[c].used :
             memory'[m] = AfterUse(memory[m], pending[c].outcome)
        /\ pending[c].outcome \in Outcome /\ Writes(c, Idle)
    BY <1>7, FeedbackWrites
  <2>2. ASSUME NEW m \in DOMAIN memory PROVE StatesHold(m)
    <3>1. CASE m \in pending[c].used
      <4>1. memory[m] \in Record /\ memory'[m] = AfterUse(memory[m], pending[c].outcome)
        BY <1>0, <2>1, <3>1 DEF TypeOK
      <4> QED BY <2>1, <4>1, AfterUseTyped DEF StatesHold
    <3>2. CASE m \notin pending[c].used
      BY <2>1, <3>2 DEF StatesHold
    <3> QED BY <3>1, <3>2
  <2>3. \A e \in DOMAIN retrieval :
          retrieval'[e].selected = retrieval[e].selected /\ retrieval'[e].states = retrieval[e].states
    BY <2>1
  <2>4. Selected'
    BY <1>0, <2>1, <2>2, <2>3 DEF Selected, StatesHold
  <2>5. ASSUME NEW d \in Clients PROVE Sound(pending[d], d)'
    <3>1. CASE d = c
      BY <2>1, <3>1, IdleSound DEF Writes
    <3>2. CASE d # c
      BY <1>0, <2>1, <2>2, <3>2, SoundKept DEF Writes
    <3> QED BY <3>1, <3>2
  <2> QED BY <1>a, <2>4, <2>5
<1>8. ASSUME NEW c \in Clients, StateWrite(c) PROVE RecallInv'
  <2>1. /\ pending[c].op = "state" /\ pending[c].id \in DOMAIN memory
        /\ \A m \in DOMAIN memory : m # pending[c].id => memory'[m] = memory[m]
        /\ memory'[pending[c].id].state = pending[c].target
        /\ retrieval' = retrieval /\ Writes(c, Idle)
    BY <1>8, StateWrites
  <2>2. Sound(pending[c], c)
    BY <1>0
  <2>3. ASSUME NEW m \in DOMAIN memory, memory[m].state \in Usable PROVE memory'[m].state \in Usable
    BY <2>1, <2>2, <2>3 DEF Sound, TargetFits
  <2>4. Selected'
    BY <1>0, <2>1, <2>3 DEF Selected
  <2>5. ASSUME NEW d \in Clients PROVE Sound(pending[d], d)'
    <3>1. CASE d = c
      BY <2>1, <3>1, IdleSound DEF Writes
    <3>2. CASE d # c
      <4>1. pending'[d] = pending[d] /\ Sound(pending[d], d) /\ ReadHolds(pending[d])
        BY <1>0, <2>1, <3>2 DEF Writes
      <4>2. pending[d].op # "state"
        BY <2>1, <2>2, <3>2, <4>1 DEF Sound, OneCurator
      <4>3. pending[d].op = "search" /\ AsksUsable(pending[d].states) => \A m \in pending[d].selected : memory'[m].state \in Usable
        BY <2>3, <4>1 DEF Sound, ReadHolds
      <4> QED BY <4>1, <4>2, <4>3 DEF Sound, TargetFits
    <3> QED BY <3>1, <3>2
  <2> QED BY <1>a, <2>4, <2>5
<1>9. CASE UNCHANGED vars
  <2>1. memory' = memory /\ retrieval' = retrieval /\ pending' = pending
    BY <1>9 DEF vars
  <2> QED BY <2>1 DEF RecallInv, TargetFits
<1> QED BY <1>1, <1>2, <1>3, <1>4, <1>5, <1>6, <1>7, <1>8, <1>9 DEF Next

\* A rejected row is changed by nobody: feedback leaves its state alone, and what the
\* curator at work on it is about to write is that it is rejected.
LEMMA RejectionStep ==
  ASSUME TypeInv, RecallInv, Next, NEW m \in DOMAIN memory, memory[m].state = "rejected"
  PROVE  memory'[m].state = "rejected"
<1>0. TypeOK /\ memory[m] \in Record /\ "rejected" \notin Usable
  BY DEF TypeInv, TypeOK, Usable
<1>1. ASSUME NEW c \in Clients, NEW n \in Memories, NEW st \in MemoryState, Add(c, n, st)
      PROVE  memory'[m].state = "rejected"
  BY <1>0, <1>1, AddWrites
<1>2. ASSUME NEW c \in Clients, FeedbackWrite(c) PROVE memory'[m].state = "rejected"
  <2>1. /\ m \notin pending[c].used => memory'[m] = memory[m]
        /\ m \in pending[c].used => memory'[m] = AfterUse(memory[m], pending[c].outcome)
        /\ pending[c].outcome \in Outcome
    BY <1>2, FeedbackWrites
  <2> QED BY <1>0, <2>1, AfterUseTyped
<1>3. ASSUME NEW c \in Clients, StateWrite(c) PROVE memory'[m].state = "rejected"
  <2>1. /\ pending[c].op = "state"
        /\ m # pending[c].id => memory'[m] = memory[m]
        /\ memory'[pending[c].id].state = pending[c].target
    BY <1>3, StateWrites
  <2>2. TargetFits(pending[c])
    BY DEF RecallInv
  <2> QED BY <2>1, <2>2 DEF TargetFits
<1>4. ASSUME memory' = memory PROVE memory'[m].state = "rejected"
  BY <1>4
<1> QED BY <1>1, <1>2, <1>3, <1>4 DEF Next, SearchRead, SearchTrace, FeedbackRead, StateRead, Abandon

-----------------------------------------------------------------------------
\* The theorems.

\* The type invariant, with what reads imply, holds in every reachable state.
LEMMA Typed == Spec => []TypeInv
<1>1. Init => TypeInv
  BY Initially
<1> QED BY <1>1, TypeStep, PTL DEF Spec

\* The rows and what clients have read of them are typed: a retrieval selects no
\* more than its budget, and feedback names only memories it selected.
THEOREM TypeCorrect == Spec => []TypeOK
<1>1. TypeInv => TypeOK
  BY DEF TypeInv
<1> QED BY <1>1, Typed, PTL

\* With any number of clients reporting at once, each on its own retrievals, the
\* usage count and score of a memory are those of the feedback on record.
THEOREM UsesAreFeedback ==
  ASSUME SharedFeedback = FALSE
  PROVE  Spec => []UsesMatchFeedback
<1>1. Init => UsesInv
  BY Initially
<1>2. TypeInv /\ UsesInv /\ [Next]_vars => UsesInv'
  BY UsesStep
<1>3. UsesInv => UsesMatchFeedback
  BY DEF UsesInv
<1> QED BY <1>1, <1>2, <1>3, Typed, PTL DEF Spec

\* With one curator at most and any number of clients that search and report, what
\* a retrieval that asked for usable memories handed out stays usable.
THEOREM RecalledStaysUsable ==
  ASSUME OneCurator
  PROVE  Spec => []RecallStaysUsable
<1>1. Init => RecallInv
  BY Initially
<1>2. TypeInv /\ RecallInv /\ [Next]_vars => RecallInv'
  BY RecallStep
<1>3. TypeInv /\ RecallInv => RecallStaysUsable
  BY DEF TypeInv, RecallInv, RecallStaysUsable, AsksUsable
<1> QED BY <1>1, <1>2, <1>3, Typed, PTL DEF Spec

\* With one curator at most, a rejected memory stays rejected.
THEOREM RejectionStays ==
  ASSUME OneCurator
  PROVE  Spec => RejectionIsFinal
<1>1. Init => RecallInv
  BY Initially
<1>2. TypeInv /\ RecallInv /\ [Next]_vars => RecallInv'
  BY RecallStep
<1>3. TypeInv /\ RecallInv /\ [Next]_vars =>
        [\A m \in DOMAIN memory :
           memory[m].state = "rejected" => memory'[m].state = "rejected"]_vars
  BY RejectionStep
<1> QED BY <1>1, <1>2, <1>3, Typed, PTL DEF Spec, RejectionIsFinal

===============================================================================
