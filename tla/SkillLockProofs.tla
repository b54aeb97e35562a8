--------------------------- MODULE SkillLockProofs ---------------------------
(***************************************************************************)
(* Theorems about SkillLock, for every set of processes and references and *)
(* any number of commits and commands.                                     *)
(***************************************************************************)
EXTENDS SkillLock, TLAPS

Genuine(e) == e # Unlocked /\ e.revision \notin raced => e.hash = e.revision

\* A snapshot that has its marker, or whose extraction is over, is whole.
SnapshotsWhole ==
  /\ \A v \in marked \ raced : snapshot[v] = "whole"
  /\ \A p \in Procs : command[p].pc \in {"mark", "read"} /\ command[p].revision \notin raced =>
       snapshot[command[p].revision] = "whole"

\* What a process remembers of the lock, and what it has read, is genuine.
HonestAt(p) ==
  /\ \A r \in Refs : Genuine(command[p].memory[r])
  /\ command[p].pc \in {"found", "saving removal", "saving entry"} =>
       Genuine(Found(p))

\* A process works on one reference at a time, and is done with those it hands out.
OrderlyAt(p) ==
  /\ command[p].pc \notin {"idle", "next"} => command[p].ref \in command[p].todo
  /\ \A h \in command[p].handed : h.ref \notin command[p].todo /\ command[p].memory[h.ref] = h.entry
  /\ command[p].pc = "saving entry" => command[p].memory[command[p].ref] = Found(p)
  /\ command[p].pc = "saving removal" => command[p].kind = "update"
  /\ command[p].pc = "found" /\ command[p].kind # "update" =>
       command[p].memory[command[p].ref] = Unlocked

\* What the file says to a process since whose load nobody else saved.
FreshAt(p) ==
  p \in fresh =>
    /\ command[p].pc # "idle"
    /\ ~Saving(p) => lock.text \in {"none", "text"} /\ lock.entries = command[p].memory
    /\ Saving(p) => /\ lock.text = "empty"
                    /\ \A r \in Refs \ {command[p].ref} : lock.entries[r] = command[p].memory[r]
                    /\ command[p].kind # "update" => lock.entries[command[p].ref] = Unlocked

LockInv ==
  /\ \A r \in Refs : Genuine(lock.entries[r])
  /\ lock.text = "none" => lock.entries = Nothing

Inv == /\ TypeOK /\ SnapshotsWhole /\ LockInv
       /\ \A p \in Procs : HonestAt(p) /\ OrderlyAt(p) /\ FreshAt(p)

-----------------------------------------------------------------------------
\* What a step writes into the record of the process that takes it.

Writes(p, c) ==
  /\ command' \in [Procs -> Commands] /\ command'[p] = c
  /\ \A q \in Procs \ {p} : command'[q] = command[q]

\* The idle command is a command.
LEMMA IdleTyped == Idle \in Commands
BY DEF Idle, Commands, Kinds, Nothing, Partial

\* A step that sets the command of one process leaves that of the others.
LEMMA Replaced ==
  ASSUME TypeOK, NEW p \in Procs, NEW c \in Commands, command' = [command EXCEPT ![p] = c]
  PROVE  Writes(p, c)
BY DEF TypeOK, Writes

\* A command that ends leaves its process idle, its copy of the lockfile gone.
LEMMA EndedWrites ==
  ASSUME TypeOK, NEW p \in Procs, Ended(p)
  PROVE  Writes(p, Idle) /\ fresh' = fresh \ {p}
BY IdleTyped, Replaced DEF Ended

\* Going to another place of a command changes nothing else of it.
LEMMA GotoWrites ==
  ASSUME TypeOK, NEW p \in Procs,
         NEW pc \in {"idle", "next", "materialize", "extract", "fill", "mark", "read", "found",
                     "saving removal", "saving entry"},
         Goto(p, pc)
  PROVE  Writes(p, [command[p] EXCEPT !.pc = pc])
<1>0. command \in [Procs -> Commands] /\ command[p] \in Commands
  BY DEF TypeOK
<1>1. [command[p] EXCEPT !.pc = pc] \in Commands
  BY <1>0 DEF Commands
<1>2. command' = [command EXCEPT ![p] = [command[p] EXCEPT !.pc = pc]]
  BY <1>0 DEF Goto
<1> QED BY <1>1, <1>2, Replaced

GoneOn(p, r, answer) ==
  [command[p] EXCEPT !.pc = "next", !.todo = @ \ {r}, !.handed = @ \cup answer,
                     !.ref = NoRef, !.revision = 0, !.content = 0]

\* Going on to the next reference, or ending after the last one.
LEMMA GoOnWrites ==
  ASSUME TypeOK, NEW p \in Procs, NEW r \in Refs, NEW answer \in SUBSET [ref: Refs, entry: Entry],
         GoOn(p, r, answer)
  PROVE  Writes(p, GoneOn(p, r, answer))
<1>0. command \in [Procs -> Commands] /\ command[p] \in Commands
  BY DEF TypeOK
<1>1. GoneOn(p, r, answer) \in Commands
  BY <1>0 DEF Commands, GoneOn, Partial
<1>2. command' = [command EXCEPT ![p] = GoneOn(p, r, answer)]
  BY DEF GoOn, GoneOn
<1> QED BY <1>1, <1>2, Replaced

Materializing(p, r, v) == [command[p] EXCEPT !.pc = "materialize", !.ref = r, !.revision = v]

\* Choosing a revision only sets the command to look for its snapshot.
LEMMA MaterializeWrites ==
  ASSUME TypeOK, NEW p \in Procs, NEW r \in Refs, NEW v \in Revisions, Materialize(p, r, v)
  PROVE  Writes(p, Materializing(p, r, v)) /\ fresh' = fresh
<1>0. command \in [Procs -> Commands] /\ command[p] \in Commands
  BY DEF TypeOK
<1>1. Materializing(p, r, v) \in Commands
  BY <1>0 DEF Commands, Materializing
<1>2. command' = [command EXCEPT ![p] = Materializing(p, r, v)]
  BY <1>0 DEF Materialize, Materializing
<1> QED BY <1>1, <1>2, Replaced DEF Materialize

\* A missing source is skipped, or ends the command.
LEMMA MissingWrites ==
  ASSUME TypeOK, NEW p \in Procs, NEW r \in Refs, Missing(p, r)
  PROVE  \/ Writes(p, GoneOn(p, r, {})) /\ fresh' = fresh
         \/ Writes(p, Idle) /\ fresh' = fresh \ {p}
<1>1. CASE GoOn(p, r, {}) /\ UNCHANGED fresh
  BY <1>1, GoOnWrites
<1>2. CASE Ended(p)
  BY <1>2, EndedWrites
<1> QED BY <1>1, <1>2 DEF Missing

Began(kind, todo) ==
  [Idle EXCEPT !.pc = "next", !.kind = kind, !.todo = todo, !.memory = lock.entries]

\* A command begins with the lockfile it could read.
LEMMA BeginWrites ==
  ASSUME TypeOK, NEW p \in Procs, Begin(p)
  PROVE  /\ \E kind \in Kinds, todo \in SUBSET Refs : Writes(p, Began(kind, todo))
         /\ command[p].pc = "idle" /\ lock.text \in {"none", "text"} /\ ran' \in 0..MaxCommands
         /\ fresh' \subseteq fresh \cup {p}
<1>1. PICK kind \in Kinds, todo \in SUBSET Refs :
        command' = [command EXCEPT ![p] = Began(kind, todo)]
  BY DEF Begin, Began
<1>2. Began(kind, todo) \in Commands
  BY IdleTyped DEF Began, Commands, TypeOK
<1>3. ran' \in 0..MaxCommands
  BY SkillAssumption DEF Begin, TypeOK
<1>4. Writes(p, Began(kind, todo))
  BY <1>1, <1>2, Replaced
<1>5. fresh' \subseteq fresh \cup {p}
  BY DEF Begin
<1> QED BY <1>3, <1>4, <1>5 DEF Begin

Saves(p, memory, pc) == [command[p] EXCEPT !.pc = pc, !.memory = memory]

\* A save begins by emptying the file, and makes the copies of all others
\* stale.
LEMMA SaveBeginWrites ==
  ASSUME TypeOK, NEW p \in Procs, NEW memory \in [Refs -> Entry \cup {Unlocked}],
         NEW pc \in {"saving removal", "saving entry"}, SaveBegin(p, memory, pc)
  PROVE  /\ Writes(p, Saves(p, memory, pc))
         /\ lock'.text = "empty" /\ lock'.entries = lock.entries /\ fresh' = fresh \cap {p}
<1>0. command \in [Procs -> Commands] /\ command[p] \in Commands
  BY DEF TypeOK
<1>1. Saves(p, memory, pc) \in Commands
  BY <1>0 DEF Commands, Saves
<1>2. command' = [command EXCEPT ![p] = Saves(p, memory, pc)]
  BY <1>0 DEF SaveBegin, Saves
<1> QED BY <1>1, <1>2, Replaced DEF SaveBegin, TypeOK

\* What is read from a snapshot is typed, and so is the entry it makes.
LEMMA FoundTyped ==
  ASSUME TypeOK, NEW p \in Procs, command[p].pc \notin {"idle", "next"}
  PROVE  /\ command[p] \in Commands /\ command[p].ref \in Refs /\ command[p].revision \in Revisions
         /\ Found(p) \in Entry /\ Found(p) # Unlocked
<1>1. command[p] \in Commands /\ command[p].ref \in Refs /\ command[p].revision \in Revisions
  BY DEF TypeOK
<1>2. command[p].content \in Revisions \cup {Partial}
  BY <1>1 DEF Commands
<1>3. command[p].revision # 0
  BY <1>1 DEF Revisions
<1> QED BY <1>1, <1>2, <1>3 DEF Found, Entry, Unlocked

At(p, pc) == [command[p] EXCEPT !.pc = pc]

\* The ways a command can fail or skip reference `r`.
Skips(p, r) ==
  \/ Writes(p, GoneOn(p, r, {})) /\ fresh' = fresh
  \/ Writes(p, Idle) /\ fresh' = fresh \ {p}

\* A locked revision is one of the provider's.
LEMMA PinnedTyped ==
  ASSUME TypeOK, NEW p \in Procs, NEW r \in Refs, UsesLock(p, r)
  PROVE  command[p].memory[r] \in Entry /\ command[p].memory[r].revision \in Revisions
<1>1. command[p] \in Commands
  BY DEF TypeOK
<1>2. command[p].memory[r] \in Entry
  BY <1>1 DEF UsesLock, Commands
<1> QED BY <1>2 DEF Entry

\* The mirror is at a revision the provider has, or there is none.
LEMMA MirrorTyped ==
  ASSUME TypeOK, NEW p \in Procs, EnsureMirror(p)
  PROVE  mirror' \in 0..upstream /\ (mirror' # 0 => mirror' \in Revisions)
BY SkillAssumption DEF TypeOK, EnsureMirror, Revisions

\* Resolving a reference chooses a revision or gives the reference up.
LEMMA ResolveWrites ==
  ASSUME TypeOK, NEW p \in Procs, Resolve(p)
  PROVE  /\ command[p].pc = "next" /\ mirror' \in 0..upstream
         /\ \E r \in command[p].todo :
              \/ \E v \in Revisions : Writes(p, Materializing(p, r, v)) /\ fresh' = fresh
              \/ Skips(p, r)
<1>1. PICK r \in command[p].todo :
        IF UsesLock(p, r)
          THEN Materialize(p, r, command[p].memory[r].revision) /\ UNCHANGED mirror
          ELSE /\ EnsureMirror(p)
               /\ IF mirror' = 0 THEN Missing(p, r) ELSE Materialize(p, r, mirror')
  BY DEF Resolve
<1>2. r \in Refs /\ mirror \in 0..upstream
  BY DEF TypeOK, Commands
<1>3. CASE UsesLock(p, r)
  BY <1>1, <1>2, <1>3, PinnedTyped, MaterializeWrites DEF Resolve
<1>4. CASE ~UsesLock(p, r)
  <2>1. mirror' \in 0..upstream /\ (mirror' # 0 => mirror' \in Revisions)
    BY <1>1, <1>4, MirrorTyped
  <2>2. CASE mirror' = 0
    <3>1. Missing(p, r)
      BY <1>1, <1>4, <2>2
    <3>2. Skips(p, r)
      BY <1>2, <3>1, MissingWrites DEF Skips
    <3> QED BY <2>1, <3>2 DEF Resolve
  <2>3. CASE mirror' # 0
    <3>1. Materialize(p, r, mirror')
      BY <1>1, <1>4, <2>3
    <3>2. Writes(p, Materializing(p, r, mirror')) /\ fresh' = fresh
      BY <1>2, <2>1, <2>3, <3>1, MaterializeWrites
    <3> QED BY <2>1, <2>3, <3>2 DEF Resolve
  <2> QED BY <2>2, <2>3
<1> QED BY <1>3, <1>4

\* A snapshot that is marked is read, any other is extracted, or its fetch
\* fails.
LEMMA FindSnapshotWrites ==
  ASSUME TypeOK, NEW p \in Procs, FindSnapshot(p)
  PROVE  /\ command[p].pc = "materialize" /\ mirror' \in 0..upstream
         /\ \/ command[p].revision \in marked /\ Writes(p, At(p, "read")) /\ fresh' = fresh
            \/ Writes(p, At(p, "extract")) /\ fresh' = fresh
            \/ Skips(p, command[p].ref)
<1>1. command[p].pc = "materialize" /\ command[p].ref \in Refs /\ mirror \in 0..upstream
  BY DEF TypeOK, FindSnapshot
<1>2. CASE command[p].revision \in marked
  <2>1. Goto(p, "read") /\ mirror' = mirror /\ fresh' = fresh
    BY <1>2 DEF FindSnapshot
  <2> QED BY <1>1, <1>2, <2>1, GotoWrites DEF At
<1>3. CASE command[p].revision \notin marked
  <2>1. /\ EnsureMirror(p)
        /\ \/ Missing(p, command[p].ref)
           \/ Ended(p)
           \/ Goto(p, "extract") /\ fresh' = fresh
    BY <1>3 DEF FindSnapshot
  <2>2. mirror' \in 0..upstream
    BY <2>1, MirrorTyped
  <2>3. Missing(p, command[p].ref) => Skips(p, command[p].ref)
    BY <1>1, MissingWrites DEF Skips
  <2>4. Ended(p) => Skips(p, command[p].ref)
    BY EndedWrites DEF Skips
  <2>5. Goto(p, "extract") => Writes(p, At(p, "extract"))
    BY GotoWrites DEF At
  <2> QED BY <1>1, <2>1, <2>2, <2>3, <2>4, <2>5
<1> QED BY <1>2, <1>3

FileContent(v) == IF snapshot[v] = "whole" THEN v ELSE Partial
ReadInto(p) == [command[p] EXCEPT !.pc = "found", !.content = FileContent(command[p].revision)]
Answer(r, e) == {[ref |-> r, entry |-> e]}

\* What a command hands out is references with entries.
LEMMA AnswerTyped ==
  ASSUME NEW r \in Refs, NEW e \in Entry
  PROVE  Answer(r, e) \in SUBSET [ref: Refs, entry: Entry]
BY DEF Answer

\* Reading a snapshot ends in its hash, in what the lock had, or in giving up.
LEMMA ReadWrites ==
  ASSUME TypeOK, NEW p \in Procs, Read(p)
  PROVE  LET r == command[p].ref IN
         /\ command[p].pc = "read" /\ r \in Refs
         /\ \/ ~UsesLock(p, r) /\ Writes(p, ReadInto(p)) /\ fresh' = fresh
            \/ /\ UsesLock(p, r) /\ fresh' = fresh
               /\ Writes(p, GoneOn(p, r, Answer(r, command[p].memory[r])))
            \/ Skips(p, r)
<1> DEFINE r == command[p].ref
           v == command[p].revision
           content == FileContent(v)
           pinned == command[p].memory[r]
<1>1. /\ command[p].pc = "read" /\ r \in Refs /\ v \in Revisions
      /\ command \in [Procs -> Commands] /\ command[p] \in Commands
  BY DEF TypeOK, Read
<1>2. CASE ~UsesLock(p, r)
  <2>1. command' = [command EXCEPT ![p].pc = "found", ![p].content = content] /\ fresh' = fresh
    BY <1>2 DEF Read, FileContent
  <2>2. content \in Revisions \cup {Partial}
    BY <1>1 DEF FileContent
  <2> HIDE DEF content
  <2>3. [command[p] EXCEPT !.pc = "found", !.content = content] \in Commands
    BY <1>1, <2>2 DEF Commands
  <2>4. command' = [command EXCEPT ![p] = [command[p] EXCEPT !.pc = "found", !.content = content]]
    BY <1>1, <2>1 DEF Commands
  <2>5. Writes(p, [command[p] EXCEPT !.pc = "found", !.content = content])
    BY <2>3, <2>4, Replaced
  <2> QED BY <1>1, <1>2, <2>1, <2>5 DEF ReadInto, content
<1>3. CASE UsesLock(p, r)
  <2>1. pinned \in Entry /\ pinned.revision \in Revisions
    BY <1>1, <1>3, PinnedTyped
  <2>2. CASE content = pinned.hash
    <3>1. HandOut(p, [revision |-> pinned.revision, hash |-> content]) /\ fresh' = fresh
      BY <1>3, <2>2 DEF Read, FileContent
    <3>2. [revision |-> pinned.revision, hash |-> content] = pinned
      BY <2>1, <2>2 DEF Entry
    <3>3. GoOn(p, r, Answer(r, pinned))
      BY <3>1, <3>2 DEF HandOut, Answer
    <3>4. Writes(p, GoneOn(p, r, Answer(r, pinned)))
      BY <1>1, <2>1, <3>3, AnswerTyped, GoOnWrites
    <3> QED BY <1>1, <1>3, <3>1, <3>4
  <2>3. CASE content # pinned.hash
    <3>1. Missing(p, r) \/ Ended(p)
      BY <1>3, <2>3 DEF Read, FileContent
    <3>2. Skips(p, r)
      BY <1>1, <3>1, MissingWrites, EndedWrites DEF Skips
    <3> QED BY <1>1, <3>2
  <2> QED BY <2>2, <2>3
<1> QED BY <1>2, <1>3

\* A save ends with the file holding the memory of the command, whole unless
\* another save ended meanwhile.
LEMMA SaveEndWrites ==
  ASSUME TypeOK, NEW p \in Procs, SaveEnd(p)
  PROVE  /\ Saving(p) /\ command[p].ref \in Refs
         /\ lock'.entries = command[p].memory /\ fresh' = fresh \cap {p}
         /\ lock' \in [text: {"text", "torn"}, entries: [Refs -> Entry \cup {Unlocked}]]
         /\ lock.text = "empty" => lock'.text = "text"
         /\ \/ command[p].pc = "saving removal" /\ Writes(p, At(p, "found"))
            \/ /\ command[p].pc = "saving entry"
               /\ Writes(p, GoneOn(p, command[p].ref, Answer(command[p].ref, Found(p))))
<1>1. Saving(p) /\ command[p].ref \in Refs /\ command[p] \in Commands /\ Found(p) \in Entry
  BY FoundTyped DEF SaveEnd, Saving
<1>2. PICK text \in {"text", "torn"} :
        lock' = [text |-> text, entries |-> command[p].memory] /\ (lock.text = "empty" => text = "text")
  BY DEF SaveEnd
<1>3. CASE command[p].pc = "saving removal"
  <2>1. Writes(p, At(p, "found"))
    BY <1>3, GotoWrites DEF SaveEnd, At
  <2> QED BY <1>1, <1>2, <1>3, <2>1 DEF SaveEnd, Commands
<1>4. CASE command[p].pc = "saving entry"
  <2>1. GoOn(p, command[p].ref, Answer(command[p].ref, Found(p)))
    BY <1>4 DEF SaveEnd, HandOut, Answer
  <2>2. Writes(p, GoneOn(p, command[p].ref, Answer(command[p].ref, Found(p))))
    BY <1>1, <2>1, AnswerTyped, GoOnWrites
  <2> QED BY <1>1, <1>2, <1>4, <2>2 DEF SaveEnd, Commands
<1> QED BY <1>1, <1>3, <1>4 DEF Saving

\* An update first saves the lock without its reference.
LEMMA RemoveWrites ==
  ASSUME TypeOK, NEW p \in Procs, Remove(p)
  PROVE  /\ command[p].pc = "found" /\ command[p].kind = "update"
         /\ Writes(p, Saves(p, [command[p].memory EXCEPT ![command[p].ref] = Unlocked], "saving removal"))
         /\ lock'.text = "empty" /\ lock'.entries = lock.entries /\ fresh' = fresh \cap {p}
<1>1. command[p].pc = "found" /\ command[p] \in Commands
  BY DEF Remove, TypeOK
<1>2. [command[p].memory EXCEPT ![command[p].ref] = Unlocked] \in [Refs -> Entry \cup {Unlocked}]
  BY <1>1 DEF Commands
<1> QED BY <1>1, <1>2, SaveBeginWrites DEF Remove

\* A found entry is put in the memory of the command and saved.
LEMMA PutWrites ==
  ASSUME TypeOK, NEW p \in Procs, Put(p)
  PROVE  /\ command[p].pc = "found"
         /\ command[p].kind = "update" => command[p].memory[command[p].ref] = Unlocked
         /\ Writes(p, Saves(p, [command[p].memory EXCEPT ![command[p].ref] = Found(p)], "saving entry"))
         /\ lock'.text = "empty" /\ lock'.entries = lock.entries /\ fresh' = fresh \cap {p}
<1>1. command[p].pc = "found" /\ command[p] \in Commands /\ Found(p) \in Entry
  BY FoundTyped DEF Put
<1>2. [command[p].memory EXCEPT ![command[p].ref] = Found(p)] \in [Refs -> Entry \cup {Unlocked}]
  BY <1>1 DEF Commands
<1> QED BY <1>1, <1>2, SaveBeginWrites DEF Put

\* verify() goes on past a reference whose fetch fails.
LEMMA FetchFailsWrites ==
  ASSUME TypeOK, NEW p \in Procs, FetchFails(p)
  PROVE  command[p].pc = "materialize" /\ command[p].ref \in Refs
         /\ Writes(p, GoneOn(p, command[p].ref, {})) /\ fresh' = fresh
<1>1. command[p].pc = "materialize" /\ command[p].ref \in Refs
  BY DEF FetchFails, TypeOK
<1> QED BY <1>1, GoOnWrites DEF FetchFails

\* Extracting, filling and marking a snapshot move on to the next of these steps.
LEMMA ArchiveWrites ==
  ASSUME TypeOK, NEW p \in Procs
  PROVE  /\ Extract(p) => Writes(p, At(p, "fill")) /\ fresh' = fresh
         /\ Fill(p) => Writes(p, At(p, "mark")) /\ fresh' = fresh
         /\ Mark(p) => Writes(p, At(p, "read")) /\ fresh' = fresh
BY GotoWrites DEF Extract, Fill, Mark, At

\* A command that returns or dies leaves its process idle.
LEMMA EndWrites ==
  ASSUME TypeOK, NEW p \in Procs, Return(p) \/ Abandon(p)
  PROVE  Writes(p, Idle) /\ fresh' = fresh \ {p}
BY EndedWrites DEF Return, Abandon

-----------------------------------------------------------------------------
\* Type correctness.

\* What a step does, whichever it is.
LEMMA StepShape ==
  ASSUME TypeOK, NEW p \in Procs, Step(p)
  PROVE  /\ command' \in [Procs -> Commands]
         /\ \A q \in Procs \ {p} : command'[q] = command[q]
         /\ command'[p].pc \notin {"idle", "next"} =>
              command'[p].ref \in Refs /\ command'[p].revision \in Revisions
         /\ fresh' \subseteq fresh \cup {p}
<1> DEFINE Goal(c) == c.pc \notin {"idle", "next"} => c.ref \in Refs /\ c.revision \in Revisions
<1> DEFINE Done == \E c : Writes(p, c) /\ Goal(c) /\ fresh' \subseteq fresh \cup {p}
<1>0. command[p] \in Commands /\ Goal(command[p])
  BY DEF TypeOK
<1>1. ASSUME NEW r, Skips(p, r) PROVE Done
  <2>1. Goal(GoneOn(p, r, {})) /\ Goal(Idle)
    BY <1>0 DEF GoneOn, Idle, Commands
  <2> HIDE DEF Goal
  <2> QED BY <1>1, <2>1 DEF Skips
<1>2. ASSUME NEW r, NEW answer, Writes(p, GoneOn(p, r, answer)), fresh' \subseteq fresh \cup {p} PROVE Done
  <2>1. Goal(GoneOn(p, r, answer))
    BY <1>0 DEF GoneOn, Commands
  <2> HIDE DEF Goal
  <2> QED BY <1>2, <2>1
<1>3. ASSUME NEW pc, command[p].pc \notin {"idle", "next"}, Writes(p, At(p, pc)), fresh' \subseteq fresh \cup {p}
      PROVE  Done
  <2>1. Goal(At(p, pc))
    BY <1>0, <1>3 DEF At, Commands
  <2> HIDE DEF Goal
  <2> QED BY <1>3, <2>1
<1>4. ASSUME Begin(p) PROVE Done
  <2>1. PICK kind \in Kinds, todo \in SUBSET Refs : Writes(p, Began(kind, todo))
    BY <1>4, BeginWrites
  <2>2. Goal(Began(kind, todo))
    BY DEF Began, Idle
  <2> HIDE DEF Goal
  <2> QED BY <1>4, <2>1, <2>2, BeginWrites
<1>5. ASSUME Resolve(p) PROVE Done
  <2>1. ASSUME NEW r \in Refs, NEW v \in Revisions, Writes(p, Materializing(p, r, v)), fresh' = fresh PROVE Done
    <3>1. Goal(Materializing(p, r, v))
      BY <1>0 DEF Materializing, Commands
    <3> HIDE DEF Goal
    <3> QED BY <2>1, <3>1
  <2>2. command[p].todo \subseteq Refs
    BY <1>0 DEF Commands
  <2> HIDE DEF Done
  <2> QED BY <1>1, <1>5, <2>1, <2>2, ResolveWrites
<1>6. ASSUME FindSnapshot(p) \/ FetchFails(p) PROVE Done
  <2> HIDE DEF Done
  <2> QED BY <1>1, <1>2, <1>3, <1>6, FindSnapshotWrites, FetchFailsWrites
<1>7. ASSUME Extract(p) \/ Fill(p) \/ Mark(p) PROVE Done
  <2>1. command[p].pc \notin {"idle", "next"}
    BY <1>7 DEF Extract, Fill, Mark
  <2> HIDE DEF Done
  <2> QED BY <1>3, <1>7, <2>1, ArchiveWrites
<1>8. ASSUME Read(p) PROVE Done
  <2>1. Goal(ReadInto(p)) /\ command[p].pc = "read"
    BY <1>0, <1>8 DEF ReadInto, Commands, Read
  <2>2. Writes(p, ReadInto(p)) /\ fresh' = fresh => Done
    <3> HIDE DEF Goal
    <3> QED BY <2>1
  <2> HIDE DEF Done
  <2> QED BY <1>1, <1>2, <1>8, <2>2, ReadWrites
<1>9. ASSUME NEW memory, NEW pc, command[p].pc \notin {"idle", "next"}, Writes(p, Saves(p, memory, pc)),
             fresh' \subseteq fresh \cup {p}
      PROVE  Done
  <2>1. Goal(Saves(p, memory, pc))
    BY <1>0, <1>9 DEF Saves, Commands
  <2> HIDE DEF Goal
  <2> QED BY <1>9, <2>1
<1>10. ASSUME Remove(p) \/ Put(p) PROVE Done
  <2> HIDE DEF Done
  <2> QED BY <1>9, <1>10, RemoveWrites, PutWrites
<1>11. ASSUME SaveEnd(p) PROVE Done
  <2> HIDE DEF Done
  <2> QED BY <1>2, <1>3, <1>11, SaveEndWrites DEF Saving
<1>12. ASSUME Return(p) \/ Abandon(p) PROVE Done
  <2>1. Goal(Idle)
    BY DEF Idle
  <2> HIDE DEF Goal
  <2> QED BY <1>12, <2>1, EndWrites
<1>13. Done
  <2> HIDE DEF Done
  <2> QED BY <1>4, <1>5, <1>6, <1>7, <1>8, <1>10, <1>11, <1>12 DEF Step
<1> QED BY <1>13 DEF Writes

\* Every step of a process keeps the types.
LEMMA TypeStep ==
  ASSUME TypeOK, NEW p \in Procs, Step(p)
  PROVE  TypeOK'
<1>1. upstream' = upstream /\ mirror' \in 0..upstream
  <2>1. mirror \in 0..upstream
    BY DEF TypeOK
  <2>2. CASE Resolve(p)
    BY <2>2, ResolveWrites DEF Resolve
  <2>3. CASE FindSnapshot(p)
    BY <2>3, FindSnapshotWrites DEF FindSnapshot
  <2> QED
    BY <2>1, <2>2, <2>3
    DEF Step, Begin, FetchFails, Extract, Fill, Mark, Read, Remove, Put, SaveEnd, Return, Abandon, cache
<1>2. /\ snapshot' \in [Revisions -> {"absent", "partial", "whole"}]
      /\ marked' \subseteq Revisions /\ raced' \subseteq Revisions
  <2>1. /\ snapshot \in [Revisions -> {"absent", "partial", "whole"}]
        /\ marked \subseteq Revisions /\ raced \subseteq Revisions
        /\ command[p].pc \notin {"idle", "next"} => command[p].revision \in Revisions
    BY DEF TypeOK
  <2>2. CASE Extract(p)
    BY <2>1, <2>2 DEF Extract
  <2>3. CASE Fill(p)
    BY <2>1, <2>3 DEF Fill
  <2>4. CASE Mark(p)
    BY <2>1, <2>4 DEF Mark
  <2> QED
    BY <2>1, <2>2, <2>3, <2>4
    DEF Step, Begin, Resolve, FindSnapshot, FetchFails, Read, Remove, Put, SaveEnd, Return, Abandon, cache
<1>3. lock' \in [text: {"none", "empty", "text", "torn"}, entries: [Refs -> Entry \cup {Unlocked}]]
  <2>1. lock \in [text: {"none", "empty", "text", "torn"}, entries: [Refs -> Entry \cup {Unlocked}]]
    BY DEF TypeOK
  <2>2. CASE Remove(p) \/ Put(p)
    <3>1. lock' = [lock EXCEPT !.text = "empty"]
      BY <2>2 DEF Remove, Put, SaveBegin
    <3> QED BY <2>1, <3>1
  <2>3. CASE SaveEnd(p)
    BY <2>3, SaveEndWrites
  <2> QED
    BY <2>1, <2>2, <2>3
    DEF Step, Begin, Resolve, FindSnapshot, FetchFails, Extract, Fill, Mark, Read, Return, Abandon, cache
<1>4. ran' \in 0..MaxCommands
  <2>1. CASE Begin(p)
    BY <2>1, BeginWrites
  <2>2. ran \in 0..MaxCommands
    BY DEF TypeOK
  <2> QED
    BY <2>1, <2>2
    DEF Step, Resolve, FindSnapshot, FetchFails, Extract, Fill, Mark, Read, Remove, Put, SaveEnd, Return, Abandon
<1>5. fresh' \subseteq Procs
  BY StepShape DEF TypeOK
<1>6. \A q \in Procs : command'[q].pc \notin {"idle", "next"} =>
        command'[q].ref \in Refs /\ command'[q].revision \in Revisions
  BY StepShape DEF TypeOK
<1>7. command' \in [Procs -> Commands]
  BY StepShape
<1>8. upstream \in Revisions
  BY DEF TypeOK
<1> QED BY <1>1, <1>2, <1>3, <1>4, <1>5, <1>6, <1>7, <1>8 DEF TypeOK

-----------------------------------------------------------------------------
\* Snapshots.

\* Where the pc of a record that is written is known.
LEMMA PcWritten ==
  ASSUME TypeOK, NEW p \in Procs
  PROVE  /\ Writes(p, Idle) => command'[p].pc = "idle"
         /\ \A r : Skips(p, r) => command'[p].pc \in {"idle", "next"}
         /\ \A r, answer : Writes(p, GoneOn(p, r, answer)) => command'[p].pc = "next"
         /\ \A pc : Writes(p, At(p, pc)) =>
              command'[p].pc = pc /\ command'[p].revision = command[p].revision
         /\ \A kind, todo : Writes(p, Began(kind, todo)) => command'[p].pc = "next"
         /\ \A r, v : Writes(p, Materializing(p, r, v)) => command'[p].pc = "materialize"
         /\ \A memory, pc : Writes(p, Saves(p, memory, pc)) => command'[p].pc = pc
         /\ Writes(p, ReadInto(p)) => command'[p].pc = "found"
<1>1. command[p] \in Commands
  BY DEF TypeOK
<1>2. Idle.pc = "idle" /\ ReadInto(p).pc = "found"
  BY <1>1 DEF Idle, ReadInto, Commands
<1>3. \A r, answer : GoneOn(p, r, answer).pc = "next"
  BY <1>1 DEF GoneOn, Commands
<1>4. \A pc : At(p, pc).pc = pc /\ At(p, pc).revision = command[p].revision
  BY <1>1 DEF At, Commands
<1>5. \A kind, todo : Began(kind, todo).pc = "next"
  BY DEF Began, Idle
<1>6. \A r, v : Materializing(p, r, v).pc = "materialize"
  BY <1>1 DEF Materializing, Commands
<1>7. \A memory, pc : Saves(p, memory, pc).pc = pc
  BY <1>1 DEF Saves, Commands
<1> QED BY <1>2, <1>3, <1>4, <1>5, <1>6, <1>7 DEF Writes, Skips

\* Every step of a process keeps marked snapshots whole.
LEMMA SnapshotsStep ==
  ASSUME TypeOK, SnapshotsWhole, NEW p \in Procs, Step(p)
  PROVE  SnapshotsWhole'
<1> DEFINE Reading(q) == command[q].pc \in {"mark", "read"}
<1>0. /\ \A q \in Procs \ {p} : command'[q] = command[q]
      /\ snapshot \in [Revisions -> {"absent", "partial", "whole"}] /\ marked \subseteq Revisions
      /\ command[p].pc \notin {"idle", "next"} => command[p].revision \in Revisions
  BY StepShape DEF TypeOK
<1>1. CASE Extract(p)
  <2> DEFINE v == command[p].revision
  <2>1. /\ v \in Revisions /\ snapshot' = [snapshot EXCEPT ![v] = "partial"] /\ marked' = marked
        /\ raced \subseteq raced'
        /\ v \notin raced' => v \notin marked /\ \A q \in Procs \ {p} : ~(command[q].revision = v /\ Reading(q))
    BY <1>0, <1>1 DEF Extract
  <2>2. command'[p].pc = "fill"
    BY <1>1, ArchiveWrites, PcWritten
  <2> QED BY <1>0, <2>1, <2>2 DEF SnapshotsWhole
<1>2. CASE Fill(p)
  <2>1. /\ command[p].revision \in Revisions /\ snapshot' = [snapshot EXCEPT ![command[p].revision] = "whole"]
        /\ marked' = marked /\ raced' = raced
    BY <1>0, <1>2 DEF Fill
  <2>2. command'[p].revision = command[p].revision
    BY <1>2, ArchiveWrites, PcWritten
  <2> QED BY <1>0, <2>1, <2>2 DEF SnapshotsWhole
<1>3. CASE Mark(p)
  <2>1. /\ command[p].pc = "mark" /\ snapshot' = snapshot /\ marked' = marked \cup {command[p].revision}
        /\ raced' = raced
    BY <1>3 DEF Mark
  <2>2. command'[p].revision = command[p].revision
    BY <1>3, ArchiveWrites, PcWritten
  <2> QED BY <1>0, <2>1, <2>2 DEF SnapshotsWhole
<1>4. CASE FindSnapshot(p)
  <2>1. UNCHANGED <<snapshot, marked, raced>>
    BY <1>4 DEF FindSnapshot
  <2>2. \/ command'[p].pc \notin {"mark", "read"}
        \/ command[p].revision \in marked /\ command'[p].revision = command[p].revision
    BY <1>4, FindSnapshotWrites, PcWritten
  <2> QED BY <1>0, <2>1, <2>2 DEF SnapshotsWhole
<1>5. CASE UNCHANGED <<snapshot, marked, raced>> /\ command'[p].pc \notin {"mark", "read"}
  BY <1>0, <1>5 DEF SnapshotsWhole
<1>6. CASE Begin(p) \/ Resolve(p) \/ FetchFails(p)
  <2>1. command'[p].pc \notin {"mark", "read"}
    BY <1>6, BeginWrites, ResolveWrites, FetchFailsWrites, PcWritten
  <2> QED BY <1>5, <1>6, <2>1 DEF Begin, Resolve, FetchFails, cache
<1>7. CASE Read(p) \/ Remove(p) \/ Put(p)
  <2>1. command'[p].pc \notin {"mark", "read"}
    BY <1>7, ReadWrites, RemoveWrites, PutWrites, PcWritten
  <2> QED BY <1>5, <1>7, <2>1 DEF Read, Remove, Put, cache
<1>8. CASE SaveEnd(p) \/ Return(p) \/ Abandon(p)
  <2>1. SaveEnd(p) => command'[p].pc \in {"found", "next"}
    BY SaveEndWrites, PcWritten
  <2>2. Return(p) \/ Abandon(p) => command'[p].pc = "idle"
    BY EndWrites, PcWritten
  <2>3. command'[p].pc \notin {"mark", "read"}
    BY <1>8, <2>1, <2>2
  <2> QED BY <1>5, <1>8, <2>3 DEF SaveEnd, Return, Abandon, cache
<1> QED
  BY <1>1, <1>2, <1>3, <1>4, <1>6, <1>7, <1>8 DEF Step

-----------------------------------------------------------------------------
\* Entries.

\* Revisions only become raced, so an entry that is genuine stays it.
LEMMA RacedGrows ==
  ASSUME TypeOK, NEW p \in Procs, Step(p)
  PROVE  raced \subseteq raced' /\ \A e : Genuine(e) => (Genuine(e))'
<1>1. raced \subseteq raced'
  BY DEF Step, Begin, Resolve, FindSnapshot, FetchFails, Extract, Fill, Mark, Read, Remove, Put, SaveEnd,
         Return, Abandon
<1> QED BY <1>1 DEF Genuine

\* What the rest of a written record is.
LEMMA FieldsWritten ==
  ASSUME TypeOK, NEW p \in Procs
  PROVE  LET c == command[p]
             d == command'[p]
             f == [revision |-> d.revision, hash |-> d.content]
         IN
         /\ Writes(p, Idle) => d.memory = Nothing /\ d.handed = {} /\ d.pc = "idle"
         /\ \A r, answer : Writes(p, GoneOn(p, r, answer)) =>
              /\ d.memory = c.memory /\ d.todo = c.todo \ {r} /\ d.handed = c.handed \cup answer
              /\ d.pc = "next"
         /\ \A pc : Writes(p, At(p, pc)) =>
              /\ d.memory = c.memory /\ d.todo = c.todo /\ d.handed = c.handed /\ d.ref = c.ref
              /\ d.kind = c.kind /\ f = Found(p) /\ d.pc = pc
         /\ \A kind, todo : Writes(p, Began(kind, todo)) =>
              d.memory = lock.entries /\ d.handed = {} /\ d.pc = "next"
         /\ \A r, v : Writes(p, Materializing(p, r, v)) =>
              /\ d.memory = c.memory /\ d.todo = c.todo /\ d.handed = c.handed /\ d.ref = r
              /\ d.pc = "materialize"
         /\ \A memory, pc : Writes(p, Saves(p, memory, pc)) =>
              /\ d.memory = memory /\ d.todo = c.todo /\ d.handed = c.handed /\ d.ref = c.ref
              /\ d.kind = c.kind /\ f = Found(p) /\ d.pc = pc
         /\ Writes(p, ReadInto(p)) =>
              /\ d.memory = c.memory /\ d.todo = c.todo /\ d.handed = c.handed /\ d.ref = c.ref
              /\ d.kind = c.kind /\ d.pc = "found"
              /\ f = [revision |-> c.revision, hash |-> FileContent(c.revision)]
<1> DEFINE c == command[p]
<1> USE DEF Writes
<1>1. c \in Commands
  BY DEF TypeOK
<1>2. Writes(p, Idle) => command'[p].memory = Nothing /\ command'[p].handed = {} /\ command'[p].pc = "idle"
  BY DEF Idle
<1>3. \A r, answer : /\ GoneOn(p, r, answer).memory = c.memory /\ GoneOn(p, r, answer).todo = c.todo \ {r}
                     /\ GoneOn(p, r, answer).handed = c.handed \cup answer
                     /\ GoneOn(p, r, answer).pc = "next"
  BY <1>1 DEF GoneOn, Commands
<1>4. \A pc : /\ At(p, pc).memory = c.memory /\ At(p, pc).todo = c.todo /\ At(p, pc).handed = c.handed
              /\ At(p, pc).ref = c.ref /\ At(p, pc).kind = c.kind /\ At(p, pc).pc = pc
              /\ At(p, pc).revision = c.revision /\ At(p, pc).content = c.content
  BY <1>1 DEF At, Commands
<1>5. \A kind, todo : /\ Began(kind, todo).memory = lock.entries /\ Began(kind, todo).handed = {}
                      /\ Began(kind, todo).pc = "next"
  BY DEF Began, Idle
<1>6. \A r, v : /\ Materializing(p, r, v).memory = c.memory /\ Materializing(p, r, v).todo = c.todo
                /\ Materializing(p, r, v).handed = c.handed /\ Materializing(p, r, v).ref = r
                /\ Materializing(p, r, v).pc = "materialize"
  BY <1>1 DEF Materializing, Commands
<1>7. \A memory, pc : /\ Saves(p, memory, pc).memory = memory /\ Saves(p, memory, pc).todo = c.todo
                      /\ Saves(p, memory, pc).handed = c.handed /\ Saves(p, memory, pc).ref = c.ref
                      /\ Saves(p, memory, pc).kind = c.kind /\ Saves(p, memory, pc).pc = pc
                      /\ Saves(p, memory, pc).revision = c.revision
                      /\ Saves(p, memory, pc).content = c.content
  BY <1>1 DEF Saves, Commands
<1>8. /\ ReadInto(p).memory = c.memory /\ ReadInto(p).todo = c.todo /\ ReadInto(p).handed = c.handed
      /\ ReadInto(p).ref = c.ref /\ ReadInto(p).kind = c.kind /\ ReadInto(p).pc = "found"
      /\ ReadInto(p).revision = c.revision /\ ReadInto(p).content = FileContent(c.revision)
  BY <1>1 DEF ReadInto, Commands
<1> QED BY <1>2, <1>3, <1>4, <1>5, <1>6, <1>7, <1>8 DEF Found

\* A process remembers, and reads, genuine entries.
LEMMA HonestStep ==
  ASSUME TypeOK, SnapshotsWhole, LockInv, NEW p \in Procs, HonestAt(p), Step(p)
  PROVE  HonestAt(p)'
<1> DEFINE F == [revision |-> command'[p].revision, hash |-> command'[p].content]
           Late == {"found", "saving removal", "saving entry"}
<1>0. /\ command[p] \in Commands /\ \A e : Genuine(e) => (Genuine(e))'
      /\ \A r \in Refs : Genuine(command[p].memory[r]) /\ Genuine(lock.entries[r])
      /\ command[p].pc \in Late => Genuine(Found(p))
      /\ (Found(p))' = F
  BY RacedGrows DEF TypeOK, HonestAt, LockInv, Found
<1>1. ASSUME \A r \in Refs : (Genuine(command'[p].memory[r])) \/ command'[p].memory[r] = Unlocked,
             command'[p].pc \in Late => Genuine(F)
      PROVE  HonestAt(p)'
  <2>1. \A r \in Refs : (Genuine(command[p].memory[r]))'
    <3> SUFFICES ASSUME NEW r \in Refs PROVE (Genuine(command[p].memory[r]))'
      OBVIOUS
    <3>1. CASE command'[p].memory[r] = Unlocked
      BY <3>1 DEF Genuine
    <3>2. CASE Genuine(command'[p].memory[r])
      BY <3>2, RacedGrows DEF Genuine
    <3> QED BY <1>1, <3>1, <3>2
  <2>2. command'[p].pc \in Late => (Genuine(Found(p)))'
    BY <1>1, RacedGrows DEF Genuine, Found
  <2> QED BY <2>1, <2>2 DEF HonestAt
<1>2. ASSUME command'[p].memory = command[p].memory, command'[p].pc \in Late => Genuine(F) PROVE HonestAt(p)'
  BY <1>0, <1>1, <1>2
<1>3. ASSUME NEW r, Skips(p, r) PROVE HonestAt(p)'
  <2>1. /\ command'[p].memory = command[p].memory \/ command'[p].memory = Nothing
        /\ command'[p].pc \in {"idle", "next"}
    BY <1>3, FieldsWritten DEF Skips
  <2> QED BY <1>0, <1>1, <2>1 DEF Nothing
<1>4. CASE Begin(p)
  <2>1. command'[p].memory = lock.entries /\ command'[p].pc = "next"
    BY <1>4, BeginWrites, FieldsWritten
  <2> QED BY <1>0, <1>1, <2>1
<1>5. CASE Resolve(p)
  <2>1. ASSUME NEW r, NEW v, Writes(p, Materializing(p, r, v)) PROVE HonestAt(p)'
    BY <1>2, <2>1, FieldsWritten
  <2> QED BY <1>3, <1>5, <2>1, ResolveWrites
<1>6. ASSUME NEW pc, Writes(p, At(p, pc)), pc \in Late => command[p].pc \in Late PROVE HonestAt(p)'
  <2>1. command'[p].memory = command[p].memory /\ F = Found(p) /\ command'[p].pc = pc
    BY <1>6, FieldsWritten
  <2> QED BY <1>0, <1>2, <1>6, <2>1
<1>7. ASSUME NEW r, NEW answer, Writes(p, GoneOn(p, r, answer)) PROVE HonestAt(p)'
  BY <1>2, <1>7, FieldsWritten
<1>8. CASE FindSnapshot(p) \/ FetchFails(p)
  BY <1>3, <1>6, <1>7, <1>8, FindSnapshotWrites, FetchFailsWrites
<1>9. CASE Extract(p) \/ Fill(p) \/ Mark(p)
  BY <1>6, <1>9, ArchiveWrites
<1>10. CASE Read(p)
  <2>1. CASE Writes(p, ReadInto(p))
    <3>1. /\ command'[p].memory = command[p].memory
          /\ F = [revision |-> command[p].revision, hash |-> FileContent(command[p].revision)]
      BY <2>1, FieldsWritten
    <3>2. command[p].revision \notin raced => snapshot[command[p].revision] = "whole"
      BY <1>10 DEF Read, SnapshotsWhole
    <3>3. Genuine(F)
      BY <3>1, <3>2 DEF Genuine, FileContent
    <3> QED BY <1>2, <3>1, <3>3
  <2> QED BY <1>3, <1>7, <1>10, <2>1, ReadWrites
<1>11. CASE Remove(p)
  <2> DEFINE m == [command[p].memory EXCEPT ![command[p].ref] = Unlocked]
  <2>0. Writes(p, Saves(p, m, "saving removal"))
    BY <1>11, RemoveWrites
  <2>1. command'[p].memory = m /\ F = Found(p)
    BY <2>0, FieldsWritten
  <2>2. \A r \in Refs : Genuine(m[r]) \/ m[r] = Unlocked
    BY <1>0 DEF Commands
  <2>3. command[p].pc \in Late
    BY <1>11 DEF Remove
  <2> HIDE DEF m
  <2> QED BY <1>0, <1>1, <2>1, <2>2, <2>3
<1>12. CASE Put(p)
  <2> DEFINE m == [command[p].memory EXCEPT ![command[p].ref] = Found(p)]
  <2>1. command'[p].memory = m /\ F = Found(p)
    BY <1>12, PutWrites, FieldsWritten
  <2>2. command[p].pc \in Late
    BY <1>12 DEF Put
  <2>3. \A r \in Refs : Genuine(m[r])
    BY <1>0, <2>2 DEF Commands
  <2> HIDE DEF m
  <2> QED BY <1>0, <1>1, <2>1, <2>2, <2>3
<1>13. CASE SaveEnd(p)
  BY <1>6, <1>7, <1>13, SaveEndWrites
<1>14. CASE Return(p) \/ Abandon(p)
  <2>1. command'[p].memory = Nothing /\ command'[p].pc = "idle"
    BY <1>14, EndWrites, FieldsWritten
  <2> QED BY <1>1, <2>1 DEF Nothing
<1> QED
  BY <1>4, <1>5, <1>8, <1>9, <1>10, <1>11, <1>12, <1>13, <1>14 DEF Step

\* A process goes through its references one by one.
LEMMA OrderlyStep ==
  ASSUME TypeOK, NEW p \in Procs, OrderlyAt(p), Step(p)
  PROVE  OrderlyAt(p)'
<1> DEFINE c == command[p]
           d == command'[p]
           F == [revision |-> d.revision, hash |-> d.content]
           Kept == \A h \in d.handed : h.ref \notin d.todo /\ d.memory[h.ref] = h.entry
<1>0. /\ c \in Commands /\ (Found(p))' = F
      /\ c.pc \notin {"idle", "next"} => c.ref \in c.todo /\ c.ref \in Refs
      /\ \A h \in c.handed : h.ref \notin c.todo /\ c.memory[h.ref] = h.entry /\ h.ref \in Refs
      /\ c.pc = "saving entry" => c.memory[c.ref] = Found(p)
      /\ c.pc = "saving removal" => c.kind = "update"
      /\ c.pc = "found" /\ c.kind # "update" => c.memory[c.ref] = Unlocked
  <2>1. c \in Commands /\ (c.pc \notin {"idle", "next"} => c.ref \in Refs)
    BY DEF TypeOK
  <2>2. \A h \in c.handed : h.ref \in Refs
    BY <2>1 DEF Commands
  <2>3. (Found(p))' = F
    BY DEF Found
  <2> QED BY <2>1, <2>2, <2>3 DEF OrderlyAt
<1>1. ASSUME Kept, d.pc \in {"idle", "next"} PROVE OrderlyAt(p)'
  BY <1>1 DEF OrderlyAt
<1>2. ASSUME Kept, d.ref \in d.todo,
             d.pc = "saving entry" => d.memory[d.ref] = F,
             d.pc = "saving removal" => d.kind = "update",
             d.pc = "found" /\ d.kind # "update" => d.memory[d.ref] = Unlocked
      PROVE  OrderlyAt(p)'
  BY <1>0, <1>2 DEF OrderlyAt
<1>3. ASSUME NEW r, Skips(p, r) PROVE OrderlyAt(p)'
  <2>1. CASE Writes(p, Idle)
    <3>1. d.handed = {} /\ d.pc = "idle"
      BY <2>1, FieldsWritten
    <3> QED BY <1>1, <3>1
  <2>2. CASE Writes(p, GoneOn(p, r, {}))
    <3>1. d.memory = c.memory /\ d.todo = c.todo \ {r} /\ d.handed = c.handed \cup {} /\ d.pc = "next"
      BY <2>2, FieldsWritten
    <3> QED BY <1>0, <1>1, <3>1
  <2> QED BY <1>3, <2>1, <2>2 DEF Skips
<1>4. ASSUME c.pc \notin {"idle", "next"}, NEW e, c.memory[c.ref] = e, Writes(p, GoneOn(p, c.ref, Answer(c.ref, e)))
      PROVE OrderlyAt(p)'
  <2>1. d.memory = c.memory /\ d.todo = c.todo \ {c.ref} /\ d.handed = c.handed \cup Answer(c.ref, e)
        /\ d.pc = "next"
    BY <1>4, FieldsWritten
  <2>2. \A h \in Answer(c.ref, e) : h.ref = c.ref /\ h.entry = e
    BY DEF Answer
  <2>3. Kept
    BY <1>0, <1>4, <2>1, <2>2
  <2> QED BY <1>1, <2>1, <2>3
<1>5. ASSUME c.pc \notin {"idle", "next"}, NEW pc, Writes(p, At(p, pc)),
             pc \notin {"saving entry", "saving removal"}, pc = "found" => c.pc = "saving removal"
      PROVE  OrderlyAt(p)'
  <2>1. d.memory = c.memory /\ d.todo = c.todo /\ d.handed = c.handed /\ d.ref = c.ref
        /\ d.kind = c.kind /\ d.pc = pc
    BY <1>5, FieldsWritten
  <2> QED BY <1>0, <1>2, <1>5, <2>1
<1>6. CASE Begin(p)
  <2>1. d.handed = {} /\ d.pc = "next"
    BY <1>6, BeginWrites, FieldsWritten
  <2> QED BY <1>1, <2>1
<1>7. CASE Resolve(p)
  <2>1. ASSUME NEW r \in c.todo, NEW v, Writes(p, Materializing(p, r, v)) PROVE OrderlyAt(p)'
    <3>1. d.memory = c.memory /\ d.todo = c.todo /\ d.handed = c.handed /\ d.ref = r /\ d.pc = "materialize"
      BY <2>1, FieldsWritten
    <3> QED BY <1>0, <1>2, <2>1, <3>1
  <2> QED BY <1>3, <1>7, <2>1, ResolveWrites
<1>8. CASE FindSnapshot(p)
  BY <1>3, <1>5, <1>8, FindSnapshotWrites
<1>9. CASE FetchFails(p)
  BY <1>3, <1>9, FetchFailsWrites DEF Skips
<1>10. CASE Extract(p) \/ Fill(p) \/ Mark(p)
  <2>1. c.pc \notin {"idle", "next"}
    BY <1>10 DEF Extract, Fill, Mark
  <2> QED BY <1>5, <1>10, <2>1, ArchiveWrites
<1>11. CASE Read(p)
  <2>1. CASE ~UsesLock(p, c.ref) /\ Writes(p, ReadInto(p))
    <3>1. d.memory = c.memory /\ d.todo = c.todo /\ d.handed = c.handed /\ d.ref = c.ref
          /\ d.kind = c.kind /\ d.pc = "found"
      BY <2>1, FieldsWritten
    <3>2. c.kind # "update" => c.memory[c.ref] = Unlocked
      BY <2>1 DEF UsesLock
    <3>3. c.pc = "read"
      BY <1>11 DEF Read
    <3> QED BY <1>0, <1>2, <3>1, <3>2, <3>3
  <2>2. c.pc = "read"
    BY <1>11 DEF Read
  <2> QED BY <1>3, <1>4, <1>11, <2>1, <2>2, ReadWrites
<1>12. ASSUME NEW e, NEW pc, c.pc = "found", Writes(p, Saves(p, [c.memory EXCEPT ![c.ref] = e], pc)),
              pc \in {"saving entry", "saving removal"},
              pc = "saving entry" => e = Found(p), pc = "saving removal" => c.kind = "update"
       PROVE  OrderlyAt(p)'
  <2> DEFINE m == [c.memory EXCEPT ![c.ref] = e]
  <2>0. Writes(p, Saves(p, m, pc))
    BY <1>12
  <2>1. d.memory = m /\ d.todo = c.todo /\ d.handed = c.handed
        /\ d.ref = c.ref /\ d.kind = c.kind /\ F = Found(p) /\ d.pc = pc
    <3> HIDE DEF m
    <3> QED BY <2>0, FieldsWritten
  <2>2. d.memory[c.ref] = e /\ \A r \in Refs \ {c.ref} : d.memory[r] = c.memory[r]
    BY <1>0, <1>12, <2>1 DEF Commands
  <2>3. Kept
    BY <1>0, <1>12, <2>1, <2>2
  <2> QED BY <1>0, <1>2, <1>12, <2>1, <2>2, <2>3
<1>13. CASE Remove(p)
  BY <1>12, <1>13, RemoveWrites
<1>14. CASE Put(p)
  <2>1. c.pc = "found" /\ Writes(p, Saves(p, [c.memory EXCEPT ![c.ref] = Found(p)], "saving entry"))
    BY <1>14, PutWrites
  <2> QED BY <1>12, <2>1
<1>15. CASE SaveEnd(p)
  BY <1>0, <1>4, <1>5, <1>15, SaveEndWrites
<1>16. CASE Return(p) \/ Abandon(p)
  BY <1>3, <1>16, EndWrites DEF Skips
<1> QED
  BY <1>6, <1>7, <1>8, <1>9, <1>10, <1>11, <1>13, <1>14, <1>15, <1>16 DEF Step

-----------------------------------------------------------------------------
\* The file.

\* Every step of a process keeps the hashes of the lock genuine.
LEMMA LockStep ==
  ASSUME TypeOK, LockInv, NEW p \in Procs, HonestAt(p), Step(p)
  PROVE  LockInv'
<1>0. \A e : Genuine(e) => (Genuine(e))'
  BY RacedGrows
<1>1. CASE UNCHANGED lock
  BY <1>0, <1>1 DEF LockInv
<1>2. CASE lock'.text = "empty" /\ lock'.entries = lock.entries
  BY <1>0, <1>2 DEF LockInv
<1>3. CASE SaveEnd(p)
  <2>1. lock'.entries = command[p].memory /\ lock'.text \in {"text", "torn"}
    BY <1>3, SaveEndWrites
  <2> QED BY <1>0, <2>1 DEF LockInv, HonestAt
<1>4. CASE Remove(p) \/ Put(p)
  BY <1>2, <1>4, RemoveWrites, PutWrites
<1> QED
  BY <1>1, <1>3, <1>4
  DEF Step, Begin, Resolve, FindSnapshot, FetchFails, Extract, Fill, Mark, Read, Return, Abandon, cache

\* A process that saves is alone with its copy from then on.
LEMMA FreshOfOthers ==
  ASSUME TypeOK, NEW p \in Procs, Step(p), NEW q \in Procs \ {p}, FreshAt(q)
  PROVE  FreshAt(q)'
<1>1. command'[q] = command[q] /\ fresh' \subseteq fresh \cup {p}
  BY StepShape
<1>2. CASE UNCHANGED lock
  BY <1>1, <1>2 DEF FreshAt, Saving
<1>3. CASE q \notin fresh'
  BY <1>3 DEF FreshAt
<1>4. CASE Remove(p) \/ Put(p) \/ SaveEnd(p)
  BY <1>3, <1>4, RemoveWrites, PutWrites, SaveEndWrites
<1> QED
  BY <1>2, <1>4
  DEF Step, Begin, Resolve, FindSnapshot, FetchFails, Extract, Fill, Mark, Read, Return, Abandon, cache

\* A fresh process has the file in memory, but for the reference it saves.
LEMMA FreshOfItself ==
  ASSUME TypeOK, NEW p \in Procs, OrderlyAt(p), FreshAt(p), Step(p)
  PROVE  FreshAt(p)'
<1> DEFINE c == command[p]
           d == command'[p]
<1>0. /\ c \in Commands /\ fresh' \subseteq fresh \cup {p}
      /\ c.pc \notin {"idle", "next"} => c.ref \in Refs
  BY StepShape DEF TypeOK
<1>1. CASE p \notin fresh'
  BY <1>1 DEF FreshAt
<1>2. ASSUME d.pc \notin {"idle", "saving removal", "saving entry"},
             p \in fresh' => lock'.text \in {"none", "text"} /\ lock'.entries = d.memory
      PROVE  FreshAt(p)'
  BY <1>2 DEF FreshAt, Saving
<1>3. ASSUME UNCHANGED lock, p \in fresh' => p \in fresh, ~Saving(p), d.memory = c.memory,
             d.pc \notin {"idle", "saving removal", "saving entry"}
      PROVE  FreshAt(p)'
  BY <1>2, <1>3 DEF FreshAt
<1>4. ASSUME UNCHANGED lock, NEW r, Skips(p, r), ~Saving(p) PROVE FreshAt(p)'
  <2>1. CASE Writes(p, GoneOn(p, r, {})) /\ fresh' = fresh
    BY <1>3, <1>4, <2>1, FieldsWritten
  <2>2. CASE fresh' = fresh \ {p}
    BY <1>1, <2>2
  <2> QED BY <1>4, <2>1, <2>2 DEF Skips
<1>5. CASE Begin(p)
  <2>1. d.memory = lock.entries /\ d.pc = "next" /\ lock.text \in {"none", "text"}
    BY <1>5, BeginWrites, FieldsWritten
  <2> QED BY <1>2, <1>5, <2>1 DEF Begin
<1>6. CASE Resolve(p)
  <2>1. lock' = lock /\ ~Saving(p)
    BY <1>6 DEF Resolve, Saving
  <2>2. ASSUME NEW r, NEW v, Writes(p, Materializing(p, r, v)), fresh' = fresh PROVE FreshAt(p)'
    BY <1>3, <2>1, <2>2, FieldsWritten
  <2> QED BY <1>4, <1>6, <2>1, <2>2, ResolveWrites
<1>7. ASSUME UNCHANGED lock, ~Saving(p), NEW pc, Writes(p, At(p, pc)), fresh' = fresh,
             pc \notin {"idle", "saving removal", "saving entry"}
      PROVE  FreshAt(p)'
  BY <1>3, <1>7, FieldsWritten
<1>8. CASE FindSnapshot(p)
  <2>1. lock' = lock /\ ~Saving(p)
    BY <1>8 DEF FindSnapshot, Saving
  <2> QED BY <1>4, <1>7, <1>8, <2>1, FindSnapshotWrites
<1>9. CASE FetchFails(p)
  <2>1. lock' = lock /\ ~Saving(p)
    BY <1>9 DEF FetchFails, Saving
  <2> QED BY <1>4, <1>9, <2>1, FetchFailsWrites DEF Skips
<1>10. CASE Extract(p) \/ Fill(p) \/ Mark(p)
  <2>1. lock' = lock /\ ~Saving(p)
    BY <1>10 DEF Extract, Fill, Mark, Saving
  <2> QED BY <1>7, <1>10, <2>1, ArchiveWrites
<1>11. CASE Read(p)
  <2>1. lock' = lock /\ ~Saving(p)
    BY <1>11 DEF Read, Saving
  <2>2. CASE Writes(p, ReadInto(p)) /\ fresh' = fresh
    BY <1>3, <2>1, <2>2, FieldsWritten
  <2>3. ASSUME NEW r, NEW answer, Writes(p, GoneOn(p, r, answer)), fresh' = fresh PROVE FreshAt(p)'
    BY <1>3, <2>1, <2>3, FieldsWritten
  <2> QED BY <1>4, <1>11, <2>1, <2>2, <2>3, ReadWrites
<1>12. ASSUME c.pc = "found", NEW e, NEW pc \in {"saving removal", "saving entry"},
              Writes(p, Saves(p, [c.memory EXCEPT ![c.ref] = e], pc)),
              lock'.text = "empty", lock'.entries = lock.entries, fresh' = fresh \cap {p},
              c.kind # "update" => c.memory[c.ref] = Unlocked
       PROVE  FreshAt(p)'
  <2> DEFINE m == [c.memory EXCEPT ![c.ref] = e]
  <2>0. Writes(p, Saves(p, m, pc))
    BY <1>12
  <2>1. d.memory = m /\ d.ref = c.ref /\ d.kind = c.kind /\ d.pc = pc
    <3> HIDE DEF m
    <3> QED BY <2>0, FieldsWritten
  <2>2. \A r \in Refs \ {c.ref} : d.memory[r] = c.memory[r]
    BY <1>0, <1>12, <2>1 DEF Commands
  <2>3. p \in fresh' => lock.entries = c.memory
    BY <1>12 DEF FreshAt, Saving
  <2>4. p \in fresh' =>
          /\ \A r \in Refs \ {d.ref} : lock'.entries[r] = d.memory[r]
          /\ d.kind # "update" => lock'.entries[d.ref] = Unlocked
    <3>1. d.ref = c.ref /\ d.kind = c.kind /\ lock'.entries = lock.entries
      BY <1>12, <2>1
    <3>2. c.kind # "update" => c.memory[c.ref] = Unlocked
      BY <1>12
    <3> HIDE DEF c, d
    <3> QED BY <2>2, <2>3, <3>1, <3>2
  <2>5. d.pc \in {"saving removal", "saving entry"}
    BY <1>12, <2>1
  <2> QED BY <1>12, <2>4, <2>5 DEF FreshAt, Saving
<1>13. CASE Remove(p)
  <2>1. /\ c.pc = "found" /\ c.kind = "update"
        /\ Writes(p, Saves(p, [c.memory EXCEPT ![c.ref] = Unlocked], "saving removal"))
        /\ lock'.text = "empty" /\ lock'.entries = lock.entries /\ fresh' = fresh \cap {p}
    BY <1>13, RemoveWrites
  <2> QED BY <1>12, <2>1
<1>14. CASE Put(p)
  <2>1. /\ c.pc = "found"
        /\ Writes(p, Saves(p, [c.memory EXCEPT ![c.ref] = Found(p)], "saving entry"))
        /\ lock'.text = "empty" /\ lock'.entries = lock.entries /\ fresh' = fresh \cap {p}
    BY <1>14, PutWrites
  <2>2. c.kind # "update" => c.memory[c.ref] = Unlocked
    BY <2>1 DEF OrderlyAt
  <2> QED BY <1>12, <2>1, <2>2
<1>15. CASE SaveEnd(p)
  <2>1. /\ Saving(p) /\ lock'.entries = c.memory /\ fresh' = fresh \cap {p}
        /\ lock.text = "empty" => lock'.text = "text"
        /\ \/ Writes(p, At(p, "found"))
           \/ Writes(p, GoneOn(p, c.ref, Answer(c.ref, Found(p))))
    BY <1>15, SaveEndWrites
  <2>2. d.memory = c.memory /\ d.pc \in {"found", "next"}
    BY <2>1, FieldsWritten
  <2>3. p \in fresh' => lock.text = "empty"
    BY <2>1 DEF FreshAt
  <2> QED BY <1>2, <2>1, <2>2, <2>3
<1>16. CASE Return(p) \/ Abandon(p)
  BY <1>1, <1>16, EndWrites
<1> QED
  BY <1>5, <1>6, <1>8, <1>9, <1>10, <1>11, <1>13, <1>14, <1>15, <1>16 DEF Step

-----------------------------------------------------------------------------
\* The inductive invariant.

\* No cache and no lockfile satisfy the invariant.
LEMMA Initially == Init => Inv
<1> SUFFICES ASSUME Init PROVE Inv
  OBVIOUS
<1>1. /\ command = [p \in Procs |-> Idle] /\ fresh = {} /\ marked = {} /\ raced = {}
      /\ lock = [text |-> "none", entries |-> Nothing] /\ upstream = 1 /\ mirror = 0 /\ ran = 0
      /\ snapshot = [v \in Revisions |-> "absent"]
  BY DEF Init
<1>2. \A p \in Procs : /\ command[p].pc = "idle" /\ command[p].handed = {}
                       /\ command[p].memory = Nothing
  BY <1>1 DEF Idle
<1>3. TypeOK
  <2>1. Nothing \in [Refs -> Entry \cup {Unlocked}]
    BY DEF Nothing
  <2>2. /\ upstream \in Revisions /\ mirror \in 0..upstream /\ ran \in 0..MaxCommands
        /\ snapshot \in [Revisions -> {"absent", "partial", "whole"}]
    BY <1>1, SkillAssumption DEF Revisions
  <2>3. command \in [Procs -> Commands]
    BY <1>1, IdleTyped
  <2> QED BY <1>1, <1>2, <2>1, <2>2, <2>3 DEF TypeOK
<1>4. SnapshotsWhole
  BY <1>1, <1>2 DEF SnapshotsWhole
<1>5. LockInv
  BY <1>1 DEF LockInv, Genuine, Nothing
<1>6. \A p \in Procs : HonestAt(p) /\ OrderlyAt(p) /\ FreshAt(p)
  BY <1>1, <1>2 DEF HonestAt, OrderlyAt, FreshAt, Genuine, Nothing
<1> QED BY <1>3, <1>4, <1>5, <1>6 DEF Inv

\* A new revision at the provider keeps the invariant.
LEMMA ReleaseKeeps ==
  ASSUME Inv, Release
  PROVE  Inv'
<1>1. /\ upstream' \in Revisions /\ upstream < upstream' /\ upstream \in Revisions
      /\ UNCHANGED <<mirror, snapshot, marked, lock, command, ran, fresh, raced>>
  BY SkillAssumption DEF Inv, TypeOK, Release, Revisions, cache
<1>2. mirror' \in 0..upstream'
  BY <1>1 DEF Inv, TypeOK, Revisions
<1>3. TypeOK'
  BY <1>1, <1>2 DEF Inv, TypeOK
<1>4. SnapshotsWhole' /\ LockInv'
  BY <1>1 DEF Inv, SnapshotsWhole, LockInv, Genuine
<1>5. \A p \in Procs : HonestAt(p)' /\ OrderlyAt(p)' /\ FreshAt(p)'
  BY <1>1 DEF Inv, HonestAt, OrderlyAt, FreshAt, Genuine, Found, Saving
<1> QED BY <1>3, <1>4, <1>5 DEF Inv

\* A cleared cache keeps the invariant.
LEMMA ClearCacheKeeps ==
  ASSUME Inv, ClearCache
  PROVE  Inv'
<1>1. /\ \A p \in Procs : command[p].pc = "idle"
      /\ mirror' = 0 /\ marked' = {} /\ snapshot' = [v \in Revisions |-> "absent"]
      /\ UNCHANGED <<upstream, lock, command, ran, fresh, raced>>
  BY DEF ClearCache
<1>2. mirror' \in 0..upstream
  BY <1>1, SkillAssumption DEF Inv, TypeOK, Revisions
<1>3. TypeOK'
  BY <1>1, <1>2 DEF Inv, TypeOK
<1>4. SnapshotsWhole' /\ LockInv'
  BY <1>1 DEF Inv, SnapshotsWhole, LockInv, Genuine
<1>5. \A p \in Procs : HonestAt(p)' /\ OrderlyAt(p)' /\ FreshAt(p)'
  BY <1>1 DEF Inv, HonestAt, OrderlyAt, FreshAt, Genuine, Found, Saving
<1> QED BY <1>3, <1>4, <1>5 DEF Inv

\* A process whose record nobody wrote is where it was.
LEMMA OrderlyKept ==
  ASSUME NEW p, command'[p] = command[p], OrderlyAt(p)
  PROVE  OrderlyAt(p)'
<1> DEFINE c == command[p]
           d == command'[p]
<1>1. c = d
  OBVIOUS
<1>2. /\ c.pc \notin {"idle", "next"} => c.ref \in c.todo
      /\ \A h \in c.handed : h.ref \notin c.todo /\ c.memory[h.ref] = h.entry
      /\ c.pc = "saving entry" =>
           c.memory[c.ref] = [revision |-> c.revision, hash |-> c.content]
      /\ c.pc = "saving removal" => c.kind = "update"
      /\ c.pc = "found" /\ c.kind # "update" => c.memory[c.ref] = Unlocked
  BY DEF OrderlyAt, Found
<1>3. /\ d.pc \notin {"idle", "next"} => d.ref \in d.todo
      /\ \A h \in d.handed : h.ref \notin d.todo /\ d.memory[h.ref] = h.entry
      /\ d.pc = "saving entry" =>
           d.memory[d.ref] = [revision |-> d.revision, hash |-> d.content]
      /\ d.pc = "saving removal" => d.kind = "update"
      /\ d.pc = "found" /\ d.kind # "update" => d.memory[d.ref] = Unlocked
  <2> HIDE DEF c, d
  <2> QED BY <1>1, <1>2
<1> QED BY <1>3 DEF OrderlyAt, Found

\* Every step keeps the invariant.
LEMMA Inductive == Inv /\ [Next]_vars => Inv'
<1>1. ASSUME Inv, NEW p \in Procs, Step(p) PROVE Inv'
  <2>1. TypeOK' /\ SnapshotsWhole' /\ LockInv'
    BY <1>1, TypeStep, SnapshotsStep, LockStep DEF Inv
  <2>2. ASSUME NEW q \in Procs PROVE HonestAt(q)' /\ OrderlyAt(q)' /\ FreshAt(q)'
    <3>1. CASE q = p
      BY <1>1, <3>1, HonestStep, OrderlyStep, FreshOfItself DEF Inv
    <3>2. CASE q # p
      <4>1. command'[q] = command[q] /\ HonestAt(q) /\ OrderlyAt(q)
        BY <1>1, <3>2, StepShape DEF Inv
      <4>2. \A e : Genuine(e) => (Genuine(e))'
        BY <1>1, RacedGrows DEF Inv
      <4>3. (Found(q))' = Found(q)
        BY <4>1 DEF Found
      <4>4. HonestAt(q)'
        BY <4>1, <4>2, <4>3 DEF HonestAt, Genuine
      <4>5. OrderlyAt(q)'
        BY <4>1, OrderlyKept
      <4>6. FreshAt(q)'
        BY <1>1, <3>2, FreshOfOthers DEF Inv
      <4> QED BY <4>4, <4>5, <4>6
    <3> QED BY <3>1, <3>2
  <2> QED BY <2>1, <2>2 DEF Inv
<1>2. ASSUME Inv, UNCHANGED vars PROVE Inv'
  <2>1. /\ UNCHANGED <<upstream, mirror, snapshot, marked, lock, command, ran, fresh, raced>>
        /\ TypeOK /\ SnapshotsWhole /\ LockInv
        /\ \A p \in Procs : HonestAt(p) /\ OrderlyAt(p) /\ FreshAt(p)
    BY <1>2 DEF vars, cache, Inv
  <2>2. TypeOK'
    BY <2>1 DEF TypeOK
  <2>3. SnapshotsWhole' /\ LockInv'
    BY <2>1 DEF SnapshotsWhole, LockInv, Genuine
  <2>4. \A p \in Procs : HonestAt(p)'
    BY <2>1 DEF HonestAt, Genuine, Found
  <2>5. \A p \in Procs : OrderlyAt(p)'
    BY <2>1 DEF OrderlyAt, Found
  <2>6. \A p \in Procs : FreshAt(p)'
    BY <2>1 DEF FreshAt, Saving
  <2> QED BY <2>2, <2>3, <2>4, <2>5, <2>6 DEF Inv
<1> QED BY <1>1, <1>2, ReleaseKeeps, ClearCacheKeeps DEF Next

\* The inductive invariant holds in every reachable state.
LEMMA Invariant == Spec => []Inv
BY Initially, Inductive, PTL DEF Spec

-----------------------------------------------------------------------------
\* The theorems.

\* The cache, the lockfile and what each command is doing are typed; a command
\* past its choice of a reference has one, at a revision of the provider.
THEOREM TypeCorrect == Spec => []TypeOK
<1>1. Inv => TypeOK
  BY DEF Inv
<1> QED BY <1>1, Invariant, PTL

\* The hash of a locked entry is that of the skill at its revision, unless two
\* processes extracted that revision at once.
THEOREM LockTellsTruth == Spec => []LockedIsGenuine
<1>1. Inv => LockedIsGenuine
  BY DEF Inv, LockInv, Genuine, LockedIsGenuine
<1> QED BY <1>1, Invariant, PTL

\* What a command hands out is in its copy of the lock, and in the file when
\* nobody else saved since it began.
THEOREM AnswersAreLocked == Spec => []HandedOutIsLocked
<1>1. ASSUME Inv, NEW p \in Procs, NEW h \in command[p].handed
      PROVE  /\ command[p].memory[h.ref] = h.entry
             /\ p \in fresh /\ ~Saving(p) => lock.text = "text" /\ lock.entries[h.ref] = h.entry
  <2>1. command[p].memory[h.ref] = h.entry
    BY <1>1 DEF Inv, OrderlyAt
  <2>2. h.ref \in Refs /\ h.entry # Unlocked
    <3>1. command[p] \in Commands
      BY <1>1 DEF Inv, TypeOK
    <3>2. h.ref \in Refs /\ h.entry \in Entry
      BY <1>1, <3>1 DEF Commands
    <3> QED BY <3>2 DEF Entry, Unlocked, Revisions
  <2>3. ASSUME p \in fresh, ~Saving(p) PROVE lock.text = "text" /\ lock.entries[h.ref] = h.entry
    <3>1. lock.text \in {"none", "text"} /\ lock.entries = command[p].memory
      BY <1>1, <2>3 DEF Inv, FreshAt
    <3>2. lock.text # "none"
      BY <1>1, <2>1, <2>2, <3>1 DEF Inv, LockInv, Nothing
    <3> QED BY <2>1, <3>1, <3>2
  <2> QED BY <2>1, <2>3
<1>2. Inv => HandedOutIsLocked
  BY <1>1 DEF HandedOutIsLocked
<1> QED BY <1>2, Invariant, PTL

\* A pin moves only under a command told to update that reference, or one that
\* puts back a copy older than somebody else's save.
THEOREM PinsStay == Spec => PinsMoveOnlyByUpdate
<1> DEFINE Pinned == \A r \in Refs : lock.entries[r] # Unlocked /\ lock'.entries[r] # lock.entries[r] =>
                       \E p \in Procs : Saving(p) /\ (p \in fresh => command[p].kind = "update" /\ command[p].ref = r)
<1>1. ASSUME Inv, Next PROVE Pinned
  <2> SUFFICES ASSUME NEW r \in Refs, lock.entries[r] # Unlocked, lock'.entries[r] # lock.entries[r]
               PROVE  \E p \in Procs : Saving(p) /\ (p \in fresh => command[p].kind = "update" /\ command[p].ref = r)
    OBVIOUS
  <2>1. PICK p \in Procs : Step(p)
    BY <1>1 DEF Next, Release, ClearCache
  <2>2. SaveEnd(p)
    <3>1. Remove(p) \/ Put(p) => lock'.entries = lock.entries
      BY <1>1, RemoveWrites, PutWrites DEF Inv
    <3> QED
      BY <2>1, <3>1
      DEF Step, Begin, Resolve, FindSnapshot, FetchFails, Extract, Fill, Mark, Read, Return, Abandon, cache
  <2>3. Saving(p) /\ lock'.entries = command[p].memory
    BY <1>1, <2>2, SaveEndWrites DEF Inv
  <2>4. p \in fresh => command[p].kind = "update" /\ command[p].ref = r
    BY <1>1, <2>3 DEF Inv, FreshAt
  <2> QED BY <2>3, <2>4
<1>2. Inv /\ [Next]_vars => [Pinned]_vars
  BY <1>1
<1> QED BY <1>2, Invariant, PTL DEF Spec, PinsMoveOnlyByUpdate
=============================================================================
