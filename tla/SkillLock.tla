------------------------------ MODULE SkillLock ------------------------------
(***************************************************************************)
(* Skill resolution: skills.py (SkillLockfile, SkillResolver, the git      *)
(* provider and its cache) as commands that run side by side in one        *)
(* workspace: `skills sync`, `sync --update`, `inspect`, `verify`, and the *)
(* planning of an increment, which resolves like sync.                     *)
(*                                                                         *)
(* Each command loads skills.lock.json once, resolves its references one   *)
(* after the other, and saves the whole file at every change.  A revision  *)
(* is the number of a commit and the content of a skill at a revision is   *)
(* that number; Partial is what a half-written file holds.  One git        *)
(* provider is modelled, and its snapshots as the one file that is read.   *)
(***************************************************************************)
EXTENDS Integers, FiniteSets, Functions

CONSTANTS
  Procs,        \* command processes
  Offline,      \* those run with --offline
  Refs,         \* skill references of one git provider, to its latest version
  NoRef,        \* no reference
  Optional,     \* those of them that are not required
  MaxRevision,  \* bound: commits the upstream repository publishes
  MaxCommands   \* bound: commands that are run

ASSUME SkillAssumption ==
  /\ NoRef \notin Refs
  /\ Offline \subseteq Procs /\ Optional \subseteq Refs
  /\ MaxRevision \in Nat \ {0} /\ MaxCommands \in Nat

Revisions == 1..MaxRevision
Partial == 0
Entry == [revision: Revisions, hash: Revisions \cup {Partial}]
Unlocked == [revision |-> 0, hash |-> 0]
Kinds == {"sync", "update", "verify"}

VARIABLES
  upstream,   \* the newest commit of the provider's repository
  mirror,     \* the newest commit in the cached mirror, 0 without a mirror
  snapshot,   \* what the cached file of each revision holds: nothing yet, Partial or whole
  marked,     \* the revisions whose snapshot has its .complete marker
  lock,       \* skills.lock.json: its text, and the entries saved last
  command,    \* what each process is doing
  ran,        \* commands begun so far
  fresh,      \* history: processes since whose load nobody else has saved
  raced       \* history: revisions extracted again after their marker was written

cache == <<mirror, snapshot, marked>>
vars == <<upstream, mirror, snapshot, marked, lock, command, ran, fresh, raced>>

Nothing == [r \in Refs |-> Unlocked]

Idle == [pc |-> "idle", kind |-> "sync", todo |-> {}, memory |-> Nothing,
         ref |-> NoRef, revision |-> 0, content |-> 0, handed |-> {}]

Init ==
  /\ upstream = 1
  /\ mirror = 0
  /\ snapshot = [v \in Revisions |-> "absent"]
  /\ marked = {}
  /\ lock = [text |-> "none", entries |-> Nothing]
  /\ command = [p \in Procs |-> Idle]
  /\ ran = 0
  /\ fresh = {}
  /\ raced = {}

Saving(p) == command[p].pc \in {"saving removal", "saving entry"}

(* MUTANT of UsesLock: only verify() goes by the lock. *)
UsesLockToVerify(p, r) == command[p].memory[r] # Unlocked /\ command[p].kind = "verify"

(* The locked entry a resolution goes by: none under --update. *)
UsesLock(p, r) == command[p].memory[r] # Unlocked /\ command[p].kind # "update"

Goto(p, pc) == command' = [command EXCEPT ![p].pc = pc]

(* The command returns or fails: what it knew is gone. *)
Ended(p) == /\ command' = [command EXCEPT ![p] = Idle]
            /\ fresh' = fresh \ {p}

(* Reference `r` is done, with what it adds to the answer. *)
GoOn(p, r, answer) ==
  command' = [command EXCEPT ![p] =
    [command[p] EXCEPT !.pc = "next", !.todo = @ \ {r}, !.handed = @ \cup answer,
              !.ref = NoRef, !.revision = 0, !.content = 0]]

-----------------------------------------------------------------------------
(* Commands. *)

(* The lockfile is read once; one that does not parse fails the command. *)
Begin(p) ==
  /\ command[p].pc = "idle" /\ ran < MaxCommands
  /\ lock.text \in {"none", "text"}
  /\ \E kind \in Kinds, todo \in SUBSET Refs :
       /\ kind = "verify" => todo = {r \in Refs : lock.entries[r] # Unlocked}
       /\ todo # {}
       /\ command' = [command EXCEPT ![p] =
            [Idle EXCEPT !.pc = "next", !.kind = kind, !.todo = todo, !.memory = lock.entries]]
  /\ ran' = ran + 1
  /\ fresh' = IF \E q \in Procs : Saving(q) THEN fresh ELSE fresh \cup {p}
  /\ UNCHANGED <<upstream, cache, lock, raced>>

(* The source is missing: an optional reference is left out, verify() reports
   it and goes on, any other command fails. *)
Missing(p, r) ==
  IF r \in Optional \/ command[p].kind = "verify"
    THEN GoOn(p, r, {}) /\ UNCHANGED fresh
    ELSE Ended(p)

(* _ensure_mirror: clone or fetch, or do with what is there when offline. *)
EnsureMirror(p) == mirror' = IF p \in Offline THEN mirror ELSE upstream

Materialize(p, r, revision) ==
  /\ command' = [command EXCEPT ![p].pc = "materialize", ![p].ref = r, ![p].revision = revision]
  /\ UNCHANGED fresh

(* MUTANT of Resolve: the newest revision of a mirror that is not there. *)
ResolveAnyMirror(p) ==
  /\ command[p].pc = "next"
  /\ \E r \in command[p].todo :
       IF UsesLock(p, r)
         THEN Materialize(p, r, command[p].memory[r].revision) /\ UNCHANGED mirror
         ELSE EnsureMirror(p) /\ Materialize(p, r, mirror')
  /\ UNCHANGED <<upstream, snapshot, marked, lock, ran, raced>>

(* A pinned revision, or the newest one of the mirror. *)
Resolve(p) ==
  /\ command[p].pc = "next"
  /\ \E r \in command[p].todo :
       IF UsesLock(p, r)
         THEN Materialize(p, r, command[p].memory[r].revision) /\ UNCHANGED mirror
         ELSE /\ EnsureMirror(p)
              /\ IF mirror' = 0 THEN Missing(p, r) ELSE Materialize(p, r, mirror')
  /\ UNCHANGED <<upstream, snapshot, marked, lock, ran, raced>>

(* MUTANT of FindSnapshot: a directory is taken for a complete snapshot. *)
FindSnapshotUnmarked(p) ==
  /\ command[p].pc = "materialize"
  /\ IF snapshot[command[p].revision] # "absent"
       THEN Goto(p, "read") /\ UNCHANGED <<mirror, fresh>>
       ELSE /\ EnsureMirror(p)
            /\ IF mirror' = 0 THEN Missing(p, command[p].ref)
               ELSE IF command[p].revision > mirror' THEN Ended(p)
               ELSE Goto(p, "extract") /\ UNCHANGED fresh
  /\ UNCHANGED <<upstream, snapshot, marked, lock, ran, raced>>

(* A snapshot with its marker is used as it is.  Otherwise the mirror is
   brought up to date again and the revision archived, which fails, for
   verify() too, when the mirror does not have it. *)
FindSnapshot(p) ==
  /\ command[p].pc = "materialize"
  /\ IF command[p].revision \in marked
       THEN Goto(p, "read") /\ UNCHANGED <<mirror, fresh>>
       ELSE /\ EnsureMirror(p)
            /\ IF mirror' = 0 THEN Missing(p, command[p].ref)
               ELSE IF command[p].revision > mirror' THEN Ended(p)
               ELSE Goto(p, "extract") /\ UNCHANGED fresh
  /\ UNCHANGED <<upstream, snapshot, marked, lock, ran, raced>>

(* git fails to bring the mirror up to date: verify() reports it and goes on.
   (For the other commands that is Abandon.) *)
FetchFails(p) ==
  /\ command[p].pc = "materialize" /\ command[p].revision \notin marked
  /\ p \notin Offline /\ command[p].kind = "verify"
  /\ GoOn(p, command[p].ref, {})
  /\ UNCHANGED <<upstream, cache, lock, ran, fresh, raced>>

(* The archive is written over what is there: the file is truncated, filled,
   and last the marker written. *)
Extract(p) ==
  LET v == command[p].revision
      others == {q \in Procs \ {p} : command[q].revision = v /\ command[q].pc \in {"mark", "read"}}
  IN /\ command[p].pc = "extract"
     /\ snapshot' = [snapshot EXCEPT ![v] = "partial"]
     /\ raced' = IF v \in marked \/ others # {} THEN raced \cup {v} ELSE raced
     /\ Goto(p, "fill")
     /\ UNCHANGED <<upstream, mirror, marked, lock, ran, fresh>>

Fill(p) ==
  /\ command[p].pc = "fill"
  /\ snapshot' = [snapshot EXCEPT ![command[p].revision] = "whole"]
  /\ Goto(p, "mark")
  /\ UNCHANGED <<upstream, mirror, marked, lock, ran, fresh, raced>>

Mark(p) ==
  /\ command[p].pc = "mark"
  /\ marked' = marked \cup {command[p].revision}
  /\ Goto(p, "read")
  /\ UNCHANGED <<upstream, mirror, snapshot, lock, ran, fresh, raced>>

-----------------------------------------------------------------------------
(* The answer and the lock. *)

Found(p) == [revision |-> command[p].revision, hash |-> command[p].content]

HandOut(p, entry) ==
  GoOn(p, command[p].ref, {[ref |-> command[p].ref, entry |-> entry]})

(* MUTANT of Read: the hash of a locked skill is not compared. *)
ReadUnchecked(p) ==
  LET r == command[p].ref
      v == command[p].revision
      content == IF snapshot[v] = "whole" THEN v ELSE Partial
  IN /\ command[p].pc = "read"
     /\ IF ~UsesLock(p, r)
          THEN command' = [command EXCEPT ![p].pc = "found", ![p].content = content]
          ELSE HandOut(p, [revision |-> v, hash |-> content])
     /\ UNCHANGED <<upstream, cache, lock, ran, fresh, raced>>

(* The file is read and, under a lock, compared with its hash. *)
Read(p) ==
  LET r == command[p].ref
      v == command[p].revision
      content == IF snapshot[v] = "whole" THEN v ELSE Partial
      pinned == command[p].memory[r]
  IN /\ command[p].pc = "read"
     /\ IF ~UsesLock(p, r)
          THEN /\ command' = [command EXCEPT ![p].pc = "found", ![p].content = content]
               /\ UNCHANGED fresh
        ELSE IF content = pinned.hash
          THEN HandOut(p, [revision |-> pinned.revision, hash |-> content]) /\ UNCHANGED fresh
        ELSE IF command[p].kind = "verify"
          THEN Missing(p, r)
        ELSE Ended(p)
     /\ UNCHANGED <<upstream, cache, lock, ran, raced>>

(* save(): the file is truncated here, and written by SaveEnd. *)
SaveBegin(p, memory, pc) ==
  /\ command' = [command EXCEPT ![p].pc = pc, ![p].memory = memory]
  /\ lock' = [lock EXCEPT !.text = "empty"]
  /\ fresh' = fresh \cap {p}

(* Under --update the old entry is removed, and that saved, first. *)
Remove(p) ==
  LET r == command[p].ref IN
  /\ command[p].pc = "found"
  /\ command[p].kind = "update" /\ command[p].memory[r] # Unlocked
  /\ SaveBegin(p, [command[p].memory EXCEPT ![r] = Unlocked], "saving removal")
  /\ UNCHANGED <<upstream, cache, ran, raced>>

Put(p) ==
  LET r == command[p].ref IN
  /\ command[p].pc = "found"
  /\ command[p].kind = "update" => command[p].memory[r] = Unlocked
  /\ SaveBegin(p, [command[p].memory EXCEPT ![r] = Found(p)], "saving entry")
  /\ UNCHANGED <<upstream, cache, ran, raced>>

(* The text of the whole memory goes over an empty file, or over what another
   process wrote there since, of which a rest may stick out. *)
SaveEnd(p) ==
  /\ Saving(p)
  /\ \E text \in IF lock.text = "empty" THEN {"text"} ELSE {"text", "torn"} :
       lock' = [text |-> text, entries |-> command[p].memory]
  /\ IF command[p].pc = "saving removal" THEN Goto(p, "found") ELSE HandOut(p, Found(p))
  /\ fresh' = fresh \cap {p}
  /\ UNCHANGED <<upstream, cache, ran, raced>>

(* The command returns what it resolved. *)
Return(p) ==
  /\ command[p].pc = "next" /\ command[p].todo = {}
  /\ Ended(p)
  /\ UNCHANGED <<upstream, cache, lock, ran, raced>>

(* It is killed, or git or the file system fails it, wherever it is. *)
Abandon(p) ==
  /\ command[p].pc # "idle"
  /\ Ended(p)
  /\ UNCHANGED <<upstream, cache, lock, ran, raced>>

Release ==
  /\ upstream < MaxRevision
  /\ upstream' = upstream + 1
  /\ UNCHANGED <<cache, lock, command, ran, fresh, raced>>

(* The cache is disposable; it is removed while no command runs. *)
ClearCache ==
  /\ \A p \in Procs : command[p].pc = "idle"
  /\ mirror' = 0
  /\ marked' = {}
  /\ snapshot' = [v \in Revisions |-> "absent"]
  /\ UNCHANGED <<upstream, lock, command, ran, fresh, raced>>

Step(p) == \/ Begin(p) \/ Resolve(p) \/ FindSnapshot(p) \/ FetchFails(p)
           \/ Extract(p) \/ Fill(p) \/ Mark(p) \/ Read(p) \/ Remove(p) \/ Put(p) \/ SaveEnd(p) \/ Return(p) \/ Abandon(p)

Next == Release \/ ClearCache \/ \E p \in Procs : Step(p)

Spec == Init /\ [][Next]_vars

-----------------------------------------------------------------------------
(* Properties. *)

Commands ==
  [pc: {"idle", "next", "materialize", "extract", "fill", "mark", "read", "found",
        "saving removal", "saving entry"},
   kind: Kinds, todo: SUBSET Refs, memory: [Refs -> Entry \cup {Unlocked}],
   ref: Refs \cup {NoRef}, revision: Revisions \cup {0}, content: Revisions \cup {Partial},
   handed: SUBSET [ref: Refs, entry: Entry]]

TypeOK ==
  /\ upstream \in Revisions /\ mirror \in 0..upstream
  /\ snapshot \in [Revisions -> {"absent", "partial", "whole"}]
  /\ marked \subseteq Revisions /\ raced \subseteq Revisions
  /\ lock \in [text: {"none", "empty", "text", "torn"}, entries: [Refs -> Entry \cup {Unlocked}]]
  /\ command \in [Procs -> Commands]
  /\ \A p \in Procs : command[p].pc \notin {"idle", "next"} =>
       command[p].ref \in Refs /\ command[p].revision \in Revisions
  /\ ran \in 0..MaxCommands
  /\ fresh \subseteq Procs

(* What is locked is what the provider published: the hash of an entry is that
   of the skill at the entry's revision, although the snapshot it was read from
   may have been cut short, be in the middle of being written, or have been
   cleared.  (Except for a revision two processes extracted at once, where one
   may read what the other has just truncated.) *)
LockedIsGenuine ==
  \A r \in Refs : LET e == lock.entries[r] IN
    e # Unlocked /\ e.revision \notin raced => e.hash = e.revision

(* What a command hands out is what it has locked, entry by entry, and, when
   nobody else saved since it began, what the lockfile says on its return. *)
HandedOutIsLocked ==
  \A p \in Procs : \A h \in command[p].handed :
    /\ command[p].memory[h.ref] = h.entry
    /\ p \in fresh /\ ~Saving(p) => lock.text = "text" /\ lock.entries[h.ref] = h.entry

(* Updates never happen silently: a pin is moved or lost by a command that was
   told to update that very reference, or by one that loaded the file before
   somebody else saved it and puts its whole copy back. *)
PinsMoveOnlyByUpdate ==
  [][\A r \in Refs : lock.entries[r] # Unlocked /\ lock'.entries[r] # lock.entries[r] =>
       \E p \in Procs : Saving(p) /\ (p \in fresh => command[p].kind = "update" /\ command[p].ref = r)]_vars

=============================================================================
