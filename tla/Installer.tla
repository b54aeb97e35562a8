----------------------------- MODULE Installer -----------------------------
(***************************************************************************)
(* specjam.installer: the managed files under .specjam, the lock that      *)
(* records two hashes of each, and the root bridge file.  The package is   *)
(* upgraded and downgraded around it, the user edits and deletes files,    *)
(* and a command may be cut short between its writes.                      *)
(*                                                                         *)
(* A file is its content and a content is its own hash.                    *)
(***************************************************************************)
CONSTANTS
  Paths,        \* managed paths of all releases
  Releases,     \* releases of the package
  Payload,      \* content of each path in each release, or Absent
  Bridge,       \* content of the bridge file, the same in every release
  Local,        \* contents the user writes
  MayStop       \* whether a command may be cut short

VARIABLES
  release,  \* release of the package that runs
  disk,     \* content of each managed path
  bridge,   \* content of AGENTS.md
  lock,     \* .specjam/lock.json
  did,      \* what the last step was
  touched   \* history: paths edited, torn, met by install() with other content,
            \* or left by a command cut short at what its release shipped and
            \* another release ships now; found or made as shipped, they are out

vars == <<release, disk, bridge, lock, did, touched>>

Absent   == "absent"
Torn     == "torn"
Bridges  == Local \cup {Absent, Bridge, Torn}
NoLock   == [files |-> [p \in {} |-> Absent], managed |-> FALSE, bridge |-> Absent]
Shipped  == {Payload[r][p] : r \in Releases, p \in Paths}
Content  == Shipped \cup Local \cup {Absent, Torn}
Entry    == [source : Shipped \ {Absent}, installed : Content \ {Absent}]
Step     == {"none", "install", "force", "update", "prune", "stopped",
             "user", "package"}

ASSUME PayloadAssumption ==
  /\ Payload \in [Releases -> [Paths -> Shipped]]
  /\ (Shipped \ {Absent}) \cap (Local \cup {Absent, Torn}) = {}
  /\ Local \cap {Absent, Torn} = {}
ASSUME UserAssumption ==
  /\ Bridge \notin Local \cup {Absent, Torn}
  /\ MayStop \in BOOLEAN

Managed == {p \in Paths : Payload[release][p] # Absent}
Source(p) == Payload[release][p]

Init ==
  /\ release \in Releases
  /\ disk = [p \in Paths |-> Absent]
  /\ bridge \in {Absent} \cup Local
  /\ lock = NoLock
  /\ did = "none"
  /\ touched = {}

-----------------------------------------------------------------------------
\* A file that is there is rewritten only by force, and then even if unchanged.
InstallWrites(force) == {p \in Managed : disk[p] = Absent \/ force}

\* install(): what differs from the payload is preserved, but locked as if it
\* had been installed.
InstalledContent(p, force) ==
  IF p \in InstallWrites(force) THEN Source(p) ELSE disk[p]

KeepsBridge(force) == bridge # Absent /\ ~force

Install(force) ==
  /\ disk' = [p \in Paths |-> InstalledContent(p, force)]
  /\ bridge' = IF KeepsBridge(force) THEN bridge ELSE Bridge
  /\ lock' = [files |-> [p \in Managed |-> [source |-> Source(p), installed |-> Source(p)]],
              managed |-> ~KeepsBridge(force), bridge |-> bridge']
  /\ did' = IF force THEN "force" ELSE "install"
  /\ touched' = (touched \ Managed)
                  \cup {p \in Managed : InstalledContent(p, force) # Source(p)}
  /\ UNCHANGED release

-----------------------------------------------------------------------------
\* update(): by entry of the lock, then by path of the payload.
Locked == DOMAIN lock.files

\* Mutants of UpdatedContent: deleted files are not restored; a changed payload
\* is written over whatever is there.
UpdatedContentNoRestore(p, prune) ==
  CASE p \in Locked \ Managed ->
         IF prune /\ disk[p] = lock.files[p].installed THEN Absent ELSE disk[p]
    [] p \in Locked \cap Managed ->
         IF /\ disk[p] = lock.files[p].installed
            /\ Source(p) # lock.files[p].source
           THEN Source(p) ELSE disk[p]
    [] p \in Managed \ Locked -> Source(p)
    [] OTHER -> disk[p]
UpdatedContentOverwrites(p, prune) ==
  CASE p \in Locked \ Managed ->
         IF prune /\ disk[p] = lock.files[p].installed THEN Absent ELSE disk[p]
    [] p \in Locked \cap Managed ->
         IF disk[p] = Absent \/ Source(p) # lock.files[p].source
           THEN Source(p) ELSE disk[p]
    [] p \in Managed \ Locked -> Source(p)
    [] OTHER -> disk[p]

UpdatedContent(p, prune) ==
  CASE p \in Locked \ Managed ->
         IF prune /\ disk[p] = lock.files[p].installed THEN Absent ELSE disk[p]
    [] p \in Locked \cap Managed ->
         IF \/ disk[p] = Absent
            \/ /\ disk[p] = lock.files[p].installed
               /\ Source(p) # lock.files[p].source
           THEN Source(p) ELSE disk[p]
    [] p \in Managed \ Locked -> Source(p)
    [] OTHER -> disk[p]

\* Mutant of Relocked: the entry keeps the payload it was installed from.
RelockedStale(p) ==
  IF p \in Managed
    THEN [source |-> IF p \in Locked THEN lock.files[p].source ELSE Source(p),
          installed |-> disk'[p]]
    ELSE lock.files[p]

\* The entry of a path after the update: the payload as its source, and as
\* installed whatever is on the disk now.  Entries no longer shipped stay.
Relocked(p) ==
  IF p \in Managed THEN [source |-> Source(p), installed |-> disk'[p]]
                   ELSE lock.files[p]

Update(prune) ==
  /\ lock # NoLock
  /\ disk' = [p \in Paths |-> UpdatedContent(p, prune)]
  /\ lock' = [lock EXCEPT !.files = [p \in Locked \cup Managed |-> Relocked(p)]]
  /\ did' = IF prune THEN "prune" ELSE "update"
  /\ touched' = touched \ {p \in Managed : disk'[p] = Source(p)}
  /\ UNCHANGED <<release, bridge>>

\* Without a lock that can be read, update() installs.
UpdateInstalls == lock = NoLock /\ Install(FALSE)

-----------------------------------------------------------------------------
\* A command is cut short among the files it writes, in an order of its own: some
\* are whole, one may be torn, also when it would have been the same.  After them
\* come the bridge and the lock, each written in place.
CutShort(writes, new, newBridge, bridgeWritten) ==
  \E done \in SUBSET writes :
    /\ \E torn \in {{}} \cup {{p} : p \in {q \in writes \ done : new[q] # Absent}} :
         /\ disk' = [p \in Paths |-> IF p \in torn THEN Torn
                                    ELSE IF p \in done THEN new[p] ELSE disk[p]]
         /\ touched' = touched \cup torn
    /\ bridge' \in {bridge} \cup (IF done = writes /\ bridgeWritten
                                    THEN {newBridge, Torn} ELSE {})
    /\ lock' \in {lock} \cup (IF done = writes /\ bridge' = newBridge THEN {NoLock} ELSE {})

Stopped ==
  /\ MayStop
  /\ \/ \E force \in BOOLEAN :
          CutShort(InstallWrites(force), [p \in Paths |-> InstalledContent(p, force)],
                   IF KeepsBridge(force) THEN bridge ELSE Bridge, ~KeepsBridge(force))
     \/ \E prune \in BOOLEAN :
          LET new == [p \in Paths |-> UpdatedContent(p, prune)] IN
          /\ lock # NoLock
          /\ CutShort({p \in Paths : new[p] # disk[p]}, new, bridge, FALSE)
  /\ did' = "stopped"
  /\ UNCHANGED release

-----------------------------------------------------------------------------
\* The user and the package.
Edit(p, content) ==
  /\ disk' = [disk EXCEPT ![p] = content]
  /\ touched' = touched \cup {p}
  /\ did' = "user"
  /\ UNCHANGED <<release, bridge, lock>>

Delete(p) ==
  /\ disk' = [disk EXCEPT ![p] = Absent]
  /\ did' = "user"
  /\ UNCHANGED <<release, bridge, lock, touched>>

EditBridge(content) ==
  /\ bridge' = content
  /\ did' = "user"
  /\ UNCHANGED <<release, disk, lock, touched>>

ChangePackage(r) ==
  /\ release' = r
  /\ did' = "package"
  /\ touched' = touched \cup {p \in Locked : disk[p] \notin {Absent, lock.files[p].installed}}
  /\ UNCHANGED <<disk, bridge, lock>>

Next ==
  \/ \E force \in BOOLEAN : Install(force)
  \/ \E prune \in BOOLEAN : Update(prune)
  \/ UpdateInstalls
  \/ Stopped
  \/ \E p \in Paths, content \in Local : Edit(p, content)
  \/ \E p \in Paths : Delete(p)
  \/ \E content \in Local \cup {Absent} : EditBridge(content)
  \/ \E r \in Releases : ChangePackage(r)

Spec == Init /\ [][Next]_vars

-----------------------------------------------------------------------------
\* verify().
Missing  == {p \in Locked : disk[p] = Absent}
Modified == {p \in Locked \ Missing : disk[p] # lock.files[p].installed}
Stale    == {p \in Locked \ Missing : p \in Managed => Source(p) # lock.files[p].source}

\* Properties.

\* The shape of every variable.
TypeOK ==
  /\ release \in Releases
  /\ disk \in [Paths -> Content]
  /\ bridge \in Bridges
  /\ did \in Step
  /\ touched \subseteq Paths
  /\ \E locked \in SUBSET Paths :
       lock \in [files : [locked -> Entry], managed : BOOLEAN,
                bridge : Bridges]

\* Of a path that saw only deletions, other releases and commands, completed or
\* cut short with the path untorn, the two hashes of the lock agree, and the disk
\* has that content, none, or what a command cut short has already put there.
LockIsTrue ==
  \A p \in Locked \ touched :
    /\ lock.files[p].installed = lock.files[p].source
    /\ \/ disk[p] \in {Absent, lock.files[p].installed}
       \/ p \in Managed /\ disk[p] = Source(p)

\* "Given a managed file was deleted, when I run update, then the file is
\* restored", "with the removal flag, then it is removed" (PRD.md:283-284): an
\* update brings such a path to what the release says, whatever sequence of
\* installations, upgrades, downgrades and deletions came before, and completes
\* what a command of the same release that was cut short left undone.
UpdateConverges ==
  did \in {"update", "prune"} =>
    \A p \in Paths \ touched :
      /\ p \in Managed => disk[p] = Source(p)
      /\ did = "prune" /\ p \in Locked \ Managed => disk[p] = Absent

\* What verify() does not complain about is what the release ships, at any time.
VerifyIsRight ==
  \A p \in Locked \ touched :
    p \notin Missing \cup Modified \cup Stale => p \in Managed /\ disk[p] = Source(p)

\* What verify() reports as modified survives install() and update(), whatever
\* it is: an edit, a torn file, a file of another release.
ReportedEditsSurvive ==
  [][did' \in {"install", "update", "prune"} =>
       \A p \in Modified : disk'[p] = disk[p]]_vars

\* The installer "preserves local edits by default during update"
\* (docs/architecture.md:70).
LocalEditsSurvive ==
  [][did' = "update" =>
       \A p \in Locked : disk[p] \in Local => disk'[p] = disk[p]]_vars

=============================================================================
