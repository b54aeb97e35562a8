-------------------------- MODULE InstallerProofs --------------------------
(***************************************************************************)
(* Theorems about Installer, for every set of paths, releases, payloads    *)
(* and user contents, with and without commands cut short.                 *)
(***************************************************************************)
EXTENDS Installer, TLAPS

Inv == TypeOK /\ LockIsTrue /\ UpdateConverges

\* What the running release ships is a known content.
LEMMA SourceIsShipped ==
  ASSUME TypeOK, NEW p \in Paths
  PROVE  Source(p) \in Shipped /\ Shipped \subseteq Content
BY PayloadAssumption DEF TypeOK, Source, Shipped, Content

\* install() leaves a known content at every path.
LEMMA InstalledTyped ==
  ASSUME TypeOK, NEW p \in Paths, NEW force \in BOOLEAN
  PROVE  /\ InstalledContent(p, force) \in Content
         /\ \/ InstalledContent(p, force) = disk[p]
            \/ p \in Managed /\ InstalledContent(p, force) = Source(p)
BY SourceIsShipped DEF TypeOK, InstalledContent, InstallWrites

\* update() leaves a known content at every path, and a file at every managed one.
LEMMA UpdatedTyped ==
  ASSUME TypeOK, NEW p \in Paths, NEW prune \in BOOLEAN
  PROVE  /\ UpdatedContent(p, prune) \in Content
         /\ p \in Managed => UpdatedContent(p, prune) # Absent
         /\ \/ UpdatedContent(p, prune) \in {Absent, disk[p]}
            \/ p \in Managed /\ UpdatedContent(p, prune) = Source(p)
<1>1. /\ Source(p) \in Content /\ disk[p] \in Content /\ Absent \in Content
      /\ p \in Managed => Source(p) # Absent
  BY SourceIsShipped DEF TypeOK, Content, Managed, Source
<1>2. CASE p \in Locked \ Managed
  BY <1>1, <1>2 DEF UpdatedContent
<1>3. CASE p \in Locked \cap Managed
  BY <1>1, <1>3 DEF UpdatedContent
<1>4. CASE p \in Managed \ Locked
  BY <1>1, <1>4 DEF UpdatedContent
<1>5. CASE p \notin Locked /\ p \notin Managed
  BY <1>1, <1>5 DEF UpdatedContent
<1> QED BY <1>2, <1>3, <1>4, <1>5

\* The paths a typed lock has entries for.
LEMMA LockTyped ==
  ASSUME TypeOK
  PROVE  /\ Locked \subseteq Paths
         /\ lock.files \in [Locked -> Entry]
         /\ lock = [files |-> lock.files, managed |-> lock.managed, bridge |-> lock.bridge]
         /\ lock.managed \in BOOLEAN
         /\ lock.bridge \in Bridges
<1>1. PICK locked \in SUBSET Paths :
        lock \in [files : [locked -> Entry], managed : BOOLEAN,
                  bridge : Bridges]
  BY DEF TypeOK
<1>2. DOMAIN lock.files = locked
  BY <1>1
<1> QED BY <1>1, <1>2 DEF Locked

\* The empty lock is typed.
LEMMA NoLockTyped ==
  \E locked \in SUBSET Paths :
    NoLock \in [files : [locked -> Entry], managed : BOOLEAN,
                bridge : Bridges]
<1>1. NoLock \in [files : [{} -> Entry], managed : BOOLEAN,
                  bridge : Bridges]
  BY DEF NoLock, Bridges
<1> QED BY <1>1

\* install() writes a typed lock.
LEMMA InstallTyped ==
  ASSUME TypeOK, NEW force \in BOOLEAN, Install(force)
  PROVE  TypeOK'
<1>1. disk' \in [Paths -> Content]
  BY InstalledTyped DEF Install
<1>2. bridge' \in Bridges
  BY DEF Install, TypeOK, Bridges
<1>3. [p \in Managed |-> [source |-> Source(p), installed |-> Source(p)]]
        \in [Managed -> Entry]
  <2> SUFFICES ASSUME NEW p \in Managed
               PROVE  [source |-> Source(p), installed |-> Source(p)] \in Entry
    OBVIOUS
  <2>1. p \in Paths /\ Source(p) # Absent
    BY DEF Managed, Source
  <2>2. Source(p) \in Shipped \ {Absent} /\ Source(p) \in Content \ {Absent}
    BY <2>1, SourceIsShipped
  <2> QED BY <2>2 DEF Entry
<1>4. lock' \in [files : [Managed -> Entry], managed : BOOLEAN,
                 bridge : Bridges]
  BY <1>2, <1>3 DEF Install, KeepsBridge
<1>5. Managed \in SUBSET Paths /\ touched' \subseteq Paths
  BY DEF Managed, Install, TypeOK
<1>6. release' \in Releases /\ did' \in Step
  BY DEF Install, TypeOK, Step
<1> QED BY <1>1, <1>2, <1>4, <1>5, <1>6 DEF TypeOK

\* update() writes a typed lock.
LEMMA UpdateTyped ==
  ASSUME TypeOK, NEW prune \in BOOLEAN, Update(prune)
  PROVE  TypeOK'
<1>1. disk' \in [Paths -> Content]
  BY UpdatedTyped DEF Update
<1>2. Locked \cup Managed \subseteq Paths
  BY LockTyped DEF Managed
<1>3. [p \in Locked \cup Managed |-> Relocked(p)] \in [Locked \cup Managed -> Entry]
  <2> SUFFICES ASSUME NEW p \in Locked \cup Managed
               PROVE  Relocked(p) \in Entry
    OBVIOUS
  <2>1. p \in Paths
    BY <1>2
  <2>2. CASE p \in Managed
    <3>1. Source(p) \in Shipped \ {Absent}
      BY <2>1, <2>2, SourceIsShipped DEF Managed, Source
    <3>2. disk'[p] \in Content \ {Absent}
      BY <2>1, <2>2, UpdatedTyped DEF Update
    <3> QED BY <2>2, <3>1, <3>2 DEF Relocked, Entry
  <2>3. CASE p \notin Managed
    BY <2>3, LockTyped DEF Relocked
  <2> QED BY <2>2, <2>3
<1>4. lock' \in [files : [Locked \cup Managed -> Entry], managed : BOOLEAN,
                 bridge : Bridges]
  BY <1>3, LockTyped DEF Update
<1>5. release' \in Releases /\ did' \in Step /\ touched' \subseteq Paths
      /\ bridge' \in Bridges
  BY DEF Update, TypeOK, Step
<1> QED BY <1>1, <1>2, <1>4, <1>5 DEF TypeOK

\* What a path may hold after a step, if nobody touched it: what it held, nothing,
\* or what the release ships.
Honest(p, content) == content \in {Absent, disk[p]} \/ (p \in Managed /\ content = Source(p))

\* What a command cut short leaves: known contents, the lock as it was or none,
\* and nothing but the above at what it did not touch.
Remains ==
  /\ disk' \in [Paths -> Content]
  /\ bridge' \in Bridges
  /\ lock' \in {lock, NoLock}
  /\ touched \subseteq touched' /\ touched' \subseteq Paths
  /\ \A p \in Paths \ touched' : Honest(p, disk'[p])

\* The above of the writes of any command.
LEMMA CutShortRemains ==
  ASSUME TypeOK, NEW writes \in SUBSET Paths, NEW new \in [Paths -> Content],
         \A p \in Paths : Honest(p, new[p]),
         NEW newBridge \in Bridges, NEW written \in BOOLEAN,
         CutShort(writes, new, newBridge, written)
  PROVE  Remains
<1>1. PICK done \in SUBSET writes :
        /\ \E torn \in {{}} \cup {{p} : p \in {q \in writes \ done : new[q] # Absent}} :
             /\ disk' = [p \in Paths |-> IF p \in torn THEN Torn
                                        ELSE IF p \in done THEN new[p] ELSE disk[p]]
             /\ touched' = touched \cup torn
        /\ bridge' \in {bridge} \cup (IF done = writes /\ written
                                        THEN {newBridge, Torn} ELSE {})
        /\ lock' \in {lock} \cup (IF done = writes /\ bridge' = newBridge THEN {NoLock} ELSE {})
  BY DEF CutShort
<1>2. PICK torn \in SUBSET Paths :
        /\ disk' = [p \in Paths |-> IF p \in torn THEN Torn
                                   ELSE IF p \in done THEN new[p] ELSE disk[p]]
        /\ touched' = touched \cup torn
  BY <1>1
<1>3. disk' \in [Paths -> Content]
  BY <1>2 DEF TypeOK, Content
<1>4. \A p \in Paths \ touched' : Honest(p, disk'[p])
  BY <1>2 DEF Honest
<1>5. bridge' \in Bridges /\ lock' \in {lock, NoLock}
  BY <1>1 DEF TypeOK, Bridges
<1>6. touched \subseteq touched' /\ touched' \subseteq Paths
  BY <1>2 DEF TypeOK
<1> QED BY <1>3, <1>4, <1>5, <1>6 DEF Remains

\* The above of the commands that may be cut short.
LEMMA StoppedRemains ==
  ASSUME TypeOK, Stopped
  PROVE  Remains
<1>0. bridge \in Bridges /\ Bridge \in Bridges
  BY DEF TypeOK, Bridges
<1>1. ASSUME NEW force \in BOOLEAN,
             CutShort(InstallWrites(force), [p \in Paths |-> InstalledContent(p, force)],
                      IF KeepsBridge(force) THEN bridge ELSE Bridge, ~KeepsBridge(force))
      PROVE  Remains
  <2> DEFINE new == [p \in Paths |-> InstalledContent(p, force)]
             newBridge == IF KeepsBridge(force) THEN bridge ELSE Bridge
             written == ~KeepsBridge(force)
  <2>1. new \in [Paths -> Content] /\ \A p \in Paths : Honest(p, new[p])
    BY InstalledTyped DEF Honest
  <2>2. newBridge \in Bridges /\ written \in BOOLEAN
    BY <1>0
  <2>3. InstallWrites(force) \in SUBSET Paths
    BY DEF InstallWrites, Managed
  <2>4. CutShort(InstallWrites(force), new, newBridge, written)
    BY <1>1
  <2> HIDE DEF new, newBridge, written
  <2> QED BY <2>1, <2>2, <2>3, <2>4, CutShortRemains
<1>2. ASSUME NEW prune \in BOOLEAN, NEW new, new = [p \in Paths |-> UpdatedContent(p, prune)],
             CutShort({p \in Paths : new[p] # disk[p]}, new, bridge, FALSE)
      PROVE  Remains
  <2>1. new \in [Paths -> Content] /\ \A p \in Paths : Honest(p, new[p])
    BY <1>2, UpdatedTyped DEF Honest
  <2>2. {p \in Paths : new[p] # disk[p]} \in SUBSET Paths
    OBVIOUS
  <2> HIDE <1>2
  <2>3. CutShort({p \in Paths : new[p] # disk[p]}, new, bridge, FALSE)
    BY <1>2
  <2> QED BY <1>0, <2>1, <2>2, <2>3, CutShortRemains
<1> QED BY <1>1, <1>2 DEF Stopped

-----------------------------------------------------------------------------
\* Every step leaves the variables well shaped.
LEMMA NextTyped ==
  ASSUME TypeOK, [Next]_vars
  PROVE  TypeOK'
<1>1. ASSUME NEW force \in BOOLEAN, Install(force) PROVE TypeOK'
  BY <1>1, InstallTyped
<1>2. ASSUME NEW prune \in BOOLEAN, Update(prune) PROVE TypeOK'
  BY <1>2, UpdateTyped
<1>3. CASE UpdateInstalls
  BY <1>3, InstallTyped DEF UpdateInstalls
<1>4. CASE Stopped
  <2>1. Remains
    BY <1>4, StoppedRemains
  <2>2. release' \in Releases /\ did' \in Step
    BY <1>4 DEF Stopped, TypeOK, Step
  <2>3. \E locked \in SUBSET Paths :
          lock' \in [files : [locked -> Entry], managed : BOOLEAN,
                     bridge : Bridges]
    BY <2>1, NoLockTyped DEF Remains, TypeOK
  <2> QED BY <2>1, <2>2, <2>3 DEF Remains, TypeOK
<1>5. ASSUME NEW p \in Paths, NEW content \in Local, Edit(p, content) PROVE TypeOK'
  <2>1. disk' \in [Paths -> Content]
    BY <1>5 DEF Edit, TypeOK, Content
  <2> QED BY <1>5, <2>1 DEF Edit, TypeOK, Step
<1>6. ASSUME NEW p \in Paths, Delete(p) PROVE TypeOK'
  <2>1. disk' \in [Paths -> Content]
    BY <1>6 DEF Delete, TypeOK, Content
  <2> QED BY <1>6, <2>1 DEF Delete, TypeOK, Step
<1>7. ASSUME NEW content \in Local \cup {Absent}, EditBridge(content) PROVE TypeOK'
  BY <1>7 DEF EditBridge, TypeOK, Step, Bridges
<1>8. ASSUME NEW r \in Releases, ChangePackage(r) PROVE TypeOK'
  <2>1. touched' \subseteq Paths
    BY <1>8, LockTyped DEF ChangePackage, TypeOK
  <2> QED BY <1>8, <2>1 DEF ChangePackage, TypeOK, Step
<1>9. CASE UNCHANGED vars
  BY <1>9 DEF vars, TypeOK
<1> QED BY <1>1, <1>2, <1>3, <1>4, <1>5, <1>6, <1>7, <1>8, <1>9 DEF Next

-----------------------------------------------------------------------------
\* An update brings every managed path that is not touched to its source, and
\* pruning removes every untouched one that is no longer managed.
LEMMA UpdateReaches ==
  ASSUME Inv, NEW prune \in BOOLEAN, Update(prune), NEW p \in Paths \ touched'
  PROVE  /\ p \in Managed => disk'[p] = Source(p)
         /\ p \in Locked \ Managed =>
              /\ disk'[p] \in {Absent, lock.files[p].installed}
              /\ prune => disk'[p] = Absent
         /\ p \notin Managed => p \notin touched
<1>1. disk'[p] = UpdatedContent(p, prune)
  BY DEF Update
<1>2. p \in touched => p \in Managed /\ disk'[p] = Source(p)
  BY DEF Update
<1>3. p \in Locked \ touched =>
        /\ lock.files[p].installed = lock.files[p].source
        /\ \/ disk[p] \in {Absent, lock.files[p].installed}
           \/ p \in Managed /\ disk[p] = Source(p)
  BY DEF Inv, LockIsTrue
<1>4. CASE p \in Managed \ Locked
  BY <1>1, <1>4 DEF UpdatedContent
<1>5. CASE p \in Managed \cap Locked
  <2>1. CASE disk[p] = Absent
    BY <1>1, <1>5, <2>1 DEF UpdatedContent
  <2>2. CASE disk[p] # Absent
    BY <1>1, <1>2, <1>3, <1>5, <2>2 DEF UpdatedContent
  <2> QED BY <2>1, <2>2
<1>6. CASE p \in Locked \ Managed
  BY <1>1, <1>2, <1>3, <1>6 DEF UpdatedContent
<1>7. CASE p \notin Locked /\ p \notin Managed
  BY <1>2, <1>7
<1> QED BY <1>4, <1>5, <1>6, <1>7

\* After an update the lock tells the truth and the paths have converged.
LEMMA UpdateKeeps ==
  ASSUME Inv, NEW prune \in BOOLEAN, Update(prune)
  PROVE  LockIsTrue' /\ UpdateConverges'
<1>1. /\ lock'.files = [p \in Locked \cup Managed |-> Relocked(p)]
      /\ Locked' = Locked \cup Managed
      /\ Locked' \subseteq Paths
  BY LockTyped DEF Inv, Update, Locked, Managed
<1>2. Managed' = Managed /\ \A p \in Paths : Source(p)' = Source(p)
  BY DEF Update, Managed, Source
<1>3. LockIsTrue'
  <2> SUFFICES ASSUME NEW p \in Locked' \ touched'
               PROVE  /\ lock'.files[p].installed = lock'.files[p].source
                      /\ disk'[p] \in {Absent, lock'.files[p].installed}
    BY DEF LockIsTrue
  <2>1. p \in Paths \ touched' /\ lock'.files[p] = Relocked(p)
    BY <1>1
  <2>2. CASE p \in Managed
    BY <2>1, <2>2, UpdateReaches DEF Relocked
  <2>3. CASE p \notin Managed
    <3>1. p \in Locked \ touched /\ lock'.files[p] = lock.files[p]
      BY <1>1, <2>1, <2>3, UpdateReaches DEF Relocked
    <3>2. lock.files[p].installed = lock.files[p].source
      BY <3>1 DEF Inv, LockIsTrue
    <3> QED BY <2>1, <2>3, <3>1, <3>2, UpdateReaches
  <2> QED BY <2>2, <2>3
<1>4. UpdateConverges'
  <2> SUFFICES ASSUME NEW p \in Paths \ touched'
               PROVE  /\ p \in Managed => disk'[p] = Source(p)
                      /\ prune /\ p \in Locked' \ Managed => disk'[p] = Absent
    BY <1>2 DEF UpdateConverges, Update
  <2> QED BY <1>1, UpdateReaches
<1> QED BY <1>3, <1>4

\* After an installation the lock tells the truth.
LEMMA InstallKeeps ==
  ASSUME Inv, NEW force \in BOOLEAN, Install(force)
  PROVE  LockIsTrue' /\ UpdateConverges'
<1>1. /\ lock'.files = [p \in Managed |-> [source |-> Source(p), installed |-> Source(p)]]
      /\ Locked' = Managed
  BY DEF Install, Locked
<1>2. \A p \in Managed \ touched' : p \in Paths /\ disk'[p] = Source(p)
  BY DEF Install, Managed
<1>3. did' \notin {"update", "prune"}
  BY DEF Install
<1> QED BY <1>1, <1>2, <1>3 DEF LockIsTrue, UpdateConverges

\* The other steps of one release that leave the lock as it is, or none, and at
\* untouched paths what they may hold, keep it true.
LEMMA OthersKeep ==
  ASSUME Inv, lock' \in {lock, NoLock}, did' \notin {"update", "prune"},
         touched \subseteq touched', release' = release,
         \A p \in Paths \ touched' : Honest(p, disk'[p])
  PROVE  LockIsTrue' /\ UpdateConverges'
<1>1. UpdateConverges'
  BY DEF UpdateConverges
<1>2. CASE lock' = NoLock
  <2>1. Locked' = {}
    BY <1>2 DEF Locked, NoLock
  <2> QED BY <1>1, <2>1 DEF LockIsTrue
<1>3. CASE lock' = lock
  <2>1. Locked' = Locked /\ Locked \subseteq Paths
    BY <1>3, LockTyped DEF Locked, Inv
  <2>2. Managed' = Managed /\ \A p \in Paths : Source(p)' = Source(p)
    BY DEF Managed, Source
  <2>3. LockIsTrue'
    <3> SUFFICES ASSUME NEW p \in Locked' \ touched'
                 PROVE  /\ lock'.files[p].installed = lock'.files[p].source
                        /\ \/ disk'[p] \in {Absent, lock'.files[p].installed}
                           \/ p \in Managed' /\ disk'[p] = Source(p)'
      BY DEF LockIsTrue
    <3>1. p \in Paths /\ p \in Locked \ touched /\ Honest(p, disk'[p])
      BY <2>1
    <3>2. /\ lock.files[p].installed = lock.files[p].source
          /\ \/ disk[p] \in {Absent, lock.files[p].installed}
             \/ p \in Managed /\ disk[p] = Source(p)
      BY <3>1 DEF Inv, LockIsTrue
    <3> QED BY <1>3, <2>2, <3>1, <3>2 DEF Honest
  <2> QED BY <1>1, <2>3
<1> QED BY <1>2, <1>3

\* With another release the lock stays true, of the paths that hold what the lock says.
LEMMA PackageKeeps ==
  ASSUME Inv, NEW r \in Releases, ChangePackage(r)
  PROVE  LockIsTrue' /\ UpdateConverges'
<1>1. lock' = lock /\ Locked' = Locked /\ disk' = disk /\ did' = "package"
  BY DEF ChangePackage, Locked
<1>2. \A p \in Locked \ touched' :
        p \notin touched /\ disk[p] \in {Absent, lock.files[p].installed}
  BY DEF ChangePackage
<1>3. UpdateConverges'
  BY <1>1 DEF UpdateConverges
<1>4. LockIsTrue'
  BY <1>1, <1>2 DEF Inv, LockIsTrue
<1> QED BY <1>3, <1>4

\* The invariant is inductive.
LEMMA Inductive ==
  ASSUME Inv, [Next]_vars
  PROVE  Inv'
<1> USE DEF Inv
<1>1. TypeOK'
  BY NextTyped
<1>2. LockIsTrue' /\ UpdateConverges'
  <2>1. ASSUME NEW force \in BOOLEAN, Install(force)
        PROVE  LockIsTrue' /\ UpdateConverges'
    BY <2>1, InstallKeeps
  <2>2. ASSUME NEW prune \in BOOLEAN, Update(prune)
        PROVE  LockIsTrue' /\ UpdateConverges'
    BY <2>2, UpdateKeeps
  <2>3. CASE UpdateInstalls
    BY <2>3, InstallKeeps DEF UpdateInstalls
  <2>4. CASE Stopped
    <3>1. Remains
      BY <2>4, StoppedRemains
    <3> QED BY <2>4, <3>1, OthersKeep DEF Remains, Stopped
  <2>5. ASSUME NEW p \in Paths, NEW content \in Local, Edit(p, content)
        PROVE  LockIsTrue' /\ UpdateConverges'
    BY <2>5, OthersKeep DEF Edit, TypeOK, Honest
  <2>6. ASSUME NEW p \in Paths, Delete(p)
        PROVE  LockIsTrue' /\ UpdateConverges'
    BY <2>6, OthersKeep DEF Delete, TypeOK, Honest
  <2>7. ASSUME NEW content \in Local \cup {Absent}, EditBridge(content)
        PROVE  LockIsTrue' /\ UpdateConverges'
    BY <2>7, OthersKeep DEF EditBridge, Honest
  <2>8. ASSUME NEW r \in Releases, ChangePackage(r)
        PROVE  LockIsTrue' /\ UpdateConverges'
    BY <2>8, PackageKeeps
  <2>9. CASE UNCHANGED vars
    BY <2>9 DEF vars, LockIsTrue, UpdateConverges, Locked, Managed, Source
  <2> QED BY <2>1, <2>2, <2>3, <2>4, <2>5, <2>6, <2>7, <2>8, <2>9 DEF Next
<1> QED BY <1>1, <1>2

\* It holds at first.
LEMMA Initially == Init => Inv
<1> SUFFICES ASSUME Init PROVE Inv
  OBVIOUS
<1>1. Locked = {}
  BY DEF Init, Locked, NoLock
<1>2. TypeOK
  BY NoLockTyped DEF Init, TypeOK, Content, Step, Bridges
<1> QED BY <1>1, <1>2 DEF Init, Inv, LockIsTrue, UpdateConverges

-----------------------------------------------------------------------------
\* The shape of every variable, for every payload and release.
THEOREM TypeCorrect == Spec => []TypeOK
<1>1. Init => TypeOK
  BY Initially DEF Inv
<1>2. TypeOK /\ [Next]_vars => TypeOK'
  BY NextTyped
<1> QED BY <1>1, <1>2, PTL DEF Spec

\* The two hashes of an entry agree with each other and with the disk, on every
\* path that was neither edited nor left behind by a command cut short.
THEOREM LockTellsTruth == Spec => []LockIsTrue
<1>1. Inv => LockIsTrue
  BY DEF Inv
<1> QED BY <1>1, Initially, Inductive, PTL DEF Spec

\* update() brings untouched paths to what the running release ships.
THEOREM UpdatesConverge == Spec => []UpdateConverges
<1>1. Inv => UpdateConverges
  BY DEF Inv
<1> QED BY <1>1, Initially, Inductive, PTL DEF Spec

\* An untouched path that verify() does not complain about is what the running
\* release ships: it follows from the truth of the lock.
THEOREM VerifyTellsTruth == Spec => []VerifyIsRight
<1>1. Inv => VerifyIsRight
  <2> SUFFICES ASSUME Inv, NEW p \in Locked \ touched,
                      p \notin Missing \cup Modified \cup Stale
               PROVE  p \in Managed /\ disk[p] = Source(p)
    BY DEF VerifyIsRight
  <2>1. disk[p] # Absent /\ disk[p] = lock.files[p].installed
    BY DEF Missing, Modified
  <2>2. p \in Managed /\ Source(p) = lock.files[p].source
    BY <2>1 DEF Missing, Stale
  <2> QED BY <2>1, <2>2 DEF Inv, LockIsTrue
<1> QED BY <1>1, Initially, Inductive, PTL DEF Spec

\* What verify() reports as modified survives every command without force that
\* runs to its end.
THEOREM ReportedEditsAreKept == Spec => ReportedEditsSurvive
<1> DEFINE Survive == did' \in {"install", "update", "prune"} =>
                        \A p \in Modified : disk'[p] = disk[p]
<1>1. ASSUME TypeOK, Next PROVE Survive
  <2> SUFFICES ASSUME did' \in {"install", "update", "prune"}, NEW p \in Modified
               PROVE  disk'[p] = disk[p]
    OBVIOUS
  <2>1. /\ p \in Paths /\ p \in Locked
        /\ disk[p] # Absent /\ disk[p] # lock.files[p].installed
    BY <1>1, LockTyped DEF Modified, Missing
  <2>2. Install(FALSE) => disk'[p] = disk[p]
    BY <2>1 DEF Install, InstalledContent, InstallWrites
  <2>3. CASE \E force \in BOOLEAN : Install(force)
    BY <2>2, <2>3 DEF Install
  <2>4. ASSUME NEW prune \in BOOLEAN, Update(prune) PROVE disk'[p] = disk[p]
    <3>1. UpdatedContent(p, prune) = disk[p]
      BY <2>1 DEF UpdatedContent
    <3> QED BY <2>1, <2>4, <3>1 DEF Update
  <2>5. CASE UpdateInstalls
    BY <2>2, <2>5 DEF UpdateInstalls
  <2>6. ~(\/ Stopped
          \/ \E q \in Paths, content \in Local : Edit(q, content)
          \/ \E q \in Paths : Delete(q)
          \/ \E content \in Local \cup {Absent} : EditBridge(content)
          \/ \E r \in Releases : ChangePackage(r))
    BY DEF Stopped, Edit, Delete, EditBridge, ChangePackage
  <2> QED BY <1>1, <2>3, <2>4, <2>5, <2>6 DEF Next
<1>2. TypeOK /\ [Next]_vars => [Survive]_vars
  BY <1>1
<1> QED BY <1>2, TypeCorrect, PTL DEF Spec, ReportedEditsSurvive
=============================================================================
