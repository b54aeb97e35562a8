-------------------------- MODULE MemoryIndexProofs --------------------------
(***************************************************************************)
(* Theorems about MemoryIndex, for every set of processes, clients,        *)
(* columns and memory ids.                                                 *)
(***************************************************************************)
EXTENDS MemoryIndex, FiniteSetTheorems, TLAPS

Migrating == {"bootstrap", "bootstrapped", "columns", "alter", "events", "settle"}
Serving == {"open", "search", "knn", "answer"}
Initialized == {"initialized", "metadata", "configure", "bind"} \cup Serving
Pcs == {"closed", "duplicate column"} \cup Migrating \cup Initialized

Store == [pc : Pcs, client : Clients, migrating : BOOLEAN, missing : SUBSET Columns,
          profile : Spaces \cup {None}, bound : BOOLEAN, rows : SUBSET Ids, behind : SUBSET Ids,
          count : Nat, found : SUBSET Ids]

TypeInv == TypeOK /\ store \in [Procs -> Store]

\* What the schema of the database has when a process is at a step.
SchemaAt(p) ==
  /\ store[p].pc \in Migrating \ {"bootstrap"} => db.table
  /\ store[p].pc = "alter" => Columns \ db.columns \subseteq store[p].missing
  /\ store[p].pc \in {"events", "settle"} => db.columns = Columns
  /\ store[p].pc = "settle" => db.events
  /\ store[p].pc \in Initialized => Complete

\* An opening alone is told of no column that is already there.
AloneAt(p) ==
  /\ store[p].pc # "duplicate column"
  /\ store[p].pc = "alter" => store[p].missing \cap db.columns = {}

SchemaInv ==
  /\ db.version \in {2, 3} => db.table
  /\ db.version = 3 => Complete
  /\ \A p \in Procs : SchemaAt(p)
  /\ \A p \in solo : AloneAt(p)

\* A projection about to be bound has no records but strays, and a bound store is
\* one of the space its projection is bound to.
SpaceAt(p) ==
  /\ At(p, "bind") /\ db.profile = None => Stored \subseteq strays
  /\ store[p].bound => db.profile = store[p].client.space

SpaceInv == SpacesNeverMix /\ \A p \in Procs : SpaceAt(p)

\* What a search may miss, at each of its steps.
SearchAt(p) ==
  /\ At(p, "search") => store[p].rows \ index \subseteq store[p].behind
  /\ At(p, "knn") => Cardinality(store[p].rows) <= store[p].count + Cardinality(store[p].behind)
  /\ At(p, "answer") => Cardinality(store[p].rows \ store[p].found)
                          <= Cardinality(Stored \ store[p].rows) + Cardinality(store[p].behind)

SearchInv == \A p \in Procs : SearchAt(p)

Inv == TypeInv /\ SchemaInv /\ IndexIsComplete /\ SpaceInv /\ SearchInv

-----------------------------------------------------------------------------
\* Type correctness.

\* The record of a process that is not in the database is typed.
LEMMA ClosedTyped == Closed \in Store
<1>1. (CHOOSE c \in Clients : TRUE) \in Clients
  BY IndexAssumption
<1> QED BY <1>1 DEF Closed, Store, Pcs

\* After opening a store is configured, or looks at the metadata, or is used.
LEMMA AfterOpeningTyped ==
  ASSUME NEW p, store[p] \in Store
  PROVE  AfterOpening[store[p].client.kind] \in {"configure", "metadata", "open"}
<1>1. store[p].client.kind \in {"semantic", "manual", "library"}
  BY IndexAssumption DEF Store
<1> QED BY <1>1 DEF AfterOpening

\* Stored records are finitely many, and so is what the index holds of them.
LEMMA StoredFinite ==
  ASSUME TypeInv
  PROVE  IsFiniteSet(Stored) /\ IsFiniteSet(index) /\ Cardinality(index) \in Nat
BY IndexAssumption, FS_Subset, FS_CardinalityType DEF TypeInv, TypeOK

\* Where the record of one process is replaced, the others keep theirs.
LEMMA Replaced ==
  ASSUME TypeInv, NEW p \in Procs, NEW r \in Store, store' = [store EXCEPT ![p] = r]
  PROVE  /\ store' \in [Procs -> Store] /\ store'[p] = r
         /\ \A q \in Procs \ {p} : store'[q] = store[q]
BY DEF TypeInv

\* The record of a process that begins to open the database is typed.
LEMMA OpeningTyped ==
  ASSUME TypeInv, NEW c \in Clients
  PROVE  Opening(c) \in Store
<1>1. CASE db.version = 3
  BY <1>1, ClosedTyped DEF Opening, Store, Pcs, Migrating
<1>2. CASE db.version = 2
  BY <1>2, ClosedTyped DEF Opening, Store, Pcs, Migrating
<1>3. CASE db.version = 0
  BY <1>3, ClosedTyped DEF Opening, Store, Pcs, Migrating
<1> QED BY <1>1, <1>2, <1>3 DEF TypeInv, TypeOK

\* A step of a process is a step of its own record only.
LEMMA StoreStep ==
  ASSUME TypeInv, NEW p \in Procs, Step(p)
  PROVE  store' \in [Procs -> Store] /\ \A q \in Procs \ {p} : store'[q] = store[q]
<1> DEFINE Goal == store' \in [Procs -> Store] /\ \A q \in Procs \ {p} : store'[q] = store[q]
<1>0. /\ store \in [Procs -> Store] /\ store[p] \in Store
      /\ Stored \subseteq Ids /\ index \subseteq Ids
  BY DEF TypeInv, TypeOK
<1>1. ASSUME NEW pc \in Pcs, Goto(p, pc) PROVE Goal
  BY <1>0, <1>1 DEF Goto, Store
<1>2. ASSUME store' = [store EXCEPT ![p] = Closed] PROVE Goal
  BY <1>2, ClosedTyped, Replaced
<1>3. ASSUME UNCHANGED store PROVE Goal
  BY <1>0, <1>3
<1>4. CASE Open(p)
  BY <1>4, OpeningTyped, Replaced DEF Open
<1>5. CASE AddColumn(p)
  <2>1. ASSUME NEW c \in store[p].missing, store' = [store EXCEPT ![p].missing = @ \ {c}] PROVE Goal
    BY <1>0, <2>1 DEF Store
  <2> QED BY <1>1, <1>5, <2>1 DEF AddColumn, Pcs
<1>6. CASE ReadColumns(p)
  <2> DEFINE r == [store[p] EXCEPT !.pc = "alter", !.missing = Columns \ db.columns]
  <2>1. r \in Store
    BY <1>0 DEF Store, Pcs, Migrating
  <2>2. store' = [store EXCEPT ![p] = r]
    BY <1>0, <1>6 DEF ReadColumns
  <2> QED BY <2>1, <2>2, Replaced
<1>7. CASE ReadMetadata(p)
  <2> DEFINE r == [store[p] EXCEPT !.pc = AfterOpening[store[p].client.kind], !.profile = db.profile]
  <2>0. AfterOpening[store[p].client.kind] \in Pcs
    BY <1>0, AfterOpeningTyped DEF Pcs, Initialized, Serving
  <2>1. r \in Store
    BY <1>0, <2>0 DEF Store, TypeInv, TypeOK
  <2>2. store' = [store EXCEPT ![p] = r]
    BY <1>0, <1>7 DEF ReadMetadata
  <2> QED BY <2>1, <2>2, Replaced
<1>8. CASE SearchRows(p)
  <2> DEFINE r == [store[p] EXCEPT !.pc = "search", !.rows = Stored, !.behind = Stored \ index]
  <2>1. r \in Store
    BY <1>0 DEF Store, Pcs, Initialized, Serving
  <2>2. store' = [store EXCEPT ![p] = r]
    BY <1>0, <1>8 DEF SearchRows
  <2> QED BY <2>1, <2>2, Replaced
<1>9. CASE SearchCount(p)
  <2> DEFINE r == [store[p] EXCEPT !.pc = "knn", !.count = Cardinality(index)]
  <2>1. r \in Store
    BY <1>0, StoredFinite DEF Store, Pcs, Initialized, Serving
  <2>2. store' = [store EXCEPT ![p] = r]
    BY <1>0, <1>9 DEF SearchCount
  <2> QED BY <2>1, <2>2, Replaced
<1>10. CASE SearchReturns(p)
  <2> DEFINE r == [store[p] EXCEPT !.pc = "open", !.rows = {}, !.behind = {}, !.count = 0, !.found = {}]
  <2>1. r \in Store
    BY <1>0 DEF Store, Pcs, Initialized, Serving
  <2>2. store' = [store EXCEPT ![p] = r]
    BY <1>0, <1>10 DEF SearchReturns
  <2> QED BY <2>1, <2>2, Replaced
<1>11. CASE SearchKNN(p)
  <2>1. PICK nearest \in SUBSET index :
          store' = [store EXCEPT ![p].pc = "answer", ![p].found = store[p].rows \cap nearest]
    BY <1>11 DEF SearchKNN
  <2> DEFINE r == [store[p] EXCEPT !.pc = "answer", !.found = store[p].rows \cap nearest]
  <2>2. r \in Store
    BY <1>0 DEF Store, Pcs, Initialized, Serving
  <2>3. store' = [store EXCEPT ![p] = r]
    BY <1>0, <2>1
  <2> QED BY <2>2, <2>3, Replaced
<1>12. CASE BootstrapTables(p) \/ BootstrapVersion(p) \/ ColumnsAdded(p) \/ CreateEvents(p)
  BY <1>1, <1>12 DEF BootstrapTables, BootstrapVersion, ColumnsAdded, CreateEvents, Pcs, Migrating
<1>13. CASE Settle(p) \/ CountRecords(p)
  BY <1>1, <1>13 DEF Settle, CountRecords, Pcs, Initialized, Serving
<1>14. CASE Configure(p) \/ Bind(p)
  <2>1. ASSUME Accepted(p) PROVE Goal
    <3> DEFINE r == [store[p] EXCEPT !.pc = "open", !.bound = TRUE]
    <3>1. r \in Store
      BY <1>0 DEF Store, Pcs, Initialized, Serving
    <3>2. store' = [store EXCEPT ![p] = r]
      BY <1>0, <2>1 DEF Accepted
    <3> QED BY <3>1, <3>2, Replaced
  <2> QED BY <1>1, <1>2, <1>14, <2>1 DEF Configure, Bind, Pcs, Initialized, Serving
<1>15. CASE SettleRefused(p) \/ Close(p)
  BY <1>2, <1>15 DEF SettleRefused, Close
<1>16. CASE Add(p)
  BY <1>3, <1>16 DEF Add
<1> QED BY <1>4, <1>5, <1>6, <1>7, <1>8, <1>9, <1>10, <1>11, <1>12, <1>13, <1>14, <1>15, <1>16 DEF Step

\* What a step does to the database itself.
LEMMA DbStep ==
  ASSUME TypeInv, NEW p \in Procs, Step(p)
  PROVE  /\ db' \in [version: {0, 2, 3}, table: BOOLEAN, columns: SUBSET Columns, events: BOOLEAN,
                     dimensions: {c.dimensions : c \in Clients} \cup {None},
                     profile: Spaces \cup {None}, vec: BOOLEAN]
         /\ db.table => db'.table
         /\ db.columns \subseteq db'.columns
         /\ db.events => db'.events
         /\ db.dimensions # None => db'.dimensions = db.dimensions
         /\ db.profile # None => db'.profile = db.profile
         /\ db.vec => db'.vec
<1> USE DEF TypeInv, TypeOK
<1>0. store[p] \in Store
  OBVIOUS
<1>1. CASE BootstrapTables(p) \/ CreateEvents(p)
  BY <1>1 DEF BootstrapTables, CreateEvents
<1>2. CASE BootstrapVersion(p)
  BY <1>2 DEF BootstrapVersion
<1>3. CASE AddColumn(p)
  <2>1. PICK c \in store[p].missing : db' = db \/ db' = [db EXCEPT !.columns = @ \cup {c}]
    BY <1>3 DEF AddColumn
  <2>2. c \in Columns
    BY <1>0 DEF Store
  <2> QED BY <2>1, <2>2
<1>4. CASE Settle(p)
  BY <1>0, <1>4 DEF Settle, Store
<1>5. CASE Bind(p)
  BY <1>0, <1>5 DEF Bind, Store, Spaces
<1>6. CASE UNCHANGED db
  BY <1>6
<1> QED
  BY <1>1, <1>2, <1>3, <1>4, <1>5, <1>6
  DEF Step, Open, ReadColumns, ColumnsAdded, SettleRefused, ReadMetadata, CountRecords, Configure,
      Add, SearchRows, SearchCount, SearchKNN, SearchReturns, Close

\* Records are added and never lost, and so is what the index holds.
LEMMA RecordStep ==
  ASSUME TypeInv, NEW p \in Procs, Step(p)
  PROVE  /\ Stored' \subseteq Ids /\ Stored \subseteq Stored' /\ index \subseteq index'
         /\ \A id \in Stored' : records'[id] \in Spaces \cup {Legacy}
         /\ index' \subseteq Stored' /\ late' \subseteq Stored' /\ strays' \subseteq Stored'
<1> USE DEF TypeInv, TypeOK
<1>0. store[p] \in Store
  OBVIOUS
<1>1. CASE Settle(p)
  BY <1>1 DEF Settle, Backfill, Completed, Stored
<1>2. CASE Add(p)
  <2>1. store[p].client.space \in Spaces
    BY <1>0 DEF Store, Spaces
  <2>2. PICK id \in Ids \ Stored :
          /\ records' = [i \in Stored \cup {id} |-> IF i = id THEN store[p].client.space ELSE records[i]]
          /\ \/ index' = index \cup {id} /\ late' = late
             \/ late' = late \cup {id} /\ index' = index
          /\ strays' \subseteq strays \cup {id}
    BY <1>2 DEF Add
  <2>3. Stored' = Stored \cup {id}
    BY <2>2 DEF Stored
  <2> QED BY <2>1, <2>2, <2>3
<1>3. CASE UNCHANGED <<records, index, late, strays>>
  BY <1>3 DEF Stored
<1> QED
  BY <1>1, <1>2, <1>3
  DEF Step, Open, BootstrapTables, BootstrapVersion, ReadColumns, AddColumn, ColumnsAdded, CreateEvents,
      SettleRefused, ReadMetadata, CountRecords, Configure, Bind, SearchRows, SearchCount, SearchKNN,
      SearchReturns, Close

\* What a search holds are records, and what it found are rows it read.
LEMMA RowsStep ==
  ASSUME TypeInv, NEW p \in Procs, Step(p), NEW q \in Procs
  PROVE  store'[q].rows \subseteq Stored' /\ store'[q].found \subseteq store'[q].rows
<1>1. /\ store \in [Procs -> Store] /\ store[p] \in Store /\ Stored \subseteq Stored'
      /\ store[q].rows \subseteq Stored /\ store[q].found \subseteq store[q].rows
  BY RecordStep DEF TypeInv, TypeOK
<1>2. CASE q # p
  BY <1>1, <1>2, StoreStep
<1>3. CASE store'[p].rows = store[p].rows /\ store'[p].found = store[p].found
  BY <1>1, <1>2, <1>3
<1>4. CASE store'[p].rows = {} /\ store'[p].found = {}
  BY <1>1, <1>2, <1>4
<1>5. CASE Open(p)
  BY <1>1, <1>4, <1>5 DEF Open, Opening, Closed
<1>6. CASE SearchRows(p)
  BY <1>1, <1>2, <1>6 DEF SearchRows, Store, At
<1>7. CASE SearchKNN(p)
  <2>1. PICK nearest \in SUBSET index :
          store' = [store EXCEPT ![p].pc = "answer", ![p].found = store[p].rows \cap nearest]
    BY <1>7 DEF SearchKNN
  <2> QED BY <1>1, <1>2, <2>1 DEF Store
<1>8. CASE SearchReturns(p)
  BY <1>1, <1>4, <1>8 DEF SearchReturns, Store
<1>9. CASE SettleRefused(p) \/ Close(p)
  BY <1>1, <1>4, <1>9 DEF SettleRefused, Close, Closed
<1>10. CASE Configure(p) \/ Bind(p)
  BY <1>1, <1>3, <1>4, <1>10 DEF Configure, Bind, Closed, Goto, Accepted, Store
<1>11. CASE BootstrapTables(p) \/ BootstrapVersion(p) \/ ReadColumns(p) \/ ColumnsAdded(p)
  BY <1>1, <1>3, <1>11
  DEF BootstrapTables, BootstrapVersion, ReadColumns, ColumnsAdded, Goto, Store
<1>12. CASE CreateEvents(p) \/ Settle(p) \/ ReadMetadata(p) \/ CountRecords(p) \/ Add(p) \/ SearchCount(p)
  BY <1>1, <1>3, <1>12
  DEF CreateEvents, Settle, ReadMetadata, CountRecords, Add, SearchCount, Goto, Store
<1>13. CASE AddColumn(p)
  <2>1. PICK c \in store[p].missing :
          \/ store' = [store EXCEPT ![p].pc = "duplicate column"]
          \/ store' = [store EXCEPT ![p].missing = @ \ {c}]
    BY <1>13 DEF AddColumn, Goto
  <2> QED BY <1>1, <1>3, <2>1 DEF Store
<1> QED
  BY <1>5, <1>6, <1>7, <1>8, <1>9, <1>10, <1>11, <1>12, <1>13 DEF Step

\* Every step of a process keeps the types.
LEMMA TypeStep ==
  ASSUME TypeInv, NEW p \in Procs, Step(p)
  PROVE  TypeInv'
<1>1. solo' \subseteq Procs
  BY DEF TypeInv, TypeOK, Touched, Step, Open, BootstrapTables, BootstrapVersion, ReadColumns, AddColumn,
     ColumnsAdded, CreateEvents, Settle, SettleRefused, ReadMetadata, CountRecords, Configure, Bind, Add,
     SearchRows, SearchCount, SearchKNN, SearchReturns, Close
<1>2. strays' \subseteq Stored'
  BY RecordStep
<1>3. \A q \in Procs : store'[q].client \in Clients /\ store'[q].missing \subseteq Columns
  BY StoreStep DEF Store
<1>4. \A q \in Procs : store'[q].rows \subseteq Stored' /\ store'[q].found \subseteq store'[q].rows
  BY RowsStep
<1> QED BY <1>1, <1>2, <1>3, <1>4, StoreStep, DbStep, RecordStep DEF TypeInv, TypeOK

-----------------------------------------------------------------------------
\* The index.

\* Every step keeps the index complete up to what it owes to stores without it.
LEMMA IndexStep ==
  ASSUME TypeInv, IndexIsComplete, NEW p \in Procs, Step(p)
  PROVE  IndexIsComplete'
<1>0. index \subseteq Stored /\ late \subseteq Stored /\ store[p] \in Store
  BY DEF TypeInv, TypeOK
<1>1. CASE Settle(p)
  <2>1. CASE store[p].client.backend = "sqlite-vec"
    BY <1>0, <1>1, <2>1 DEF Settle, Backfill, Completed, IndexIsComplete, Stored
  <2>2. CASE store[p].client.backend # "sqlite-vec"
    <3>1. db'.vec = db.vec /\ Stored' = Stored /\ index' = index /\ late' = late
      BY <1>1, <2>2 DEF Settle, Backfill, Completed, Stored, TypeInv, TypeOK
    <3> QED BY <3>1 DEF IndexIsComplete
  <2> QED BY <2>1, <2>2
<1>2. CASE Add(p)
  <2>1. PICK id \in Ids \ Stored :
          /\ DOMAIN records' = Stored \cup {id}
          /\ \/ index' = index \cup {id} /\ late' = late
             \/ late' = late \cup {id} /\ index' = index
    BY <1>2 DEF Add
  <2>2. db' = db
    BY <1>2 DEF Add
  <2> QED BY <1>0, <2>1, <2>2 DEF IndexIsComplete, Stored
<1>3. CASE UNCHANGED <<records, index, late>> /\ db'.vec = db.vec
  BY <1>3 DEF IndexIsComplete, Stored
<1>4. CASE AddColumn(p) \/ BootstrapTables(p) \/ BootstrapVersion(p) \/ CreateEvents(p) \/ Bind(p)
  BY <1>3, <1>4 DEF AddColumn, BootstrapTables, BootstrapVersion, CreateEvents, Bind, TypeInv, TypeOK
<1> QED
  BY <1>1, <1>2, <1>3, <1>4
  DEF Step, Open, ReadColumns, ColumnsAdded, SettleRefused, ReadMetadata, CountRecords, Configure,
      SearchRows, SearchCount, SearchKNN, SearchReturns, Close

-----------------------------------------------------------------------------
\* The schema.

\* What one process knows of the schema stays true whatever another one does.
LEMMA SchemaOfOthers ==
  ASSUME TypeInv, SchemaInv, NEW p \in Procs, Step(p), NEW q \in Procs, store'[q] = store[q]
  PROVE  SchemaAt(q)'
<1>1. db'.columns \subseteq Columns /\ db.columns \subseteq db'.columns
      /\ (db.table => db'.table) /\ (db.events => db'.events)
      /\ (db.dimensions # None => db'.dimensions # None)
  BY DbStep DEF TypeInv, TypeOK
<1>2. SchemaAt(q)
  BY DEF SchemaInv
<1> QED BY <1>1, <1>2 DEF SchemaAt, Complete

\* A process knows of the schema what its own statements did.
LEMMA SchemaOfItself ==
  ASSUME TypeInv, SchemaInv, NEW p \in Procs, Step(p)
  PROVE  SchemaAt(p)'
<1>0. /\ store \in [Procs -> Store] /\ store[p] \in Store /\ SchemaAt(p)
      /\ db \in [version: {0, 2, 3}, table: BOOLEAN, columns: SUBSET Columns, events: BOOLEAN,
                 dimensions: {c.dimensions : c \in Clients} \cup {None},
                 profile: Spaces \cup {None}, vec: BOOLEAN]
      /\ (db.version \in {2, 3} => db.table) /\ (db.version = 3 => Complete)
  BY DEF TypeInv, TypeOK, SchemaInv
<1> USE DEF SchemaAt, Migrating, Initialized, Serving, At, Goto
<1>1. CASE Open(p)
  <2>1. PICK c \in Clients : store' = [store EXCEPT ![p] = Opening(c)]
    BY <1>1 DEF Open
  <2>2. store'[p].pc = IF db.version = 0 THEN "bootstrap" ELSE IF db.version = 2 THEN "columns" ELSE "settle"
    BY <1>0, <2>1 DEF Opening, Closed
  <2>3. db' = db
    BY <1>1 DEF Open
  <2> QED BY <1>0, <2>2, <2>3 DEF Complete
<1>2. CASE BootstrapTables(p)
  BY <1>0, <1>2 DEF BootstrapTables
<1>3. CASE BootstrapVersion(p)
  BY <1>0, <1>3 DEF BootstrapVersion
<1>4. CASE ReadColumns(p)
  BY <1>0, <1>4 DEF ReadColumns
<1>5. CASE AddColumn(p)
  <2>1. PICK c \in store[p].missing :
          \/ store' = [store EXCEPT ![p].pc = "duplicate column"]
          \/ /\ db' = [db EXCEPT !.columns = @ \cup {c}]
             /\ store' = [store EXCEPT ![p].missing = @ \ {c}]
    BY <1>5 DEF AddColumn
  <2>2. CASE store' = [store EXCEPT ![p].pc = "duplicate column"]
    BY <1>0, <2>2 DEF Store
  <2>3. CASE /\ db' = [db EXCEPT !.columns = @ \cup {c}]
             /\ store' = [store EXCEPT ![p].missing = @ \ {c}]
    BY <1>0, <1>5, <2>3 DEF AddColumn, Store
  <2> QED BY <2>1, <2>2, <2>3
<1>6. CASE ColumnsAdded(p)
  BY <1>0, <1>6 DEF ColumnsAdded, Store
<1>7. CASE CreateEvents(p)
  BY <1>0, <1>7 DEF CreateEvents
<1>8. CASE Settle(p)
  <2>1. store[p].client.dimensions # None
    BY <1>0, IndexAssumption DEF Store
  <2> QED BY <1>0, <1>8, <2>1 DEF Settle, Complete
<1>9. CASE SettleRefused(p) \/ Close(p)
  BY <1>0, <1>9 DEF SettleRefused, Close, Closed
<1>10. CASE ReadMetadata(p) \/ CountRecords(p)
  BY <1>0, <1>10 DEF ReadMetadata, CountRecords, Complete
<1>11. CASE Configure(p)
  BY <1>0, <1>11 DEF Configure, Closed, Complete
<1>12. CASE Bind(p)
  BY <1>0, <1>12 DEF Bind, Closed, Complete
<1>13. CASE Add(p)
  BY <1>0, <1>13 DEF Add, Complete
<1>14. CASE SearchRows(p) \/ SearchCount(p) \/ SearchReturns(p)
  BY <1>0, <1>14 DEF SearchRows, SearchCount, SearchReturns, Complete
<1>15. CASE SearchKNN(p)
  BY <1>0, <1>15 DEF SearchKNN, Complete
<1> QED
  BY <1>1, <1>2, <1>3, <1>4, <1>5, <1>6, <1>7, <1>8, <1>9, <1>10, <1>11, <1>12, <1>13, <1>14, <1>15 DEF Step

\* The version is written where the schema it stands for is there.
LEMMA VersionStep ==
  ASSUME TypeInv, SchemaInv, NEW p \in Procs, Step(p)
  PROVE  (db'.version \in {2, 3} => db'.table) /\ (db'.version = 3 => Complete')
<1>0. /\ store[p] \in Store /\ SchemaAt(p)
      /\ db \in [version: {0, 2, 3}, table: BOOLEAN, columns: SUBSET Columns, events: BOOLEAN,
                 dimensions: {c.dimensions : c \in Clients} \cup {None},
                 profile: Spaces \cup {None}, vec: BOOLEAN]
      /\ (db.version \in {2, 3} => db.table) /\ (db.version = 3 => Complete)
  BY DEF TypeInv, TypeOK, SchemaInv
<1>1. CASE db'.version = db.version
  <2>1. db'.columns \subseteq Columns /\ db.columns \subseteq db'.columns
        /\ (db.table => db'.table) /\ (db.events => db'.events)
        /\ (db.dimensions # None => db'.dimensions # None)
    BY DbStep
  <2> QED BY <1>0, <1>1, <2>1 DEF Complete
<1>2. CASE BootstrapVersion(p)
  BY <1>0, <1>2 DEF BootstrapVersion, SchemaAt, Migrating, At
<1>3. CASE Settle(p)
  <2>1. store[p].client.dimensions # None
    BY <1>0, IndexAssumption DEF Store
  <2> QED BY <1>0, <1>3, <2>1 DEF Settle, SchemaAt, Migrating, At, Complete
<1>4. CASE AddColumn(p) \/ BootstrapTables(p) \/ CreateEvents(p) \/ Bind(p)
  BY <1>0, <1>1, <1>4 DEF AddColumn, BootstrapTables, CreateEvents, Bind
<1> QED
  BY <1>1, <1>2, <1>3, <1>4
  DEF Step, Open, ReadColumns, ColumnsAdded, SettleRefused, ReadMetadata, CountRecords, Configure, Add,
      SearchRows, SearchCount, SearchKNN, SearchReturns, Close

\* An opening no other process disturbs finds each column it is to add missing.
LEMMA AloneStep ==
  ASSUME TypeInv, SchemaInv, NEW p \in Procs, Step(p), NEW q \in solo'
  PROVE  AloneAt(q)'
<1>0. /\ store \in [Procs -> Store] /\ store[p] \in Store /\ solo \subseteq Procs
      /\ db \in [version: {0, 2, 3}, table: BOOLEAN, columns: SUBSET Columns, events: BOOLEAN,
                 dimensions: {c.dimensions : c \in Clients} \cup {None},
                 profile: Spaces \cup {None}, vec: BOOLEAN]
      /\ \A r \in solo : AloneAt(r)
  BY DEF TypeInv, TypeOK, SchemaInv
<1>a. store \in [Procs -> Store] /\ store[p] \in Store
  BY <1>0
<1>1. CASE q # p
  <2>0. ASSUME solo' = solo \cap {p} PROVE FALSE
    BY <1>1, <2>0
  <2>1. q \in solo /\ UNCHANGED db.columns
    BY <1>0, <1>1, <2>0
    DEF Step, Open, BootstrapTables, BootstrapVersion, ReadColumns, AddColumn, ColumnsAdded, CreateEvents,
        Settle, SettleRefused, ReadMetadata, CountRecords, Configure, Bind, Add, SearchRows, SearchCount,
        SearchKNN, SearchReturns, Close, Touched
  <2> QED BY <1>0, <1>1, <2>1, StoreStep DEF AloneAt
<1> SUFFICES ASSUME q = p PROVE AloneAt(p)'
  BY <1>1
<1>2. CASE ReadColumns(p)
  BY <1>0, <1>2 DEF ReadColumns, AloneAt, Store
<1>3. CASE AddColumn(p)
  <2>1. PICK c \in store[p].missing :
          \/ c \in db.columns /\ solo' = solo
          \/ /\ db' = [db EXCEPT !.columns = @ \cup {c}]
             /\ store' = [store EXCEPT ![p].missing = @ \ {c}]
             /\ solo' \subseteq solo
    BY <1>3 DEF AddColumn, Touched
  <2>2. AloneAt(p) /\ At(p, "alter")
    BY <1>0, <1>3, <2>1 DEF AddColumn
  <2>3. c \notin db.columns /\ store[p].missing \cap db.columns = {}
    BY <2>1, <2>2 DEF AloneAt, At
  <2>4. /\ store' = [store EXCEPT ![p].missing = @ \ {c}]
        /\ db' = [db EXCEPT !.columns = @ \cup {c}]
    BY <2>1, <2>3
  <2>5. store'[p].missing = store[p].missing \ {c} /\ store'[p].pc = "alter"
    BY <1>a, <2>2, <2>4 DEF Store, At
  <2>6. db'.columns = db.columns \cup {c}
    BY <1>0, <2>4
  <2> QED BY <2>3, <2>5, <2>6 DEF AloneAt
<1>4. CASE Open(p)
  <2>1. PICK c \in Clients : store' = [store EXCEPT ![p] = Opening(c)]
    BY <1>4 DEF Open
  <2> QED BY <1>0, <2>1 DEF Store, Opening, Closed, AloneAt
<1>5. ASSUME NEW pc, pc \notin {"alter", "duplicate column"}, Goto(p, pc) PROVE AloneAt(p)'
  BY <1>a, <1>5 DEF Goto, AloneAt, Store
<1>6. ASSUME store' = [store EXCEPT ![p] = Closed] PROVE AloneAt(p)'
  BY <1>a, <1>6 DEF Closed, AloneAt
<1>7. CASE BootstrapTables(p) \/ BootstrapVersion(p) \/ ColumnsAdded(p) \/ CreateEvents(p)
  BY <1>5, <1>7 DEF BootstrapTables, BootstrapVersion, ColumnsAdded, CreateEvents
<1>8. CASE Settle(p) \/ CountRecords(p)
  BY <1>5, <1>8 DEF Settle, CountRecords
<1>14. CASE Configure(p) \/ Bind(p)
  <2>1. \/ Goto(p, "bind") \/ Accepted(p)
        \/ store' = [store EXCEPT ![p] = Closed]
    BY <1>14 DEF Configure, Bind
  <2>2. ASSUME Accepted(p) PROVE AloneAt(p)'
    BY <1>a, <2>2 DEF Accepted, AloneAt, Store
  <2> QED BY <1>5, <1>6, <2>1, <2>2
<1>9. CASE SettleRefused(p) \/ Close(p)
  BY <1>6, <1>9 DEF SettleRefused, Close
<1>10. CASE Add(p)
  BY <1>10 DEF Add, At, AloneAt
<1>11. CASE ReadMetadata(p)
  BY <1>a, <1>11, AfterOpeningTyped DEF ReadMetadata, AloneAt, Store
<1>12. CASE SearchRows(p)
  BY <1>a, <1>12 DEF SearchRows, AloneAt, Store
<1>15. CASE SearchCount(p)
  BY <1>a, <1>15 DEF SearchCount, AloneAt, Store
<1>16. CASE SearchReturns(p)
  BY <1>a, <1>16 DEF SearchReturns, AloneAt, Store
<1>13. CASE SearchKNN(p)
  BY <1>a, <1>13 DEF SearchKNN, AloneAt, Store
<1> QED
  BY <1>2, <1>3, <1>4, <1>7, <1>8, <1>9, <1>10, <1>11, <1>12, <1>13, <1>14,
     <1>15, <1>16 DEF Step

\* Every step keeps the version true to the schema.
LEMMA SchemaStep ==
  ASSUME TypeInv, SchemaInv, NEW p \in Procs, Step(p)
  PROVE  SchemaInv'
<1>1. ASSUME NEW q \in Procs PROVE SchemaAt(q)'
  <2>1. CASE q = p
    BY <2>1, SchemaOfItself
  <2>2. CASE q # p
    BY <2>2, StoreStep, SchemaOfOthers
  <2> QED BY <2>1, <2>2
<1> QED BY <1>1, VersionStep, AloneStep DEF SchemaInv

-----------------------------------------------------------------------------
\* The embedding space.

\* Only add() changes the records and the strays among them.
LEMMA OnlyAddStores ==
  ASSUME TypeInv, NEW p \in Procs, Step(p), ~Add(p)
  PROVE  records' = records /\ strays' = strays /\ Stored' = Stored
BY DEF Step, Open, BootstrapTables, BootstrapVersion, ReadColumns, AddColumn, ColumnsAdded, CreateEvents,
   Settle, SettleRefused, ReadMetadata, CountRecords, Configure, Bind, SearchRows, SearchCount, SearchKNN,
   SearchReturns, Close, Stored

\* add() leaves the metadata alone, and what a store that is not bound adds is a
\* stray.
LEMMA AddStores ==
  ASSUME TypeInv, NEW p \in Procs, Add(p)
  PROVE  /\ db' = db /\ store' = store
         /\ \E id \in Ids \ Stored :
              /\ Stored' = Stored \cup {id} /\ records'[id] = store[p].client.space
              /\ \A i \in Stored : records'[i] = records[i]
              /\ strays' = IF store[p].bound THEN strays ELSE strays \cup {id}
<1>1. PICK id \in Ids \ Stored :
        /\ records' = [i \in Stored \cup {id} |-> IF i = id THEN store[p].client.space ELSE records[i]]
        /\ strays' = IF store[p].bound THEN strays ELSE strays \cup {id}
  BY DEF Add
<1>2. Stored' = Stored \cup {id}
  BY <1>1 DEF Stored
<1> QED BY <1>1, <1>2 DEF Add

\* Nobody but configure_embedding() changes the profile.
LEMMA OnlyBindBinds ==
  ASSUME TypeInv, NEW p \in Procs, Step(p), db'.profile # db.profile
  PROVE  Bind(p) /\ db.profile = None /\ db'.profile = store[p].client.space
<1>1. CASE BootstrapTables(p) \/ BootstrapVersion(p) \/ CreateEvents(p) \/ Settle(p) \/ AddColumn(p)
  BY <1>1 DEF BootstrapTables, BootstrapVersion, CreateEvents, Settle, AddColumn, TypeInv, TypeOK
<1>2. CASE Bind(p)
  BY <1>2 DEF Bind, TypeInv, TypeOK
<1> QED
  BY <1>1, <1>2
  DEF Step, Open, ReadColumns, ColumnsAdded, SettleRefused, ReadMetadata, CountRecords, Configure, Add,
      SearchRows, SearchCount, SearchKNN, SearchReturns, Close

\* A process that is about to bind still finds strays only, whatever another does:
\* while nothing is bound, what is added is a stray.
LEMMA StraysOnly ==
  ASSUME TypeInv, SpaceInv, NEW p \in Procs, Step(p), db'.profile = None,
         Stored \subseteq strays
  PROVE  Stored' \subseteq strays'
<1>1. CASE Add(p)
  <2>1. db' = db /\ ~store[p].bound
    <3>1. /\ SpaceAt(p) /\ store[p].client.space # None /\ db' = db
      BY <1>1, AddStores, IndexAssumption DEF SpaceInv, TypeInv, Store
    <3> QED BY <3>1 DEF SpaceAt
  <2> QED BY <1>1, <2>1, AddStores
<1>2. CASE ~Add(p)
  BY <1>2, OnlyAddStores
<1> QED BY <1>1, <1>2

\* What holds of another process that is bound, or is about to be, still holds.
LEMMA SpaceOfOthers ==
  ASSUME TypeInv, SpaceInv, NEW p \in Procs, Step(p), NEW q \in Procs, store'[q] = store[q]
  PROVE  SpaceAt(q)'
<1>1. /\ store[q] \in Store /\ SpaceAt(q) /\ store[q].client.space # None
      /\ db.profile # None => db'.profile = db.profile
  BY DbStep, IndexAssumption DEF TypeInv, SpaceInv, Store
<1>2. At(q, "bind")' /\ db'.profile = None => Stored' \subseteq strays'
  BY <1>1, StraysOnly DEF SpaceAt, At
<1>3. store'[q].bound => db'.profile = store'[q].client.space
  BY <1>1 DEF SpaceAt
<1> QED BY <1>2, <1>3 DEF SpaceAt

\* A process is bound, or comes to bind, only as SpaceAt says.
LEMMA SpaceOfItself ==
  ASSUME TypeInv, SpaceInv, NEW p \in Procs, Step(p)
  PROVE  SpaceAt(p)'
<1>1. /\ store \in [Procs -> Store] /\ store[p] \in Store /\ SpaceAt(p)
      /\ db.profile # None => db'.profile = db.profile
  BY DbStep DEF TypeInv, SpaceInv
<1>2. store[p].client.space # None
  BY <1>1, IndexAssumption DEF Store
<1>3. CASE /\ store'[p].pc # "bind"
           /\ store'[p].bound => store[p].bound /\ store'[p].client = store[p].client
  BY <1>1, <1>2, <1>3 DEF SpaceAt, At
<1>4. ASSUME NEW pc, pc # "bind", Goto(p, pc) PROVE SpaceAt(p)'
  <2>1. /\ store'[p].pc = pc /\ store'[p].bound = store[p].bound
        /\ store'[p].client = store[p].client
    BY <1>1, <1>4 DEF Goto, Store
  <2> QED BY <1>3, <1>4, <2>1
<1>5. ASSUME store' = [store EXCEPT ![p] = Closed] PROVE SpaceAt(p)'
  BY <1>1, <1>3, <1>5 DEF Closed
<1>6. CASE Open(p)
  <2>1. PICK c \in Clients : store' = [store EXCEPT ![p] = Opening(c)]
    BY <1>6 DEF Open
  <2> QED BY <1>1, <1>3, <2>1 DEF Opening, Closed
<1>7. CASE BootstrapTables(p) \/ BootstrapVersion(p) \/ ColumnsAdded(p) \/ CreateEvents(p)
  BY <1>4, <1>7 DEF BootstrapTables, BootstrapVersion, ColumnsAdded, CreateEvents
<1>8. CASE Settle(p) \/ CountRecords(p)
  BY <1>4, <1>8 DEF Settle, CountRecords
<1>9. CASE SettleRefused(p) \/ Close(p)
  BY <1>5, <1>9 DEF SettleRefused, Close
<1>10. CASE ReadColumns(p)
  BY <1>1, <1>3, <1>10 DEF ReadColumns, Store
<1>11. CASE AddColumn(p)
  <2>1. PICK c \in store[p].missing :
          \/ Goto(p, "duplicate column")
          \/ store' = [store EXCEPT ![p].missing = @ \ {c}]
    BY <1>11 DEF AddColumn
  <2>2. CASE store' = [store EXCEPT ![p].missing = @ \ {c}]
    BY <1>1, <1>3, <1>11, <2>2 DEF AddColumn, At, Store
  <2> QED BY <1>4, <2>1, <2>2
<1>12. CASE ReadMetadata(p)
  <2>1. AfterOpening[store[p].client.kind] # "bind"
    BY <1>1, AfterOpeningTyped
  <2> QED BY <1>1, <1>3, <1>12, <2>1 DEF ReadMetadata, Store
<1>13. ASSUME Accepted(p), db'.profile = store[p].client.space PROVE SpaceAt(p)'
  <2>1. store'[p].pc = "open" /\ store'[p].client = store[p].client
    BY <1>1, <1>13 DEF Accepted, Store
  <2> QED BY <1>13, <2>1 DEF SpaceAt, At
<1>14. CASE Configure(p)
  <2>1. db' = db /\ Stored' = Stored /\ strays' = strays
    BY <1>14 DEF Configure, Stored
  <2>2. CASE db.profile = store[p].client.space /\ Accepted(p)
    BY <1>13, <2>1, <2>2
  <2>3. CASE Stored = {} /\ Goto(p, "bind")
    <3>1. /\ store'[p].pc = "bind" /\ store'[p].bound = store[p].bound
          /\ store'[p].client = store[p].client
      BY <1>1, <2>3 DEF Goto, Store
    <3> QED BY <1>1, <2>1, <2>3, <3>1 DEF SpaceAt, At
  <2> QED BY <1>5, <1>14, <2>2, <2>3 DEF Configure
<1>15. CASE Bind(p)
  <2>1. CASE db' = [db EXCEPT !.profile = store[p].client.space] /\ Accepted(p)
    BY <1>13, <2>1 DEF TypeInv, TypeOK
  <2> QED BY <1>5, <1>15, <2>1 DEF Bind
<1>16. CASE Add(p)
  BY <1>1, <1>3, <1>16 DEF Add, At
<1>17. CASE SearchRows(p) \/ SearchCount(p) \/ SearchReturns(p)
  BY <1>1, <1>3, <1>17 DEF SearchRows, SearchCount, SearchReturns, At, Store
<1>18. CASE SearchKNN(p)
  BY <1>1, <1>3, <1>18 DEF SearchKNN, At, Store
<1> QED
  BY <1>6, <1>7, <1>8, <1>9, <1>10, <1>11, <1>12, <1>14, <1>15, <1>16, <1>17, <1>18 DEF Step

\* A record that is no stray was added by a bound store, and a projection is
\* bound while all its records are strays.
LEMMA SpacesStep ==
  ASSUME TypeInv, SpaceInv, NEW p \in Procs, Step(p)
  PROVE  SpacesNeverMix'
<1>1. /\ SpaceAt(p) /\ SpacesNeverMix
  BY DEF SpaceInv
<1>2. CASE Add(p)
  BY <1>1, <1>2, AddStores DEF SpaceAt, SpacesNeverMix
<1>3. CASE ~Add(p) /\ db'.profile = db.profile
  BY <1>1, <1>3, OnlyAddStores DEF SpacesNeverMix
<1>4. CASE ~Add(p) /\ db'.profile # db.profile
  <2>1. Stored' = Stored /\ strays' = strays /\ Stored \subseteq strays
    BY <1>1, <1>4, OnlyAddStores, OnlyBindBinds DEF SpaceAt, Bind
  <2> QED BY <2>1 DEF SpacesNeverMix
<1> QED BY <1>2, <1>3, <1>4

\* Every step keeps a bound projection to one embedding space.
LEMMA SpaceStep ==
  ASSUME TypeInv, SpaceInv, NEW p \in Procs, Step(p)
  PROVE  SpaceInv'
<1>1. ASSUME NEW q \in Procs PROVE SpaceAt(q)'
  <2>1. CASE q = p
    BY <2>1, SpaceOfItself
  <2>2. CASE q # p
    BY <2>2, StoreStep, SpaceOfOthers
  <2> QED BY <2>1, <2>2
<1> QED BY <1>1, SpacesStep DEF SpaceInv

-----------------------------------------------------------------------------
\* Native searches.

\* The KNN of a search, counted: `near` leaves out as few of the rows as it is
\* short of them, and one more for each place it gives to what is not a row.
LEMMA NearestMisses ==
  ASSUME NEW S, IsFiniteSet(S), NEW rows \in SUBSET S, NEW near \in SUBSET S, NEW b \in Nat,
         Cardinality(rows) <= Cardinality(near) + b
  PROVE  Cardinality(rows \ near) <= Cardinality(S \ rows) + b
<1>1. IsFiniteSet(rows) /\ IsFiniteSet(near) /\ IsFiniteSet(S \ rows)
  BY FS_Subset
<1>2. /\ IsFiniteSet(rows \ near) /\ IsFiniteSet(near \ rows)
      /\ IsFiniteSet(rows \cap near) /\ near \cap rows = rows \cap near
  BY <1>1, FS_Subset
<1>3. Cardinality(rows \ near) = Cardinality(rows) - Cardinality(rows \cap near)
  BY <1>1, FS_Difference
<1>4. Cardinality(near \ rows) = Cardinality(near) - Cardinality(rows \cap near)
  BY <1>1, <1>2, FS_Difference
<1>5. Cardinality(near \ rows) <= Cardinality(S \ rows)
  BY <1>1, FS_Subset
<1>6. /\ Cardinality(rows) \in Nat /\ Cardinality(near) \in Nat /\ Cardinality(rows \cap near) \in Nat
      /\ Cardinality(S \ rows) \in Nat /\ Cardinality(near \ rows) \in Nat
      /\ Cardinality(rows \ near) \in Nat
  BY <1>1, <1>2, FS_CardinalityType
<1> QED BY <1>3, <1>4, <1>5, <1>6

\* The records and the index only grow, so what others miss they may miss still.
LEMMA SearchOfOthers ==
  ASSUME TypeInv, SearchInv, NEW p \in Procs, Step(p), NEW q \in Procs, store'[q] = store[q]
  PROVE  SearchAt(q)'
<1>1. /\ store[q] \in Store /\ SearchAt(q)
      /\ Stored \subseteq Stored' /\ Stored' \subseteq Ids /\ index \subseteq index'
  BY RecordStep DEF TypeInv, TypeOK, SearchInv
<1>2. IsFiniteSet(Ids)
  BY IndexAssumption
<1>3. store[q].behind \subseteq Ids /\ store[q].rows \subseteq Ids
  BY <1>1 DEF Store
<1>4. IsFiniteSet(Stored' \ store[q].rows) /\ IsFiniteSet(store[q].behind)
      /\ IsFiniteSet(store[q].rows \ store[q].found)
  BY <1>1, <1>2, <1>3, FS_Subset
<1>5. /\ Cardinality(Stored \ store[q].rows) <= Cardinality(Stored' \ store[q].rows)
      /\ IsFiniteSet(Stored \ store[q].rows)
  BY <1>1, <1>4, FS_Subset
<1>6. /\ Cardinality(Stored \ store[q].rows) \in Nat /\ Cardinality(Stored' \ store[q].rows) \in Nat
      /\ Cardinality(store[q].behind) \in Nat /\ Cardinality(store[q].rows \ store[q].found) \in Nat
  BY <1>4, <1>5, FS_CardinalityType
<1>7. At(q, "search")' => (store[q].rows \ index \subseteq store[q].behind)
  BY <1>1 DEF SearchAt, At
<1>8. At(q, "answer")' => Cardinality(store[q].rows \ store[q].found)
                          <= Cardinality(Stored' \ store[q].rows) + Cardinality(store[q].behind)
  BY <1>1, <1>5, <1>6 DEF SearchAt, At
<1>9. At(q, "knn")' => Cardinality(store[q].rows) <= store[q].count + Cardinality(store[q].behind)
  BY <1>1 DEF SearchAt, At
<1> QED BY <1>1, <1>7, <1>8, <1>9 DEF SearchAt, At

\* The three statements of a search.
LEMMA SearchOfItself ==
  ASSUME TypeInv, SearchInv, NEW p \in Procs, Step(p)
  PROVE  SearchAt(p)'
<1>1. store \in [Procs -> Store] /\ store[p] \in Store /\ SearchAt(p)
  BY DEF TypeInv, SearchInv
<1> DEFINE Searching == {"search", "knn", "answer"}
<1>2. CASE store'[p].pc \notin Searching
  BY <1>2 DEF SearchAt, At
<1>3. ASSUME NEW pc, pc \notin Searching, Goto(p, pc) PROVE SearchAt(p)'
  <2>1. store'[p].pc = pc
    BY <1>1, <1>3 DEF Goto, Store
  <2> QED BY <1>2, <1>3, <2>1
<1>4. ASSUME store' = [store EXCEPT ![p] = Closed] PROVE SearchAt(p)'
  BY <1>1, <1>2, <1>4 DEF Closed
<1>5. CASE Open(p)
  <2>1. PICK c \in Clients : store' = [store EXCEPT ![p] = Opening(c)]
    BY <1>5 DEF Open
  <2> QED BY <1>1, <1>2, <2>1 DEF Opening, Closed
<1>6. CASE BootstrapTables(p) \/ BootstrapVersion(p) \/ ColumnsAdded(p) \/ CreateEvents(p)
  BY <1>3, <1>6 DEF BootstrapTables, BootstrapVersion, ColumnsAdded, CreateEvents
<1>7. CASE Settle(p) \/ CountRecords(p)
  BY <1>3, <1>7 DEF Settle, CountRecords
<1>8. CASE SettleRefused(p) \/ Close(p)
  BY <1>4, <1>8 DEF SettleRefused, Close
<1>9. CASE ReadColumns(p)
  BY <1>1, <1>2, <1>9 DEF ReadColumns, Store
<1>10. CASE AddColumn(p)
  <2>1. PICK c \in store[p].missing :
          \/ Goto(p, "duplicate column")
          \/ store' = [store EXCEPT ![p].missing = @ \ {c}]
    BY <1>10 DEF AddColumn
  <2>2. CASE store' = [store EXCEPT ![p].missing = @ \ {c}]
    BY <1>1, <1>2, <1>10, <2>2 DEF AddColumn, At, Store
  <2> QED BY <1>3, <2>1, <2>2
<1>11. CASE ReadMetadata(p)
  BY <1>1, <1>2, <1>11, AfterOpeningTyped DEF ReadMetadata, Store
<1>12. CASE Configure(p) \/ Bind(p)
  <2>1. \/ Goto(p, "bind") \/ Accepted(p)
        \/ store' = [store EXCEPT ![p] = Closed]
    BY <1>12 DEF Configure, Bind
  <2>2. ASSUME Accepted(p) PROVE SearchAt(p)'
    BY <1>1, <1>2, <2>2 DEF Accepted, Store
  <2> QED BY <1>3, <1>4, <2>1, <2>2
<1>13. CASE Add(p)
  BY <1>2, <1>13 DEF Add, At
<1>14. CASE SearchRows(p)
  <2>1. /\ store'[p].pc = "search" /\ store'[p].rows = Stored
        /\ store'[p].behind = Stored \ index /\ index' = index
    BY <1>1, <1>14 DEF SearchRows, Store
  <2> QED BY <2>1 DEF SearchAt, At
<1>15. CASE SearchCount(p)
  <2>1. /\ store'[p].pc = "knn" /\ store'[p].count = Cardinality(index)
        /\ store'[p].rows = store[p].rows /\ store'[p].behind = store[p].behind
    BY <1>1, <1>15 DEF SearchCount, Store
  <2>2. store[p].rows \ index \subseteq store[p].behind
    BY <1>1, <1>15 DEF SearchCount, SearchAt
  <2>3. /\ IsFiniteSet(store[p].rows) /\ IsFiniteSet(store[p].behind) /\ IsFiniteSet(index)
    BY <1>1, StoredFinite, FS_Subset, IndexAssumption DEF Store
  <2>4. Cardinality(store[p].rows) <= Cardinality(index \cup store[p].behind)
    BY <2>2, <2>3, FS_Subset, FS_Union
  <2>5. Cardinality(index \cup store[p].behind)
          = Cardinality(index) + Cardinality(store[p].behind) - Cardinality(index \cap store[p].behind)
    BY <2>3, FS_Union
  <2>6. /\ Cardinality(index \cap store[p].behind) \in Nat /\ Cardinality(store[p].rows) \in Nat
        /\ Cardinality(index) \in Nat /\ Cardinality(store[p].behind) \in Nat
    BY <2>3, FS_Subset, FS_CardinalityType, FS_Intersection
  <2>7. Cardinality(store[p].rows) <= Cardinality(index) + Cardinality(store[p].behind)
    BY <2>4, <2>5, <2>6
  <2> QED BY <2>1, <2>7 DEF SearchAt, At
<1>16. CASE SearchKNN(p)
  <2>1. PICK near \in SUBSET index :
          /\ Cardinality(near) = store[p].count
          /\ store' = [store EXCEPT ![p].pc = "answer", ![p].found = store[p].rows \cap near]
    BY <1>16 DEF SearchKNN
  <2>2. /\ store'[p].pc = "answer" /\ store'[p].rows = store[p].rows
        /\ store'[p].behind = store[p].behind /\ store'[p].found = store[p].rows \cap near
        /\ Stored' = Stored
    BY <1>1, <1>16, <2>1 DEF Store, SearchKNN, Stored
  <2>3. /\ store[p].rows \subseteq Stored /\ near \subseteq Stored /\ IsFiniteSet(Stored)
        /\ Cardinality(store[p].behind) \in Nat
    <3>1. IsFiniteSet(store[p].behind)
      BY <1>1, FS_Subset, IndexAssumption DEF Store
    <3> QED BY <3>1, StoredFinite, FS_CardinalityType DEF TypeInv, TypeOK
  <2>4. Cardinality(store[p].rows) <= Cardinality(near) + Cardinality(store[p].behind)
    BY <1>1, <1>16, <2>1 DEF SearchKNN, SearchAt
  <2>5. Cardinality(store[p].rows \ near)
          <= Cardinality(Stored \ store[p].rows) + Cardinality(store[p].behind)
    BY <2>3, <2>4, NearestMisses
  <2>6. store[p].rows \ (store[p].rows \cap near) = store[p].rows \ near
    OBVIOUS
  <2> QED BY <2>2, <2>5, <2>6 DEF SearchAt, At
<1>17. CASE SearchReturns(p)
  BY <1>1, <1>2, <1>17 DEF SearchReturns, Store
<1> QED
  BY <1>5, <1>6, <1>7, <1>8, <1>9, <1>10, <1>11, <1>12, <1>13, <1>14, <1>15, <1>16, <1>17 DEF Step

\* Every step keeps what a search may miss within its bound.
LEMMA SearchStep ==
  ASSUME TypeInv, SearchInv, NEW p \in Procs, Step(p)
  PROVE  SearchInv'
<1>1. ASSUME NEW q \in Procs PROVE SearchAt(q)'
  <2>1. CASE q = p
    BY <2>1, SearchOfItself
  <2>2. CASE q # p
    BY <2>2, StoreStep, SearchOfOthers
  <2> QED BY <2>1, <2>2
<1> QED BY <1>1 DEF SearchInv

-----------------------------------------------------------------------------
\* The inductive invariant.

\* What the invariant needs of a database nobody has open.
LEMMA InitialIsGood ==
  ASSUME \A p \in Procs : store[p] = Closed /\ store[p].pc = "closed",
         store = [p \in Procs |-> Closed],
         index = {}, late = {}, solo = {}, strays = {},
         Stored \subseteq Ids, \A id \in Stored : records[id] = Legacy,
         db \in [version: {0, 2, 3}, table: BOOLEAN, columns: SUBSET Columns, events: BOOLEAN,
                 dimensions: {c.dimensions : c \in Clients} \cup {None},
                 profile: Spaces \cup {None}, vec: BOOLEAN],
         db.version = 0 \/ (db.version = 2 /\ db.table), db.profile = None, ~db.vec
  PROVE  Inv
<1>1. TypeInv
  <2>1. \A p \in Procs : /\ store[p].rows = {} /\ store[p].found = {}
                         /\ store[p].missing = {} /\ store[p].client \in Clients
    <3>1. (CHOOSE c \in Clients : TRUE) \in Clients
      BY IndexAssumption
    <3> QED BY <3>1 DEF Closed
  <2>2. store \in [Procs -> Store]
    BY ClosedTyped
  <2> QED BY <2>1, <2>2 DEF TypeInv, TypeOK
<1>2. SchemaInv
  <2>1. \A p \in Procs : SchemaAt(p)
    BY DEF SchemaAt, Migrating, Initialized, Serving
  <2>2. (db.version \in {2, 3} => db.table) /\ db.version # 3
    OBVIOUS
  <2> QED BY <2>1, <2>2 DEF SchemaInv
<1>3. IndexIsComplete
  BY DEF IndexIsComplete
<1>4. SpaceInv
  <2>1. \A p \in Procs : SpaceAt(p)
    BY DEF SpaceAt, At, Closed
  <2> QED BY <2>1 DEF SpaceInv, SpacesNeverMix
<1>5. SearchInv
  BY DEF SearchInv, SearchAt, At
<1> QED BY <1>1, <1>2, <1>3, <1>4, <1>5 DEF Inv

\* An empty database satisfies the invariant.
LEMMA Initially == Init => Inv
<1> SUFFICES ASSUME Init PROVE Inv
  OBVIOUS
<1>1. /\ store = [p \in Procs |-> Closed] /\ index = {} /\ late = {} /\ solo = {} /\ strays = {}
      /\ \/ db = Fresh /\ records = <<>>
         \/ \E id \in Ids, c \in Clients :
              /\ db = [Fresh EXCEPT !.version = 2, !.table = TRUE, !.dimensions = c.dimensions]
              /\ records = [i \in {id} |-> Legacy]
  BY DEF Init
<1>2. \A p \in Procs : store[p] = Closed /\ store[p].pc = "closed"
  BY <1>1 DEF Closed
<1> DEFINE Db == [version: {0, 2, 3}, table: BOOLEAN, columns: SUBSET Columns, events: BOOLEAN,
                  dimensions: {c.dimensions : c \in Clients} \cup {None},
                  profile: Spaces \cup {None}, vec: BOOLEAN]
<1> DEFINE Good == /\ Stored \subseteq Ids /\ (\A id \in Stored : records[id] = Legacy)
                   /\ db \in Db
                   /\ db.version = 0 \/ (db.version = 2 /\ db.table)
                   /\ db.profile = None /\ ~db.vec
<1>3. ASSUME db = Fresh, records = <<>> PROVE Good
  <2>1. Stored = {}
    BY <1>3 DEF Stored
  <2>2. db \in Db
    BY <1>3 DEF Fresh
  <2>3. db.version = 0 /\ db.profile = None /\ ~db.vec
    BY <1>3 DEF Fresh
  <2> HIDE DEF Db
  <2> QED BY <2>1, <2>2, <2>3
<1>4. ASSUME NEW id \in Ids, NEW c \in Clients,
             db = [Fresh EXCEPT !.version = 2, !.table = TRUE, !.dimensions = c.dimensions],
             records = [i \in {id} |-> Legacy]
      PROVE  Good
  <2>1. Stored \subseteq Ids /\ (\A i \in Stored : records[i] = Legacy)
    BY <1>4 DEF Stored
  <2>2. db = [version |-> 2, table |-> TRUE, columns |-> {}, events |-> FALSE,
              dimensions |-> c.dimensions, profile |-> None, vec |-> FALSE]
    BY <1>4 DEF Fresh
  <2>3. db \in Db
    BY <2>2
  <2>4. db.version = 2 /\ db.table /\ db.profile = None /\ ~db.vec
    BY <2>2
  <2> HIDE DEF Db
  <2> QED BY <2>1, <2>3, <2>4
<1>5. Good
  <2> HIDE DEF Good
  <2> QED BY <1>1, <1>3, <1>4
<1> QED BY <1>1, <1>2, <1>5, InitialIsGood

\* Every step keeps the invariant.
LEMMA Inductive == Inv /\ [Next]_vars => Inv'
<1>1. ASSUME Inv, Next PROVE Inv'
  BY <1>1, TypeStep, SchemaStep, IndexStep, SpaceStep, SearchStep DEF Inv, Next
<1>2. ASSUME Inv, UNCHANGED vars PROVE Inv'
  BY <1>2
  DEF vars, Inv, TypeInv, TypeOK, SchemaInv, SchemaAt, AloneAt, Complete, IndexIsComplete, SpaceInv,
      SpacesNeverMix, SpaceAt, SearchInv, SearchAt, At, Stored
<1> QED BY <1>1, <1>2

\* The inductive invariant holds in every reachable state.
LEMMA Invariant == Spec => []Inv
BY Initially, Inductive, PTL DEF Spec

-----------------------------------------------------------------------------
\* The theorems.

\* The database, the records, the index and what each process is doing are
\* typed; the index and the history of it hold records only.
THEOREM TypeCorrect == Spec => []TypeOK
<1>1. Inv => TypeOK
  BY DEF Inv, TypeInv
<1> QED BY <1>1, Invariant, PTL

\* Version 3 and an initialized store stand for the whole schema, and a
\* migration nobody disturbs never meets a column twice, however many processes
\* open the database and wherever they die.
THEOREM MigrationsFinish == Spec => []MigrationsComplete
<1>1. Inv => MigrationsComplete
  BY DEF Inv, SchemaInv, SchemaAt, AloneAt, MigrationsComplete, Initialized, Serving, At
<1> QED BY <1>1, Invariant, PTL

\* The native index lacks exactly what stores without it added since.
THEOREM IndexCatchesUp == Spec => []IndexIsComplete
<1>1. Inv => IndexIsComplete
  BY DEF Inv
<1> QED BY <1>1, Invariant, PTL

\* The KNN of a native search leaves out no more of its rows than the records
\* added since it read them, and those the index lacked.
THEOREM SearchMissesFew == Spec => []SearchMissesOnlyForNewer
<1>1. ASSUME Inv, NEW p \in Procs, At(p, "answer")
      PROVE  Cardinality(store[p].rows \ store[p].found)
               <= Cardinality(Stored \ store[p].rows) + Cardinality(store[p].behind \cup late)
  <2>1. Cardinality(store[p].rows \ store[p].found)
          <= Cardinality(Stored \ store[p].rows) + Cardinality(store[p].behind)
    BY <1>1 DEF Inv, SearchInv, SearchAt
  <2>2. store[p] \in Store /\ TypeInv /\ late \subseteq Stored
    BY <1>1 DEF Inv, TypeInv, TypeOK
  <2>3. store[p].behind \subseteq Ids /\ store[p].rows \subseteq Ids
    BY <2>2 DEF Store
  <2>4. /\ IsFiniteSet(store[p].behind) /\ IsFiniteSet(late) /\ IsFiniteSet(Stored)
        /\ IsFiniteSet(store[p].rows)
    BY <2>2, <2>3, StoredFinite, IndexAssumption, FS_Subset
  <2>5. /\ IsFiniteSet(store[p].behind \cup late) /\ IsFiniteSet(Stored \ store[p].rows)
        /\ IsFiniteSet(store[p].rows \ store[p].found)
    BY <2>4, FS_Union, FS_Subset
  <2>6. Cardinality(store[p].behind) <= Cardinality(store[p].behind \cup late)
    BY <2>5, FS_Subset
  <2>7. /\ Cardinality(store[p].behind) \in Nat /\ Cardinality(store[p].behind \cup late) \in Nat
        /\ Cardinality(Stored \ store[p].rows) \in Nat
        /\ Cardinality(store[p].rows \ store[p].found) \in Nat
    BY <2>4, <2>5, FS_CardinalityType
  <2> QED BY <2>1, <2>6, <2>7
<1>2. Inv => SearchMissesOnlyForNewer
  BY <1>1 DEF SearchMissesOnlyForNewer
<1> QED BY <1>2, Invariant, PTL

\* A bound projection holds the vectors of one embedding space, besides what
\* stores that were never bound added, however many processes bind and fill it.
THEOREM SpacesStayApart == Spec => []SpacesNeverMix
<1>1. Inv => SpacesNeverMix
  BY DEF Inv, SpaceInv
<1> QED BY <1>1, Invariant, PTL
=============================================================================
