----------------------------- MODULE MemoryIndex -----------------------------
(***************************************************************************)
(* Opening the memory projection: migrations.py, the vector index          *)
(* (vector_index.py), SQLiteVectorMemory._initialize, add,                 *)
(* configure_embedding and the KNN of search (memory.py), and how the      *)
(* command line binds a database to an embedding space.                    *)
(*                                                                         *)
(* Processes share one database.  sqlite3 commits each DDL statement at    *)
(* once unless a transaction is open, opens one at the first INSERT, and   *)
(* executescript() commits it.  What runs between such a BEGIN and its     *)
(* COMMIT holds the write lock and is one action here; every other         *)
(* statement is one of its own, and a process may die between any two.     *)
(***************************************************************************)
EXTENDS Integers, FiniteSets

CONSTANTS
  Procs,     \* processes
  Clients,   \* how a store can be opened: backend, dimensions, embedding space, kind of caller
  Columns,   \* the columns version 3 adds
  Ids,       \* memory ids
  Legacy,    \* the embedding space of records older than profiles
  None       \* no profile, no dimensions

ASSUME IndexAssumption ==
  /\ Clients # {}
  /\ \A c \in Clients : /\ c.backend \in {"exact", "sqlite-vec"}
                        /\ c.kind \in {"semantic", "manual", "library"}
                        /\ c.dimensions # None /\ c.space \notin {None, Legacy}
  /\ IsFiniteSet(Ids)

VARIABLES
  db,        \* schema and metadata, as committed
  records,   \* memory_records: the embedding space of each id
  index,     \* memory_vec
  store,     \* what each process is doing
  late,      \* history: records added past the index since it was last completed
  solo,      \* history: openings during which no other process touched the schema
  strays     \* history: records added by stores that were never bound

vars == <<db, records, index, store, late, solo, strays>>

Closed == [pc |-> "closed", client |-> CHOOSE c \in Clients : TRUE, migrating |-> FALSE,
           missing |-> {}, profile |-> None, bound |-> FALSE,
           rows |-> {}, behind |-> {}, count |-> 0, found |-> {}]

Fresh == [version |-> 0, table |-> FALSE, columns |-> {}, events |-> FALSE,
          dimensions |-> None, profile |-> None, vec |-> FALSE]

(* No database, or one of version 2 with a record. *)
Init ==
  /\ \/ db = Fresh /\ records = <<>>
     \/ \E id \in Ids, c \in Clients :
          /\ db = [Fresh EXCEPT !.version = 2, !.table = TRUE, !.dimensions = c.dimensions]
          /\ records = [i \in {id} |-> Legacy]
  /\ index = {}
  /\ store = [p \in Procs |-> Closed]
  /\ late = {} /\ solo = {} /\ strays = {}

Stored == DOMAIN records
Goto(p, pc) == store' = [store EXCEPT ![p].pc = pc]
At(p, pc) == store[p].pc = pc

(* A process that changed the schema is in the way of every other opening. *)
Touched(p) == solo' = solo \cap {p}

-----------------------------------------------------------------------------
(* migrate() *)

(* migrate() has steps to take below version 3. *)
Opening(c) ==
  [Closed EXCEPT !.client = c, !.migrating = db.version # 3,
                 !.pc = IF db.version = 0 THEN "bootstrap" ELSE IF db.version = 2 THEN "columns" ELSE "settle"]

Open(p) ==
  /\ At(p, "closed")
  /\ \E c \in Clients : store' = [store EXCEPT ![p] = Opening(c)]
  /\ solo' = solo \cup {p}
  /\ UNCHANGED <<db, records, index, late, strays>>

(* The tables of version 2, each created unless it exists. *)
BootstrapTables(p) ==
  /\ At(p, "bootstrap")
  /\ db' = [db EXCEPT !.table = TRUE]
  /\ Goto(p, "bootstrapped") /\ Touched(p)
  /\ UNCHANGED <<records, index, late, strays>>

(* Writing version 2 opens a transaction, which the missing columns join, and
   which the script of _migrate_v3 commits. *)
BootstrapVersion(p) ==
  /\ At(p, "bootstrapped")
  /\ db' = [db EXCEPT !.version = 2, !.columns = Columns]
  /\ Goto(p, "events") /\ Touched(p)
  /\ UNCHANGED <<records, index, late, strays>>

(* Coming from version 2 no transaction is open: each column is added, and
   committed, by itself. *)
ReadColumns(p) ==
  /\ At(p, "columns")
  /\ store' = [store EXCEPT ![p].pc = "alter", ![p].missing = Columns \ db.columns]
  /\ UNCHANGED <<db, records, index, late, solo, strays>>

AddColumn(p) ==
  /\ At(p, "alter")
  /\ \E c \in store[p].missing :
       IF c \in db.columns
         THEN Goto(p, "duplicate column") /\ UNCHANGED <<db, solo>>
         ELSE /\ db' = [db EXCEPT !.columns = @ \cup {c}]
              /\ store' = [store EXCEPT ![p].missing = @ \ {c}]
              /\ Touched(p)
  /\ UNCHANGED <<records, index, late, strays>>

ColumnsAdded(p) ==
  /\ At(p, "alter") /\ store[p].missing = {}
  /\ Goto(p, "events")
  /\ UNCHANGED <<db, records, index, late, solo, strays>>

CreateEvents(p) ==
  /\ At(p, "events")
  /\ db' = [db EXCEPT !.events = TRUE]
  /\ Goto(p, "settle") /\ Touched(p)
  /\ UNCHANGED <<records, index, late, strays>>

-----------------------------------------------------------------------------
(* The rest of _initialize: one transaction from its first INSERT on. *)

(* MUTANT of Backfill: only a new index table is filled. *)
BackfillNewTable(c) ==
  IF c.backend = "sqlite-vec" /\ ~db.vec THEN index' = Stored ELSE UNCHANGED index

(* The records that are not in the index are added to it. *)
Backfill(c) ==
  IF c.backend = "sqlite-vec" THEN index' = index \cup Stored ELSE UNCHANGED index

Completed(c) == late' = IF c.backend = "sqlite-vec" THEN {} ELSE late

(* MUTANT of Settle: the version is written before the columns are there. *)
SettleUnmigrated(p) ==
  LET c == store[p].client IN
  /\ \/ At(p, "settle")
     \/ At(p, "columns")
  /\ db.dimensions \in {None, c.dimensions}
  /\ db' = [db EXCEPT !.version = IF store[p].migrating THEN 3 ELSE @,
                      !.dimensions = c.dimensions, !.vec = @ \/ c.backend = "sqlite-vec"]
  /\ Backfill(c) /\ Completed(c)
  /\ Goto(p, "initialized") /\ Touched(p)
  /\ UNCHANGED <<records, strays>>

(* Version 3, the dimensions, the index and its backfill are committed
   together. *)
Settle(p) ==
  LET c == store[p].client IN
  /\ At(p, "settle")
  /\ db.dimensions \in {None, c.dimensions}
  /\ db' = [db EXCEPT !.version = IF store[p].migrating THEN 3 ELSE @,
                      !.dimensions = c.dimensions, !.vec = @ \/ c.backend = "sqlite-vec"]
  /\ Backfill(c) /\ Completed(c)
  /\ Goto(p, "initialized") /\ Touched(p)
  /\ UNCHANGED <<records, strays>>

(* Other dimensions roll all of it back. *)
SettleRefused(p) ==
  /\ At(p, "settle")
  /\ db.dimensions \notin {None, store[p].client.dimensions}
  /\ store' = [store EXCEPT ![p] = Closed]
  /\ UNCHANGED <<db, records, index, late, solo, strays>>

-----------------------------------------------------------------------------
(* The embedding profile: SemanticRuntime.connect binds, the command line with
   vectors given by hand binds unless the projection is an unprofiled one, and
   a library may use a store that it never binds. *)

AfterOpening == [semantic |-> "configure", manual |-> "metadata", library |-> "open"]

ReadMetadata(p) ==
  /\ At(p, "initialized")
  /\ store' = [store EXCEPT ![p].pc = AfterOpening[store[p].client.kind], ![p].profile = db.profile]
  /\ UNCHANGED <<db, records, index, late, solo, strays>>

CountRecords(p) ==
  /\ At(p, "metadata")
  /\ Goto(p, IF Stored = {} \/ store[p].profile # None THEN "configure" ELSE "open")
  /\ UNCHANGED <<db, records, index, late, solo, strays>>

Accepted(p) == store' = [store EXCEPT ![p].pc = "open", ![p].bound = TRUE]

(* configure_embedding() up to its first INSERT. *)
Configure(p) ==
  /\ At(p, "configure")
  /\ IF db.profile = store[p].client.space THEN Accepted(p)
     ELSE IF db.profile = None /\ Stored = {} THEN Goto(p, "bind")
     ELSE store' = [store EXCEPT ![p] = Closed]
  /\ UNCHANGED <<db, records, index, late, solo, strays>>

(* MUTANT of Bind: the profile is replaced. *)
BindReplaces(p) ==
  /\ At(p, "bind")
  /\ db' = [db EXCEPT !.profile = store[p].client.space] /\ Accepted(p)
  /\ UNCHANGED <<records, index, late, solo, strays>>

(* The key is unique: where another process was faster the INSERT fails. *)
Bind(p) ==
  /\ At(p, "bind")
  /\ IF db.profile = None
       THEN db' = [db EXCEPT !.profile = store[p].client.space] /\ Accepted(p)
       ELSE store' = [store EXCEPT ![p] = Closed] /\ UNCHANGED db
  /\ UNCHANGED <<records, index, late, solo, strays>>

-----------------------------------------------------------------------------
(* An open store. *)

(* One transaction; under another id's content it raises, under the same it
   does nothing. *)
Add(p) ==
  LET c == store[p].client IN
  /\ At(p, "open")
  /\ \E id \in Ids \ Stored :
       /\ records' = [i \in Stored \cup {id} |-> IF i = id THEN c.space ELSE records[i]]
       /\ IF c.backend = "sqlite-vec"
            THEN index' = index \cup {id} /\ UNCHANGED late
            ELSE late' = late \cup {id} /\ UNCHANGED index
       /\ strays' = IF store[p].bound THEN strays ELSE strays \cup {id}
  /\ UNCHANGED <<db, store, solo>>

(* search() with the native index: the rows, then the size of the index, then
   as many neighbours, each by a statement of its own. *)
SearchRows(p) ==
  /\ At(p, "open") /\ store[p].client.backend = "sqlite-vec"
  /\ store' = [store EXCEPT ![p].pc = "search", ![p].rows = Stored,
                            ![p].behind = Stored \ index]
  /\ UNCHANGED <<db, records, index, late, solo, strays>>

(* MUTANT of SearchCount: the KNN is asked for fewer than it may need. *)
SearchCountRowsBut(p) ==
  /\ At(p, "search")
  /\ store' = [store EXCEPT ![p].pc = "knn", ![p].count = Cardinality(index) - 1]
  /\ UNCHANGED <<db, records, index, late, solo, strays>>

SearchCount(p) ==
  /\ At(p, "search")
  /\ store' = [store EXCEPT ![p].pc = "knn", ![p].count = Cardinality(index)]
  /\ UNCHANGED <<db, records, index, late, solo, strays>>

(* MUTANT of SearchKNN: neighbours that are not among the rows are answered. *)
SearchKNNUnfiltered(p) ==
  /\ At(p, "knn")
  /\ \E nearest \in SUBSET index :
       /\ Cardinality(nearest) = store[p].count
       /\ store' = [store EXCEPT ![p].pc = "answer", ![p].found = nearest]
  /\ UNCHANGED <<db, records, index, late, solo, strays>>

(* Rows the index does not return are skipped. *)
SearchKNN(p) ==
  /\ At(p, "knn")
  /\ \E nearest \in SUBSET index :
       /\ Cardinality(nearest) = store[p].count
       /\ store' = [store EXCEPT ![p].pc = "answer", ![p].found = store[p].rows \cap nearest]
  /\ UNCHANGED <<db, records, index, late, solo, strays>>

SearchReturns(p) ==
  /\ At(p, "answer")
  /\ store' = [store EXCEPT ![p].pc = "open", ![p].rows = {}, ![p].behind = {}, ![p].count = 0, ![p].found = {}]
  /\ UNCHANGED <<db, records, index, late, solo, strays>>

(* The process ends, dies, or fails; its open transaction is rolled back. *)
Close(p) ==
  /\ ~At(p, "closed")
  /\ store' = [store EXCEPT ![p] = Closed]
  /\ UNCHANGED <<db, records, index, late, solo, strays>>

Step(p) ==
  \/ Open(p) \/ BootstrapTables(p) \/ BootstrapVersion(p) \/ ReadColumns(p) \/ AddColumn(p)
  \/ ColumnsAdded(p) \/ CreateEvents(p) \/ Settle(p) \/ SettleRefused(p)
  \/ ReadMetadata(p) \/ CountRecords(p) \/ Configure(p) \/ Bind(p)
  \/ Add(p) \/ SearchRows(p) \/ SearchCount(p) \/ SearchKNN(p) \/ SearchReturns(p) \/ Close(p)

Next == \E p \in Procs : Step(p)

Spec == Init /\ [][Next]_vars

-----------------------------------------------------------------------------
(* Properties. *)

Spaces == {c.space : c \in Clients}

TypeOK ==
  /\ db \in [version: {0, 2, 3}, table: BOOLEAN, columns: SUBSET Columns, events: BOOLEAN,
             dimensions: {c.dimensions : c \in Clients} \cup {None},
             profile: Spaces \cup {None}, vec: BOOLEAN]
  /\ Stored \subseteq Ids
  /\ \A id \in Stored : records[id] \in Spaces \cup {Legacy}
  /\ index \subseteq Stored /\ late \subseteq Stored
  /\ \A p \in Procs : /\ store[p].client \in Clients
                      /\ store[p].missing \subseteq Columns
                      /\ store[p].rows \subseteq Stored
                      /\ store[p].found \subseteq store[p].rows
  /\ solo \subseteq Procs
  /\ strays \subseteq Stored

Complete == db.table /\ db.columns = Columns /\ db.events /\ db.dimensions # None

(* The version tells the truth although its statements commit one by one: a
   database of version 3 has the whole schema, and so has every database a
   process has open, also when another, slower opener writes version 2 again.
   And a migration that was cut short can be taken up again: whatever an earlier
   process left behind, an opening that no other process disturbs never fails on
   what is already there. *)
MigrationsComplete ==
  /\ db.version = 3 => Complete
  /\ \A p \in Procs : store[p].pc \in {"initialized", "metadata", "configure", "bind", "open",
                                       "search", "knn", "answer"} => Complete
  /\ \A p \in solo : ~At(p, "duplicate column")

(* The index lags behind the records by exactly those that stores without it
   added since a store with it was last opened. *)
IndexIsComplete ==
  db.vec => Stored \ index = late

(* A native search misses no more of its rows than were added after it read
   them, besides those the index lacked then (`behind`, history) or lacks now. *)
SearchMissesOnlyForNewer ==
  \A p \in Procs : At(p, "answer") =>
    Cardinality(store[p].rows \ store[p].found)
      <= Cardinality(Stored \ store[p].rows) + Cardinality(store[p].behind \cup late)

(* A bound projection holds vectors of one embedding space, however the
   processes that bind and fill it are interleaved; besides what stores added
   that configure_embedding() never accepted: a library's, and a manual client's
   that took the projection for an unprofiled one. *)
SpacesNeverMix ==
  db.profile # None => \A id \in Stored \ strays : records[id] = db.profile

=============================================================================
