# SpecJam in TLA+

A verification development of SpecJam (the Python package under `src/src/specjam/`):
TLA+ modules translated from its code, TLC configurations that check them on
small instances, and theorems that the TLA+ proof system checks for every value
of the constants. Paths below are relative to `src/src/specjam/`, other paths to
`src/`.

SpecJam plans the increments of a flow as execution sessions of coding agents,
runs them on a local command or a remote service, evaluates what they did,
keeps what was learned in a SQLite "memory projection", and recalls it for later
increments. It is a library and a command line: no server, no threads of its
own. What makes it hard is around it: the executions it starts run concurrently,
several processes share one database and one workspace, every external call can
fail half-way, and the history is spread over two stores (a JSONL trail and the
database) that are written one after the other.

## The components

| Component | State | Operations | Interacts with | Hard part | Correct when |
|---|---|---|---|---|---|
| Session manager (`sessions.py`) | records in memory, event trail on disk | plan, start, transition, cancel, wait | harnesses, trail sink | executions end at any time; harness and sink calls fail before or after taking effect | the trail tells the history; ids are never reused; a record points at its own execution; wait returns |
| Harnesses (`execution.py`) | processes / remote sessions, outcomes | start, status, cancel, result, execute_and_wait | operating system, HTTP | replies lost after the effect; a deadline racing an end | a reported outcome is one that happened; every wait ends |
| Meta runtime (`meta_runtime.py`) | none of its own | plan_, execute_, complete_increment | session manager, memory, learning, skills, planner | multi-store calls that raise half-way | trail, feedback and memory agree |
| Learning loop (`learning.py`) | none | learn | memory | raises after some candidates are stored | only reflections of accepted evaluations that pass the policy get in |
| Memory projection (`memory.py`) | memory_records, retrieval_events, meta, FTS | add, search, feedback, update_state, configure_embedding | vector index, migrations, other processes | reads precede the transaction that depends on them | usage equals feedback; states follow the lifecycle |
| Migrations (`migrations.py`) | schema, schema_version | migrate on opening | database | statement-wise commits, concurrent opening | any opened database has the current schema, and an interrupted upgrade can be taken up |
| Vector index (`vector_index.py`) | memory_vec table | initialize (backfill), add, scores | database | stores without the index add past it; KNN sized by an earlier statement | the index lags by exactly those records; a search misses only newer ones |
| Flow graphs (`model.py`, `graph_engine.py`) | run trail on disk | validate, route, record_route | runtime, command line | order of edges, gates, repeated calls, cut lines | every stage of a valid graph can be routed to; a run is where its trail earned it to be |
| Skills (`skills.py`) | lockfile, git caches | resolve, remove, verify | providers, git | whole-file saves by several processes; moving sources; snapshots cut short | what is locked is genuine, what is handed out is locked, pins move by updates |
| Installer (`installer.py`) | workspace files, lock | install, verify, update, scaffold | package payload, the user's edits | two hashes per file against releases and edits | the lock is true; updates converge; edits survive |
| Benchmark (`benchmark.py`) | trajectory file | append, replay, compare | harnesses, evaluator | retried and torn appends, averages over matched cases | the file keeps what was appended, once; an improvement stands on every case |
| Planner (`harness.py`, `classification.py`) | none | classify, route_memory, compose | runtime | budgets at their limits | memory in proportion to the level |
| Evolution (`evolution.py`) | candidate files | propose, load, evaluate | metrics | many rounds, hand-written files, rollback | what is in force descends from the composed harness and lost nothing on the way |
| Diagnosis, retrieval budget, calibration, RWS, reviewers, semantic | none | pure functions | runtime, command line | none here | not modelled |
| Embeddings, sanitization, archive, command line | none | I/O | all | none here | not modelled |

`PROJECT.json` lists each with what is modelled of it, and under `hazards` every
place of the code that is hard to test, with the properties that watch it.

## The modules

- `SessionLifecycle`: the abstract promise to readers of the trail. A session is
  open, judging, settled, closed or abandoned, and moves between these only as
  the documentation's lifecycle says (README.md:208-216). It knows no harness.
- `SessionManager`: `sessions.py` in full with the part of `execution.py` it
  calls. `records` is `_records`, `trail` the lines of `SessionTrailStore`,
  `execution`/`owner` the processes and remote sessions outside, `waiting` and
  `expired` the loop of `wait()` and its deadline, `result` what the last call
  returned or raised. One action per call (`Plan`, `StartRefused`/`StartLaunched`/
  `StartRaised`, `Transition`, `Cancel...`) and one per way an iteration of
  `wait()` can go (`WaitSeesEnd`, `WaitRaised`, `DeadlinePasses`, `WaitTimesOut`,
  `WaitCancelRaised`). A harness call may raise before or after its effect: a cancel
  that raises leaves a local process with its signal (`StatesAfterFailedCancel`: it
  goes on as "stopping"), and the report fetched after a cancel may raise with the
  record already cancelled.
  A call is atomic except for `wait()`: between its polls `ExecutionEnds` happens.
  Names are sequences of `:`-separated segments, so that the f-string that builds
  a session id is concatenation.
- `MemoryProjection`: `memory.py` as several processes use one database. Python's
  sqlite3 opens a transaction at the first INSERT or UPDATE, so an operation that
  SELECTs first is two actions (`SearchRead`/`SearchTrace`, `FeedbackRead`/
  `FeedbackWrite`, `StateRead`/`StateWrite`) with `pending` holding what was read;
  `Add`, which starts with its INSERT, is one. `Abandon` is a process that dies
  in between. A search asks for some states (`Queries`; none of them means any
  state) and may select any rows that are in one of them: embedding, lexical and
  recency scores, which rank them, are not modelled. Outcomes are counted in halves (the
  runtime reports 0, 0.5 and 1) and `score` is their sum, so the thresholds 0.8
  and 0.2 on the running mean become exact comparisons of integers.
- `MetaRuntime`: `meta_runtime.py` with `learning.py`, over an `INSTANCE` of
  `SessionManager` that shares its variables. `call` is the program counter of
  the call in progress; every call it makes to the session manager is that
  module's own action, so a guard or failure there is a guard or failure here.
  `memory` and `feedback` are what it wrote to the projection, `report` is what
  `execute_increment()` last returned, until the runtime's next call. `Operate` is the
  operator using the session manager between calls. The runtime is modelled with
  a learning loop configured (without one, `complete_increment` refuses accepted
  evaluations and the rest is the same), and reflections given in one call are
  distinct.
- `Installer`: `installer.py` over one workspace. A file is its content, and a
  content is its own hash. `disk`, `bridge` and `lock` are the managed files,
  `AGENTS.md` and `lock.json`; `Payload` gives what each release of the package
  ships. `Install` and `Update` are the whole calls, `Stopped` is any of them
  killed between two writes: files and `AGENTS.md` are written in place and may be
  torn, a forced install rewrites unchanged files too, and the lock, written last,
  is as before or unreadable. `Missing`/`Modified`/`Stale` are what
  `verify()` reports. The user edits and deletes, and `ChangePackage` upgrades or
  downgrades. `touched` is history: the paths on which the lock cannot be
  expected to be right. These are paths the user wrote, paths that were torn, paths
  `install()` met with other content, and those a cut-short command left as its own
  release ships them once another release is in place. A path that a command finds
  or makes as shipped leaves the set: a command that was cut short and is repeated
  with the same release has to put everything else right. `.gitignore` rules and
  `scaffold_flow` are left out.
- `GraphRouting`: `model.py` and `graph_engine.py`. `document` is the graph file as
  JSON, `FromDict` loads it, `Valid` is `validate_graph` with the worklist of
  `_reachable` step by step, `Route` is `route()`. `RecordRoute` is one call of
  `specjam route --trail` whose answer the caller follows, `RecordCut` one that is
  killed while or after it writes its line. A line without its newline (`open`) is
  spoilt by the next, which is glued onto it. Artifacts come and go, flags change,
  and the graph may be replaced under the run (`RunInit`, `RunNext`, `RunSpec`). The
  worklist is a function of the number of its iterations (`Work`), as many as there
  are edges and one.
- `SkillLock`: `skills.py` as commands side by side. Each loads the lockfile once
  (`Begin`), goes through its references (`Resolve`, `FindSnapshot`, `Extract`,
  `Fill`, `Mark`, `Read`) and saves the whole file at every change (`SaveBegin`
  truncates, `SaveEnd` writes). A revision is a number and its content that
  number. The kind "sync" also stands for `inspect` and for the planning of an
  increment, which resolve the same way. `fresh` and `raced` are history.
- `MemoryIndex`: opening a projection (`migrations.py`, `vector_index.py` and the
  parts of `memory.py` and `cli.py` around them). An action is what sqlite3
  commits at once: a DDL statement while no transaction is open, or everything
  from the first INSERT to the COMMIT. `store` is the place of each process;
  clients of the command line read the metadata and bind the projection, those
  of the library add and search without (`AfterOpening`). `late`, `solo` and `strays`
  are history; `strays` are the records added by stores that were never bound.
- `Execution`: `execute_and_wait` over the local and the remote harness, beside the
  process or session it polls (`Ends`). Launch, polls, the kill and the report may each
  raise (`CallRaises`), and a process may outlive its kill. `Replay` EXTENDS it with `benchmark.py`:
  drivers replay baselines, capture and append to one store (`AppendCheck` reads
  all of it, `AppendWrite`/`AppendFails` write; a failed write leaves nothing, a part
  of its line, the line without its newline, or all of it), and `Comparable`, `Regressed` and
  `Improved` are the comparator, over every benchmark of the captured baselines.
- `HarnessEvolution`: `classification.py`, `harness.py` and `evolution.py`. `Init`
  composes a harness; `Propose` and `LoadFile` are the two ways a candidate comes
  in, `Gate` is `EvolutionGate.evaluate`, and `Promote`, `Discard` and `Rollback`
  are the workspace around it, which is described in docs/harness-evolution.md
  and has no code. Rates are percentages.
- `SessionManagerProofs`, `MetaRuntimeProofs`, `MemoryProjectionProofs`,
  `MemoryIndexProofs`, `SkillLockProofs`, `InstallerProofs`, `ReplayProofs` (of
  `Execution` too) and `PlanningProofs`: theorems about those modules, each
  beginning with the inductive invariant.
- `MCSessionManager`, `MCMemoryProjection`, `MCMetaRuntime`, `MCInstaller`,
  `MCGraphRouting`, `MCSkillLock`, `MCMemoryIndex`, `MCReplay`,
  `MCHarnessEvolution`: values for TLC.

Definitions named as mutants of another definition are broken variants of it;
`PROJECT.json` pairs each property with one that violates it.

## What the runs show

Runs that pass:

| Run | Question | Bounds |
|---|---|---|
| `session_pair` | Do the calls of two sessions of one increment, one local and one remote, keep trail, records and executions in agreement in every interleaving? | 2 sessions, 3 executions (2 local, 1 remote), 4 trail events before the last call: both planned and both started, or one restarted or cancelled |
| `session_trail` | Does the trail implement `SessionLifecycle`, and does `wait()` always return? | 1 session, 7 events: the full accepted path planned to closed; unregistered harness included |
| `session_sink_fails` | What is left of the trail when the sink may raise at any event? | 1 session, 3 written events and any number of lost ones |
| `memory_shared` | Do usage, score and state of a memory follow the feedback on record, with two processes interleaved? | 2 processes (1 changes states by hand), 1 memory, 3 retrievals by searches for the default states or for any, trust after 2 uses, so that a memory is trusted, deprecated and revalidated |
| `meta_runtime` | Do trail, feedback and memory agree through plan, execute and complete, with every verdict and failure, and does a reported outcome stay true? | 2 sessions (remote implementation and local reviewer, or one of an unregistered harness), 3 executions (1 local, 2 remote), 2 reflections (one eligible), 11 events: both sessions run and complete, or one is retried and completed twice |
| `installer_updates` | Is the lock true, do updates converge, and do reported edits survive, in any order of commands, stops, releases and edits? | 2 paths, 3 releases (one path changes once; the other is dropped and comes back changed), 1 user content; the state space is finite and fully explored |
| `graph_routes` | Does validation agree with routing, and is a run where its trail says it earned to be? | the shipped discovery graph, the branching part of the delivery graph with fewer artifacts, and a family of small ones with loops, dead ends, shadowed edges and unknown targets; 3 trail lines; the graph replaced once in a run |
| `skill_lock` | Does the lock stay genuine while commands overlap, die and meet a moving source? | 2 processes (1 offline), 2 references (1 optional), 2 revisions, 3 commands: both processes at once and one after |
| `memory_index` | Is every opened projection complete, its index no further behind than it must be, and its vectors of one space? | 2 processes, 5 clients (2 backends, 2 dimensions, semantic and manual, and one of the library), 3 records, 2 of the added columns; any number of openings, the state space is finite and fully explored |
| `replay` | Are outcomes real, does every wait end, does the store keep what was appended, and what does an improvement mean? | 2 drivers (1 remote), 2 baselines, 3 measurements that trade quality, cost and interventions, 2 captures and 2 lines |
| `evolution` | What can rounds of candidates do to a harness? | all requests by kind of word, 3 flows, 3 base policies; 2 rounds, 5 measurements, the default thresholds with 2 changes instead of 3 of the 4 primitives |

The properties, by what they relate:

- `TrailIsHistory`: per session, the trail starts at planned, is unbroken and
  ends at the record. `TrailIsOrdered`: with a failing sink, still never out of
  order. `PlanNeverOverwrites`: no plan takes over the id of another session.
  `ExecutionsAreOwned`: the execution of a record was launched for that session
  and no attempt is counted without a launch. `LifecycleSpec`: refinement.
  `WaitReturns`: liveness.
- `UsesMatchFeedback`: usage and score of a memory equal the feedback on record
  when each process reports on its own retrievals. `RecallStaysUsable` and
  `RejectionIsFinal` hold with one process changing states by hand: a search that
  asked for usable states only, as the runtime's do, never hands out something
  that was rejected meanwhile, and neither stale feedback nor a stale state change revives a rejected memory.
- `MemoryIsEarned`, `SettledMeansLearned`, `FeedbackIsOnTrail`: what the two
  stores say of one session agrees. `OutcomeStaysTrue`: an execution reported as
  ended has ended like that, one reported as timed out has stopped, and a session
  that was given up is cancelled for good, on the execution the report is about.
- `LockIsTrue`, `UpdateConverges`: on untouched paths the two hashes, the disk and
  the release agree as they should, at any time and after an update.
  `ReportedEditsSurvive`: of every path. (`VerifyIsRight`, of a silent `verify()`,
  is proved and no longer run.)
- `ReachabilityIsExact`: the worklist finds the least set closed under the edges.
  `EveryStageCanBeRouted`: validation follows edges and routing the first that
  matches, and in graphs without shadowed edges they reach the same stages.
  `StageIsEarned`: every stage a readable trail was asked at was earned by an
  earlier line.
- `LockedIsGenuine`: no hash of a half-written snapshot gets into the lock.
  `HandedOutIsLocked`: what a command returns is what the lockfile says.
  `PinsMoveOnlyByUpdate`: a pin moves only under `--update` of that reference, or
  by a process with a stale copy of the file. `TypeOK` has one line that is more
  than typing: a command past `Resolve` has a revision that exists.
- `MigrationsComplete`: version 3 means the whole schema, and an opening nobody
  disturbs never fails on what an earlier crash left. `IndexIsComplete` and
  `SearchMissesOnlyForNewer`: how far index and searches lag.
  `SpacesNeverMix`: one embedding space in a bound projection, but for what
  stores that were never bound added.
- `OutcomeIsReal`, `EveryWaitEnds`: of `execute_and_wait`. `StoreKeepsHistory`: no
  kept trajectory missing or doubled. `ImprovedMeansNoLoss`: an improvement
  stands on each baseline, and how much rounding can hide.
- `LineageIsGoverned`, `RoundsDoNotErode`: descent and quality over any rounds.
  `MemoryFitsLevel`: the memory budget and the level of the task.

One run finds the code at odds with its documentation: `installer_edits`.
docs/architecture.md:70 promises that updates preserve local edits; `update()`
records an edited file's hash as installed (installer.py:250) and the update to
the next release overwrites it.

Other disagreements are recorded under `findings` without a run. In these a model
has the behaviour, and a property is stated so as to leave it out:

- ids joined with `:` collide for names that contain it (sessions.py:187):
  `PlanNeverOverwrites` is run, and proved, for run ids without one;
- feedback "already given" is checked before the transaction (memory.py:451):
  `UsesMatchFeedback` is checked with each process reporting on its own
  retrievals (`SharedFeedback = FALSE`), as the runtime does;
- `update_state()` checks a state it read before its transaction (memory.py:410);
  what remains true is `RejectionIsFinal`;
- a lockfile copy that is stale is put back whole (skills.py:118), and a snapshot
  may be extracted over one that is being read (skills.py:394): `fresh`, `raced`;
- a manual client may count the records of a projection bound since it read the
  metadata (cli.py:146), and a store of the library adds to any projection, bound or
  not: `strays`;
- the columns of version 3 are not added transactionally (migrations.py:92): two
  upgrades at once may fail one of them, which is why `solo` is asked for.

In the others the code always does the other thing, and there is nothing to
search for: the harness that is called before an illegal `cancel()` is refused,
the second `install()` that rewrites the lock, pruning that leaves its entry,
`max_retries` that nothing reads, planning that resolves moving references, the
command line that cannot capture a replay, candidate files that may change the
reviewers, words of small work that hide critical ones, and the templates of a
postmortem. `PROJECT.json` quotes the sentences.

Bounds. `MaxSessions` and `MaxTrail` stop new calls, never a call in progress
(`MetaRuntime` begins a call only when its longest trail fits), and the runs may
stop there, which is why they do not check for deadlock: nobody is obliged to
call anything. Executions, retrieval ids and memories are interchangeable where
a run declares symmetry; the runs with liveness (`session_trail`, `replay`) declare
none. `MaxCommands`, `MaxLines`, `MaxRounds` and the trail of `GraphRouting` bound what
is begun, in the same way. Two processes are enough for the races, which are of one process
between two steps of another, with a third command or opening after.

Fairness. Only the steps of a waiting loop are fair: `wait()` of the session manager
(`WF_vars(WaitStep)`) and, for each driver, `execute_and_wait()` (`Fairness` of
`Replay`). Both loops sleep and poll until a deadline on a monotonic clock, so
they keep running and the deadline arrives; the calls of the local harness are
bounded, and those of the remote one answer or raise. Executions are not obliged
to end, remote services not to answer well, and no caller to call.

## What is proved

Eight modules hold the proofs, `SessionManagerProofs`, `MetaRuntimeProofs`,
`MemoryProjectionProofs`, `MemoryIndexProofs`, `SkillLockProofs`,
`InstallerProofs`, `ReplayProofs` and `PlanningProofs`. A theorem is for
every value of the constants that the named `ASSUME`s of its model admit: any
number of sessions, processes, clients, references, paths, drivers or rounds, and
any bound. Where a theorem has a hypothesis of its own, it is given below with the
behaviour it leaves out; those behaviours are findings. All proofs have the same
form: an invariant that contains the property and is inductive, one lemma per kind
of step, and a last step that combines them with `Spec`. Each of these invariants
was first checked by TLC with the constants of the module's run.

### Session manager

`SessionManagerProofs`:

1. `TypeCorrect`: `TypeOK`, including that an external id is that of an
   execution already launched.
2. `IdsStayNumbered` (assuming `ColonFreeRuns`: run ids contain no `:`): each
   session id is the name of its request and a number between 1 and the count of
   sessions of that run. This is the strengthening that makes the number of the
   next plan fresh: it exceeds all of them. Without the assumption it is false:
   the finding at sessions.py:187 has the two increments.
3. `IdsNeverReused` (same assumption): `PlanNeverOverwrites`.
4. `TrailTellsHistory` (same assumption, and a sink that never raises):
   `TrailIsHistory`. Its three parts are inductive together with `TypeOK` and the
   numbering: the argument is one lemma for an appended event whose `previous`
   is the status the record had, and one for calls that change neither the trail
   nor a status. With a raising sink it is false by design.
5. `TrailStaysOrdered` (colon-free run ids, any sink): `TrailIsOrdered`, what
   remains of the former when events are lost. Inductive once every event is known
   to be of a session with a record (`OrderInv`): a lost event moves the record
   ahead of the trail, along transitions that compose (`Reachable` is the least set
   of statuses closed under them, so that it needs no recursion).
6. `TrailImplementsLifecycle` (colon-free run ids, a sink that never raises): the
   refinement `LifecycleSpec`. The mapping reads the phase of a session off its last
   event; `LifecycleInv` says that there is one and that it is where the record is,
   and then each change of status is a step of the lifecycle or stays in its phase.
7. `OwnersHold` (no hypothesis on run ids): `ExecutionsAreOwned`. It is inductive
   with: suffixes count from 1, so no session has the id that stands for nobody, and
   an execution is nobody's until it is launched (`OwnedInv`). The count of attempts
   against executions launched is an argument on cardinalities.

`StatusSteps` is the lemma behind 4 to 6: a step leaves every status, or moves one
session along `AllowedTransitions` and appends at most that event.

### Runtime

`MetaRuntimeProofs` reaches the theorems above through an instance of
`SessionManagerProofs` (`Facts`), whose definitions are shown to be those of the
instance `Sessions` the model uses.

1. `TypeCorrect`: `TypeOK`, by way of the session manager's.
2. `RuntimeOwnersHold`, `RuntimeHistoryHolds`, `RuntimeOrderHolds`: what the
   sessions of a runtime inherit, with the hypotheses of the session manager's
   theorems. The means is a lemma, `ManagerImplemented`: a step of the runtime is a
   step of the session manager or leaves its variables alone. That is so by how the
   actions are written, but for the bound on the trail: a call is only begun with
   room for what it will write. `RoomInv` carries that promise through the call, and
   that `wait()` polls for the session of the call and no other.
3. `MemoryEarned`, `SettledLearned`: `MemoryIsEarned` and `SettledMeansLearned`.
   Between `REFLECTING` and the end of `learn()` what was given is split into what is
   to do and what is in memory under the session's name, and the trail has the event
   (`EarnedInv`, `LearnedInv`).
4. `FeedbackLogged` (a sink that never raises): `FeedbackIsOnTrail`. While the call
   that gave the feedback goes on, its next transition is the one that will log it.
   With a failing sink the event may be the one that is lost.
5. `OutcomesStayTrue`: `OutcomeStaysTrue`. `WaitEnds` says what a `wait()` that
   returns has found or done, and then nothing undoes it: an ended execution is not
   launched again, and a cancelled record does not change (`CancelledStays`).

### Projection

`MemoryProjectionProofs`:

1. `TypeCorrect`: `TypeOK`, with what a client has read: what a search selected
   exists and is within its budget, feedback names what its event selected. It is
   inductive because rows are never deleted.
2. `UsesAreFeedback` (assuming `SharedFeedback = FALSE`: each client reports on its
   own retrievals, as the runtime does): `UsesMatchFeedback`. Needed: feedback on its
   way is for an event of that very client that has none yet (`UsesInv`), and that
   recording it adds exactly one event to those a memory was used in.
3. `RecalledStaysUsable` (of searches that ask for usable states only) and
   `RejectionStays` (both assuming at most one process that
   changes states by hand): the target a curator chose is still reached from the
   state the memory has when it writes, whatever feedback did in between, because
   feedback only moves a state among the usable ones (`RecallInv`). With two
   curators both are false: the finding at memory.py:410.

`MemoryIndexProofs`: `TypeCorrect`; `MigrationsFinish` (`MigrationsComplete`), from
what each place of an opening implies of the schema (`SchemaAt`, `AloneAt`);
`IndexCatchesUp` (`IndexIsComplete`), inductive as it stands;
`SearchMissesFew` (`SearchMissesOnlyForNewer`), by counting along the three
statements of a search (`SearchAt`); `SpacesStayApart` (`SpacesNeverMix`), which needs
that a projection about to be bound has only records of stores that were not, and
that a bound store has the space of the projection (`SpaceAt`).

### Files

`SkillLockProofs`: `TypeCorrect`; `LockTellsTruth` (`LockedIsGenuine`), from snapshots
that are whole once they have their marker, unless raced, and processes that only
remember what is genuine; `AnswersAreLocked` (`HandedOutIsLocked`) and `PinsStay`
(`PinsMoveOnlyByUpdate`, an action property), from what the lockfile says to a process
nobody has saved behind (`FreshAt`).

`InstallerProofs`:

1. `TypeCorrect`: `TypeOK`, including that no entry records an absent file.
2. `LockTellsTruth`: `LockIsTrue`. It is inductive together with `TypeOK` and
   `UpdateConverges` (`Inv`), once `touched` is kept beside the state: an update looks
   at the disk and both hashes, and on an untouched path the three can only differ in
   ways its cases cover (`UpdateReaches`, `UpdateKeeps`).
3. `UpdatesConverge`, `VerifyTellsTruth`: `UpdateConverges` and `VerifyIsRight`,
   from the truth of the lock before the update, or at the time of the report
   (`VerifyIsRight` is proved only, it is in no run).
4. `ReportedEditsAreKept`: `ReportedEditsSurvive`.

The assumptions are those on the constants: payload contents differ from what
the user writes and from a torn file, which is what makes `touched` meaningful.

### Benchmark and evolution

`ReplayProofs`:

1. `OutcomesAreReal` (`OutcomeIsReal`), from what each place of the loop implies of
   the execution outside.
2. `StoreIsHistory` (`StoreKeepsHistory`), inductive with the numbering of
   trajectories.
3. `ImprovementsAreReal` (`ImprovedMeansNoLoss`), for a benchmark of any size. Each
   case has a store line of its own, so the benchmark is finite (`ComparedMetrics`);
   the sum that `SumFunction` of the community modules gives exists and obeys its
   recursion (`SumOfAll`), so the sum of the differences is the difference of the
   sums (`SumsSubtract`), by induction over the number of cases; and a rounded
   average is at most a half off (`RoundedIsNear`), whence two of them hide at most
   one per case. The numbers are integers, which is `MetricsAssumption`: what floats
   add to it is not modelled.

`PlanningProofs`, of `HarnessEvolution`:

1. `LineageGoverned` (`LineageIsGoverned`), where each entry of the lineage is one
   gated round from the one before and changes add up along it (a triangle
   inequality on sets of primitives).
2. `MemoryFits` (`MemoryFitsLevel`), with the classification evaluated case by case.
3. `RoundsKeepQuality` (`RoundsDoNotErode`): what `Descends` says of each version
   follows from the version before. Tolerances add up; those of the cost compound,
   so the bound has powers, `Power` is a recursive function, and `CostCompounds` is
   the step of the induction.

`PlanningProofs`, of `GraphRouting`, under `RoutingAssumption` (graph files are
finite and each condition is a flag or unconditional):

1. `StageEarned` (`StageIsEarned`), inductive with the fact that only a trail with
   a line can lack its last newline: with the trail as long as one likes, a line that
   is added leaves what was earned before it earned, and a call that lost its answer
   repeats the stage of a line that is already accounted for.
2. `ReachabilityExact` (`ReachabilityIsExact`): along the iterations of the worklist
   (`Searched`), what is found or pending is within every closed set that holds the
   start, what was found has all its targets found or pending, and iterations and
   what is pending add up to the edges of what was found. So it is empty
   when the edges are used up, and what was found is then itself closed.
3. `StagesRoutable` (`EveryStageCanBeRouted`): for an edge of an unshadowed stage
   there are flags under which no earlier one matches (`EdgeDecides`), so the routes
   have the same closure as the edges. Behind a shadowed edge there may be
   a stage that validation finds and no flags lead to, hence the hypothesis.

Induction. The library states it for an operator, which the installed provers cannot
instantiate. `LeastNumber` gets a least element of a set of numbers from the
well-foundedness of `<` (`WFMin`, stated of sets), `Counting` induction from that,
and `Iteration`, in `PlanningProofs`, that a step can be iterated, which is what
makes a recursive function defined at all. `ReplayProofs` has the first two as well,
because one module cannot extend both models.

### Model-checked only

`WaitReturns` and `EveryWaitEnds`: liveness under fairness is out of the prover's
reach. Every other property of a passing run is stated by a theorem.

To be reasoned about, some definitions are written as sets, records or sums of
named fields where a recursive definition, a `CASE` or a fold would do (`Reachable` of
`SessionManager`, `AfterVerdict`, `AllowedStates`, `RouteMemory`, `Quality`), and the
worklist of `GraphRouting` and `Power` as recursive functions over `Nat`; the values
are the same.

## Plan

All components with behaviour of their own are modelled, and all safety invariants
and action properties of the runs are proved. What could be added:

1. The commands of `cli.py` as callers of the components, with what each leaves
   behind when it fails half-way.
2. Skill providers of the filesystem, whose content changes without a revision.

## Not modelled

Text: prompts, agent output parsing, skill catalogue and selection, reviewers,
diagnosis (patterns over the text of an outcome), sanitization patterns. Numeric
work: the scores that rank memories, embeddings, the limit sqlite-vec sets to the `k` of a
nearest-neighbour query, calibration statistics. The
filesystem skill provider, whose files have no revision, and the in-memory one of
the tests. `.gitignore` rules and `scaffold_flow`. I/O of the command line, archives
and HTTP. A restart of the session manager's process: it keeps nothing of the
records, so a new life has nothing in common with the old one but the trail file,
to which it may append events under ids that are already there. Timestamps appear
only where something depends on them (the memory signature that makes a
reflection learned twice collide).
