------------------------------- MODULE Replay -------------------------------
(***************************************************************************)
(* Replay and comparison: benchmark.py (TrajectoryStore, ReplayEngine,     *)
(* BenchmarkComparator) over Execution.  Drivers replay captured baselines *)
(* at the same time and append what came of it to one candidate store; the *)
(* comparator reads both stores.  A trajectory is known by its number,     *)
(* since its id hashes its content and the time of its capture.            *)
(***************************************************************************)
EXTENDS Execution, Sequences, SequencesExt, FiniteSets, FiniteSetsExt

CONSTANTS
  Baselines,   \* ids of the captured baselines
  Metrics,     \* what an evaluator may say of an outcome
  MaxLines     \* bound: trajectories captured, and lines of the candidate store;
               \* a replay is begun only while there is one to capture

(* HarnessMetrics takes no rate outside of 0..1, nothing that is not finite and
   no negative cost or count; a rate and a cost are integers in a small unit. *)
ASSUME MetricsAssumption ==
  Metrics \subseteq [success: BOOLEAN, quality: Nat, cost: Nat, interventions: Nat]

VARIABLES
  replay,     \* per driver: its place, its baseline, and the trajectory it holds
  store,      \* the lines of the candidate store
  open,       \* whether the last of them lacks its newline
  captured    \* history: number of trajectories captured

replayVars == <<replay, store, open, captured>>
vars == <<execution, replayVars>>

NoBaseline == "no baseline"
NoTrajectory == [id |-> 0, of |-> NoBaseline, metrics |-> CHOOSE m \in Metrics : TRUE]
Spoilt == [NoTrajectory EXCEPT !.of = "spoilt"]    \* a line that does not parse

Idle == [pc |-> "idle", of |-> NoBaseline, held |-> NoTrajectory]

Init ==
  /\ ExecutionInit
  /\ replay = [d \in Drivers |-> Idle]
  /\ store = <<>>
  /\ open = FALSE
  /\ captured = 0

Readable == Spoilt \notin ToSet(store)

-----------------------------------------------------------------------------
(* ReplayEngine.replay *)

ReplayBegin(d) ==
  /\ replay[d].pc = "idle" /\ At(d, "idle")
  /\ captured < MaxLines
  /\ \E b \in Baselines : replay' = [replay EXCEPT ![d].pc = "execute", ![d].of = b]
  /\ Launch(d)
  /\ UNCHANGED <<store, open, captured>>

ReplayWait(d) ==
  /\ WaitStep(d) \/ CallRaises(d) \/ Ends(d)
  /\ UNCHANGED replayVars

(* The outcome is judged by an evaluator from outside, and captured; nobody
   follows the execution any further. *)
Capture(d) ==
  /\ replay[d].pc = "execute" /\ At(d, "returned")
  /\ captured < MaxLines
  /\ captured' = captured + 1
  /\ \E m \in Metrics :
       replay' = [replay EXCEPT ![d].pc = "holding",
                    ![d].held = [id |-> captured + 1, of |-> replay[d].of, metrics |-> m]]
  /\ Update(d, NotStarted)
  /\ UNCHANGED <<store, open>>

-----------------------------------------------------------------------------
(* TrajectoryStore.append *)

(* MUTANT of AppendCheck: the id is not looked up. *)
AppendCheckNot(d) ==
  /\ replay[d].pc \in {"holding", "kept"}
  /\ replay' = [replay EXCEPT ![d].pc = "append"]
  /\ UNCHANGED <<execution, store, open, captured>>

(* The whole store is read; a line that does not parse, or the same id, makes
   the append raise. *)
AppendCheck(d) ==
  /\ replay[d].pc \in {"holding", "kept"}
  /\ Readable
  /\ \A i \in DOMAIN store : store[i].id # replay[d].held.id
  /\ replay' = [replay EXCEPT ![d].pc = "append"]
  /\ UNCHANGED <<execution, store, open, captured>>

(* What follows a line without a newline becomes part of it, and spoils it. *)
Write(line, cut) ==
  /\ store' = IF open THEN Append(Front(store), Spoilt) ELSE Append(store, line)
  /\ open' = cut

AppendWrite(d) ==
  /\ replay[d].pc = "append" /\ Len(store) < MaxLines
  /\ Write(replay[d].held, FALSE)
  /\ replay' = [replay EXCEPT ![d].pc = "kept"]
  /\ UNCHANGED <<execution, captured>>

(* The write fails at once, half-way, just before the newline, or after all of it:
   the driver only knows that it failed, and may try again. *)
AppendFails(d) ==
  /\ replay[d].pc = "append" /\ Len(store) < MaxLines
  /\ \/ UNCHANGED <<store, open>>
     \/ Write(Spoilt, TRUE)
     \/ \E cut \in BOOLEAN : Write(replay[d].held, cut)
  /\ replay' = [replay EXCEPT ![d].pc = "holding"]
  /\ UNCHANGED <<execution, captured>>

(* The driver goes on to another replay, whatever became of this one. *)
Leave(d) ==
  /\ replay[d].pc # "idle" /\ execution[d].pc \in {"idle", "returned", "raised"}
  /\ replay' = [replay EXCEPT ![d] = Idle]
  /\ Update(d, NotStarted)
  /\ UNCHANGED <<store, open, captured>>

Next == \E d \in Drivers :
  \/ ReplayBegin(d) \/ ReplayWait(d) \/ Capture(d) \/ AppendCheck(d) \/ AppendWrite(d)
  \/ AppendFails(d) \/ Leave(d)

(* The loop of execute_and_wait runs on: it polls, sleeps, and its deadline on a
   monotonic clock arrives. *)
Fairness == \A d \in Drivers : WF_vars(WaitStep(d) /\ UNCHANGED replayVars)

Spec == Init /\ [][Next]_vars /\ Fairness

-----------------------------------------------------------------------------
(* BenchmarkComparator.compare(baseline, store): the metrics of the baselines of a
   benchmark, some or all of those captured, and the candidate store. *)

Candidates == {store[i] : i \in DOMAIN store}
Of(b) == CHOOSE t \in Candidates : t.of = b
Matched(baseline) == {b \in DOMAIN baseline : \E t \in Candidates : t.of = b}
Missing(baseline) == DOMAIN baseline \ Matched(baseline)

(* MUTANT of Comparable: the last replay of a baseline counts. *)
ComparableTwice(baseline) == Readable /\ Matched(baseline) # {}

(* It raises unless both stores read cleanly, no baseline was replayed twice,
   one outside of the benchmark included, and some of the benchmark was. *)
Comparable(baseline) ==
  /\ Readable
  /\ \A i, j \in DOMAIN store : i # j => store[i].of # store[j].of
  /\ Matched(baseline) # {}

Before(baseline, metric) == SumFunction([b \in Matched(baseline) |-> baseline[b][metric]])
After(baseline, metric)  == SumFunction([b \in Matched(baseline) |-> Of(b).metrics[metric]])

(* Python rounds a half to the even neighbour. *)
Rounded(sum, count) ==
  LET q == sum \div count
      r == 2 * (sum % count)
  IN IF r < count \/ (r = count /\ q % 2 = 0) THEN q ELSE q + 1

(* Averages over the same cases compare like their sums, but those of the
   interventions are rounded first. *)
Regressed(baseline) ==
  LET cases == Cardinality(Matched(baseline)) IN
  \/ /\ \A b \in Matched(baseline) : baseline[b].success
     /\ \E b \in Matched(baseline) : ~Of(b).metrics.success
  \/ After(baseline, "quality") < Before(baseline, "quality")
  \/ After(baseline, "cost") > Before(baseline, "cost")
  \/ Rounded(After(baseline, "interventions"), cases) > Rounded(Before(baseline, "interventions"), cases)
  \/ Missing(baseline) # {}

Improved(baseline) == Comparable(baseline) /\ ~Regressed(baseline)

-----------------------------------------------------------------------------
(* Properties. *)

(* A store that reads cleanly has every trajectory whose append returned, once,
   however the appends of several drivers overlap, fail and are tried again. *)
StoreKeepsHistory ==
  Readable =>
    /\ \A d \in Drivers : replay[d].pc = "kept" => replay[d].held \in ToSet(store)
    /\ \A i, j \in DOMAIN store : i # j => store[i].id # store[j].id

(* A comparison that finds an improvement stands on every baseline of the
   benchmark, not only on those it matched: each was replayed exactly once, none
   of a successful benchmark failed, quality did not fall and cost did not rise
   in total, and rounding hides at most one more intervention per case. *)
ImprovedMeansNoLoss ==
  \A benchmark \in SUBSET Baselines : \A baseline \in [benchmark -> Metrics] :
    LET gain(metric) == SumFunction([b \in benchmark |-> Of(b).metrics[metric] - baseline[b][metric]])
    IN Improved(baseline) =>
         /\ \A b \in benchmark : Cardinality({i \in DOMAIN store : store[i].of = b}) = 1
         /\ (\A b \in benchmark : baseline[b].success) => \A b \in benchmark : Of(b).metrics.success
         /\ gain("quality") >= 0
         /\ gain("cost") <= 0
         /\ gain("interventions") <= Cardinality(benchmark)

=============================================================================
