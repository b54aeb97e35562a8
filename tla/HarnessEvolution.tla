-------------------------- MODULE HarnessEvolution --------------------------
(***************************************************************************)
(* The harness of a task and its evolution: classification.py and          *)
(* harness.py compose the first configuration, evolution.py proposes,      *)
(* loads and gates candidates.  A workspace, which is outside of src/,     *)
(* promotes what the gate accepted and may roll back (docs/                *)
(* harness-evolution.md).  A version is the digest of all of a             *)
(* configuration, its parent's version included: here the configuration    *)
(* itself.  Four of its fields stand for the primitives, and rates are     *)
(* percentages.                                                            *)
(***************************************************************************)
EXTENDS Integers, Sequences, SequencesExt, FiniteSets

CONSTANTS
  Policy,       \* the thresholds of EvolutionPolicy
  BasePolicies, \* the memory policies a task may be composed with
  Metrics,      \* what a benchmark may measure
  Variants,     \* values of the primitives a candidate may try
  MaxRounds     \* bound: candidates promoted one upon the other

(* EvolutionPolicy accepts no other thresholds. *)
ASSUME PolicyAssumption ==
  Policy \in [min: [{"artifact", "adherence", "regression", "generalization"} -> 0..100],
              max_quality_regression: 0..100, min_quality_improvement: 0..100,
              max_cost_increase: Nat, max_intervention_increase: Nat,
              max_changed_primitives: Nat \ {0}]

(* Nor does HarnessMetrics accept other measurements, or MemoryPolicy no budget. *)
ASSUME InputAssumption ==
  /\ Metrics \subseteq [success: BOOLEAN, cost: Nat, interventions: Nat,
                        rates: [{"artifact", "adherence", "regression", "generalization"} -> 0..100]]
  /\ BasePolicies \subseteq [enabled: BOOLEAN, top_k: Nat \ {0}, characters: Nat \ {0}]

VARIABLES
  lineage,   \* the configurations in force: the composed one, and one per promotion,
             \* with what was measured before and after at its gate
  pending    \* the candidate file, if there is one, and the decision of the gate

vars == <<lineage, pending>>

Rates      == {"artifact", "adherence", "regression", "generalization"}
Evolvable  == {"planning_strategy", "recovery_strategy", "memory"}
Primitives == Evolvable \cup {"reviewers"}
Identity   == {"flow", "task_level"}

Baseline   == Last(lineage).config

-----------------------------------------------------------------------------
(* classify_request, of the kinds of words that occur in a request. *)

Words == {"lookup", "small", "risky", "other"}

Classified(request, critical) ==
  IF request = {} THEN "L3"
  ELSE IF ~critical /\ "lookup" \in request THEN "L0"
  ELSE IF ~critical /\ "small" \in request THEN "L1"
  ELSE IF critical \/ "risky" \in request THEN "L3"
  ELSE "L2"

(* HarnessPlanner.classify *)
Level(flow, request) ==
  IF flow \in {"discovery", "postmortem"} THEN "L3" ELSE Classified(request, flow = "postmortem")

Lesser(a, b)  == IF a < b THEN a ELSE b
Greater(a, b) == IF a > b THEN a ELSE b
Routing(enabled, top_k, characters) == [enabled |-> enabled, top_k |-> top_k, characters |-> characters]

MemoryOff == Routing(FALSE, 0, 1)

(* MUTANT of RouteMemory: the budget of governed work is cut, not raised. *)
RouteMemoryBounded(level, base) ==
  IF ~base.enabled \/ level = "L0" THEN MemoryOff ELSE
  Routing(TRUE,
    [L1 |-> Lesser(base.top_k, 1), L2 |-> base.top_k, L3 |-> Lesser(base.top_k, 5)][level],
    [L1 |-> Lesser(base.characters, 4000), L2 |-> base.characters,
     L3 |-> Lesser(base.characters, 16000)][level])

RouteMemory(level, base) ==
  IF ~base.enabled \/ level = "L0" THEN MemoryOff ELSE
  Routing(TRUE,
    [L1 |-> Lesser(base.top_k, 1), L2 |-> base.top_k, L3 |-> Greater(base.top_k, 5)][level],
    [L1 |-> Lesser(base.characters, 4000), L2 |-> base.characters,
     L3 |-> Greater(base.characters, 16000)][level])

Planning == [L0 |-> "direct", L1 |-> "direct-with-validation", L2 |-> "staged", L3 |-> "hierarchical"]

Compose(flow, request, base, retries) ==
  LET level == Level(flow, request) IN
  [flow |-> flow, task_level |-> level, reviewers |-> "of the graph",
   planning_strategy |-> Planning[level],
   recovery_strategy |-> IF retries THEN "diagnose-and-replan" ELSE "fail-closed",
   memory |-> RouteMemory(level, base), parent |-> <<>>]

Init ==
  /\ \E flow \in {"discovery", "delivery", "postmortem"}, request \in SUBSET Words,
        base \in BasePolicies, retries \in BOOLEAN, m \in Metrics :
       lineage = <<[config |-> Compose(flow, request, base, retries), before |-> m, after |-> m]>>
  /\ pending = <<>>

-----------------------------------------------------------------------------
(* HarnessCandidate and its ways in. *)

(* MUTANT of IsCandidate: what the candidate descends from is not compared. *)
IsCandidateOfAny(baseline, config) == \A f \in Identity : config[f] = baseline[f]

(* Its constructor refuses another parent and another identity. *)
IsCandidate(baseline, config) ==
  /\ config.parent = <<baseline>>
  /\ \A f \in Identity : config[f] = baseline[f]

ChangedPrimitives(baseline, config) == {f \in Primitives : config[f] # baseline[f]}

Altered(baseline) ==
  {[baseline EXCEPT !.planning_strategy = p, !.recovery_strategy = r, !.memory = m, !.parent = <<baseline>>] :
     p \in {baseline.planning_strategy} \cup Variants.planning_strategy,
     r \in {baseline.recovery_strategy} \cup Variants.recovery_strategy,
     m \in {baseline.memory} \cup Variants.memory}

File(baseline, config, accepted, before, after) ==
  [baseline |-> baseline, config |-> config, accepted |-> accepted, before |-> before, after |-> after]

Submit(baseline, config) ==
  pending' = <<File(baseline, config, FALSE, Last(lineage).after, Last(lineage).after)>>

(* HarnessOptimizer.propose changes only what may evolve, or nothing. *)
Propose ==
  /\ pending = <<>> /\ Len(lineage) <= MaxRounds
  /\ \E config \in Altered(Baseline) : IsCandidate(Baseline, config) /\ Submit(Baseline, config)
  /\ UNCHANGED lineage

(* A candidate file written by hand, as HarnessCandidate.from_dict reads it: the
   digest of its configurations, where it is given, and its changed primitives
   have to be right, and the constructor has its conditions, but no primitive is
   kept from changing, the reviewers of the graph included. *)
LoadFile ==
  /\ pending = <<>> /\ Len(lineage) <= MaxRounds
  /\ \E altered \in Altered(Baseline), reviewers \in Variants.reviewers, level \in {Baseline.task_level, "L0"},
        parent \in {<<>>, Baseline.parent, <<Baseline>>} :
       LET config == [altered EXCEPT !.reviewers = reviewers, !.task_level = level, !.parent = parent] IN
       IsCandidate(Baseline, config) /\ Submit(Baseline, config)
  /\ UNCHANGED lineage

-----------------------------------------------------------------------------
(* EvolutionGate.evaluate *)

Quality(m) ==
  m.rates["artifact"] + m.rates["adherence"] + m.rates["regression"] + m.rates["generalization"]

(* MUTANT of QualityHolds: the components are only compared in total. *)
QualityHoldsInTotal(before, after) ==
  /\ \A r \in Rates : after.rates[r] >= Policy.min[r]
  /\ Quality(after) >= Quality(before) - 4 * Policy.max_quality_regression
  /\ Quality(after) - Quality(before) >= 4 * Policy.min_quality_improvement

(* The thresholds, the total, each component (the regression suite by itself and
   without tolerance), and the improvement asked for. *)
QualityHolds(before, after) ==
  /\ \A r \in Rates : after.rates[r] >= Policy.min[r]
  /\ after.rates["regression"] >= before.rates["regression"]
  /\ Quality(after) >= Quality(before) - 4 * Policy.max_quality_regression
  /\ \A r \in Rates \ {"regression"} : after.rates[r] - before.rates[r] >= -Policy.max_quality_regression
  /\ Quality(after) - Quality(before) >= 4 * Policy.min_quality_improvement

(* Cost, as latency, in proportion; interventions in number. *)
CostHolds(before, after) ==
  /\ 100 * after.cost <= before.cost * (100 + Policy.max_cost_increase)
  /\ after.interventions <= before.interventions + Policy.max_intervention_increase

ChangeHolds(baseline, config) ==
  Cardinality(ChangedPrimitives(baseline, config)) \in 1..Policy.max_changed_primitives

(* The metrics of both sides are files handed to the gate: what is measured of the
   baseline now need not be what its own gate was shown. *)
Gate ==
  /\ pending # <<>> /\ ~pending[1].accepted
  /\ \E before \in Metrics, after \in Metrics :
       LET file == pending[1] IN
       pending' = IF /\ after.success
                     /\ QualityHolds(before, after)
                     /\ CostHolds(before, after)
                     /\ ChangeHolds(file.baseline, file.config)
                    THEN <<File(file.baseline, file.config, TRUE, before, after)>>
                    ELSE <<>>
  /\ UNCHANGED lineage

-----------------------------------------------------------------------------
(* The workspace. *)

(* It promotes a candidate of the version that is in force. *)
Promote ==
  /\ pending # <<>> /\ pending[1].accepted /\ pending[1].baseline = Baseline
  /\ lineage' = Append(lineage, [config |-> pending[1].config, before |-> pending[1].before,
                                 after |-> pending[1].after])
  /\ pending' = <<>>

Discard ==
  /\ pending # <<>>
  /\ pending' = <<>> /\ UNCHANGED lineage

(* A candidate may be on its way while its baseline is rolled back. *)
Rollback ==
  /\ Len(lineage) > 1
  /\ lineage' = Front(lineage) /\ UNCHANGED pending

Next == Propose \/ LoadFile \/ Gate \/ Promote \/ Discard \/ Rollback

Spec == Init /\ [][Next]_vars

-----------------------------------------------------------------------------
(* Properties. *)

(* The version in force descends, parent by parent, from the composed one, has its
   flow and level, and is as many changes away from it as its rounds allow,
   whatever files were written by hand and whatever was rolled back. *)
LineageIsGoverned ==
  \A i \in DOMAIN lineage :
    /\ lineage[i].config.parent = IF i = 1 THEN <<>> ELSE <<lineage[i - 1].config>>
    /\ \A f \in Identity : lineage[i].config[f] = lineage[1].config[f]
    /\ Cardinality(ChangedPrimitives(lineage[1].config, lineage[i].config))
         <= (i - 1) * Policy.max_changed_primitives

(* Rounds lineage[2..i] were each gated with what the round before had measured. *)
MeasuredOnce(i) == \A j \in 2..i : lineage[j].before = lineage[j - 1].after

(* After `n` more rounds no rate is lower than the tolerance of each round allows,
   the regression suite no lower at all, and the total as much higher as each has to
   gain; interventions have not crept up beyond theirs. *)
QualityKept(n, first, now) ==
  /\ now.rates["regression"] >= first.rates["regression"]
  /\ \A r \in Rates : now.rates[r] >= first.rates[r] - n * Policy.max_quality_regression
  /\ Quality(now) >= Quality(first) + 4 * n * Policy.min_quality_improvement
  /\ now.interventions <= first.interventions + n * Policy.max_intervention_increase

Power(b) == LET power[n \in Nat] == IF n = 0 THEN 1 ELSE b * power[n - 1] IN power

CostKept(n, first, now) ==
  now.cost * Power(100)[n] <= first.cost * Power(100 + Policy.max_cost_increase)[n]

(* Then no number of rounds erodes the quality of the composed version by more than
   the tolerance of each, in any component, or the regression suite at all, nor
   lets interventions creep up beyond it; cost compounds and stays within that. *)
RoundsDoNotErode ==
  \A i \in DOMAIN lineage : (i > 1 /\ MeasuredOnce(i)) =>
    /\ lineage[i].after.success
    /\ QualityKept(i - 1, lineage[1].after, lineage[i].after)
    /\ CostKept(i - 1, lineage[1].after, lineage[i].after)

(* Where no promoted candidate changed it, the memory of a task is in
   proportion to its level: off for a lookup, one item for a small change, and
   for governed work at least five items, unless the workspace turned it off.  It
   is always one MemoryRouting accepts, so that composing never raises. *)
MemoryFitsLevel ==
  \A i \in DOMAIN lineage : LET c == lineage[i].config IN
    c.memory = lineage[1].config.memory =>
      /\ c.memory.characters >= 1
      /\ IF c.memory.enabled THEN c.memory.top_k >= 1 ELSE c.memory.top_k = 0
      /\ c.task_level = "L0" => ~c.memory.enabled
      /\ c.task_level = "L1" => c.memory.top_k <= 1 /\ c.memory.characters <= 4000
      /\ c.task_level = "L3" /\ c.memory.enabled => c.memory.top_k >= 5 /\ c.memory.characters >= 16000
      /\ c.flow # "delivery" => c.task_level = "L3"

=============================================================================
