------------------------- MODULE MCHarnessEvolution -------------------------
(* The default thresholds, with two changes per candidate instead of three. *)
EXTENDS HarnessEvolution

DefaultPolicy ==
  [min |-> [artifact |-> 80, adherence |-> 95, regression |-> 100, generalization |-> 75],
   max_quality_regression |-> 0, min_quality_improvement |-> 0, max_cost_increase |-> 25,
   max_intervention_increase |-> 0, max_changed_primitives |-> 2]

Base(enabled, top_k, characters) == [enabled |-> enabled, top_k |-> top_k, characters |-> characters]
Bases == {Base(TRUE, 3, 12000), Base(TRUE, 8, 20000), Base(FALSE, 3, 12000)}

Measured(success, artifact, generalization, cost, interventions) ==
  [success |-> success, cost |-> cost, interventions |-> interventions,
   rates |-> [artifact |-> artifact, adherence |-> 100, regression |-> 100, generalization |-> generalization]]

Measurements == {Measured(TRUE, 90, 85, 16, 1), Measured(TRUE, 85, 90, 20, 0), Measured(TRUE, 90, 85, 20, 1),
                 Measured(TRUE, 90, 90, 25, 0), Measured(FALSE, 90, 90, 16, 0)}

Tried == [planning_strategy |-> {"adaptive"}, recovery_strategy |-> {"diagnose-retrieve-and-replan"},
          memory |-> {MemoryOff}, reviewers |-> {"of the graph", "none"}]

=============================================================================
