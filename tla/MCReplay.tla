------------------------------ MODULE MCReplay ------------------------------
(* Two drivers, one of them remote, replaying two baselines. *)
EXTENDS Replay

CONSTANTS local, remote, b1, b2

Judged(success, quality, cost, interventions) ==
  [success |-> success, quality |-> quality, cost |-> cost, interventions |-> interventions]

AllMetrics == {Judged(TRUE, 2, 1, 0), Judged(TRUE, 1, 2, 1), Judged(FALSE, 2, 0, 1)}

=============================================================================
