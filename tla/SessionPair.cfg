SPECIFICATION Spec
CONSTANTS
  l1 = l1
  l2 = l2
  r1 = r1
  Requests <- IncrementRequests
  Harnesses = {"codex", "devin"}
  RemoteHarnesses = {"devin"}
  Executions <- MCExecutions
  RemoteExecutions <- MCRemoteExecutions
  SinkMayFail = FALSE
  MaxSessions = 2
  MaxTrail = 4
SYMMETRY LocalSymmetry
INVARIANTS TypeOK TrailIsHistory ExecutionsAreOwned
PROPERTIES PlanNeverOverwrites
CHECK_DEADLOCK FALSE
