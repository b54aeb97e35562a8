SPECIFICATION Spec
CONSTANTS
  l1 = l1
  l2 = l2
  r1 = r1
  Requests <- OneRequest
  Harnesses = {"codex", "devin"}
  RemoteHarnesses = {"devin"}
  Executions <- OneExecution
  RemoteExecutions = {}
  SinkMayFail = TRUE
  MaxSessions = 1
  MaxTrail = 3
INVARIANTS TrailIsOrdered
CHECK_DEADLOCK FALSE
