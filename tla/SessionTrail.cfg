SPECIFICATION FairSpec
CONSTANTS
  l1 = l1
  l2 = l2
  r1 = r1
  Requests <- AllRequests
  Harnesses = {"codex", "devin"}
  RemoteHarnesses = {"devin"}
  Executions <- MCExecutions
  RemoteExecutions <- MCRemoteExecutions
  SinkMayFail = FALSE
  MaxSessions = 1
  MaxTrail = 7
PROPERTIES LifecycleSpec WaitReturns
CHECK_DEADLOCK FALSE
