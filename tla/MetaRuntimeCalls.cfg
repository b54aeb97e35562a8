SPECIFICATION Spec
CONSTANTS
  l1 = l1
  r1 = r1
  r2 = r2
  Increments <- BothIncrements
  Reflections <- BothReflections
  GraphId = "feature"
  StoreMayFail = TRUE
  OperatorStatuses = {"retrying", "blocked"}
  Requests <- AllRequests
  Harnesses = {"codex", "devin"}
  RemoteHarnesses = {"devin"}
  Executions <- MixedExecutions
  RemoteExecutions <- RemoteOnes
  SinkMayFail = FALSE
  MaxSessions = 2
  MaxTrail = 11
SYMMETRY RemoteSymmetry
INVARIANTS TypeOK MemoryIsEarned SettledMeansLearned FeedbackIsOnTrail OutcomeStaysTrue
CHECK_DEADLOCK FALSE
