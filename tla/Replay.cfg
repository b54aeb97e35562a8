SPECIFICATION Spec
CONSTANTS
  local = local
  remote = remote
  b1 = b1
  b2 = b2
  Drivers = {local, remote}
  Remote = {remote}
  Baselines = {b1, b2}
  Metrics <- AllMetrics
  MaxLines = 2
INVARIANTS
  OutcomeIsReal
  StoreKeepsHistory
  ImprovedMeansNoLoss
PROPERTY EveryWaitEnds
CHECK_DEADLOCK FALSE
