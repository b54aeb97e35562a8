SPECIFICATION RunSpec
CONSTANTS
  Documents <- AllDocuments
  Updates <- Shipped
  Artifacts <- AllArtifacts
  Flags <- AllFlags
  MaxTrail = 3
INVARIANTS
  ReachabilityIsExact
  EveryStageCanBeRouted
  StageIsEarned
CHECK_DEADLOCK FALSE
