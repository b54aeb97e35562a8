SPECIFICATION Spec
CONSTANTS
  Policy <- DefaultPolicy
  BasePolicies <- Bases
  Metrics <- Measurements
  Variants <- Tried
  MaxRounds = 2
INVARIANTS
  LineageIsGoverned
  RoundsDoNotErode
  MemoryFitsLevel
CHECK_DEADLOCK FALSE
