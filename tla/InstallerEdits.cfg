SPECIFICATION Spec
CONSTANTS
  Paths <- MCPaths
  Releases <- TwoReleases
  Payload <- TwoPayloads
  Bridge = "bridge"
  Local = {"local"}
  MayStop = FALSE
PROPERTIES LocalEditsSurvive
CHECK_DEADLOCK FALSE
