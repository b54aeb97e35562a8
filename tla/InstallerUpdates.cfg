SPECIFICATION Spec
CONSTANTS
  Paths <- MCPaths
  Releases <- MCReleases
  Payload <- MCPayload
  Bridge = "bridge"
  Local = {"local"}
  MayStop = TRUE
INVARIANTS TypeOK LockIsTrue UpdateConverges
PROPERTIES ReportedEditsSurvive
CHECK_DEADLOCK FALSE
