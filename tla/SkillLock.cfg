SPECIFICATION Spec
CONSTANTS
  p1 = p1
  p2 = p2
  a = a
  b = b
  NoRef = NoRef
  Procs = {p1, p2}
  Offline = {p2}
  Refs = {a, b}
  Optional = {b}
  MaxRevision = 2
  MaxCommands = 3
INVARIANTS
  TypeOK
  LockedIsGenuine
  HandedOutIsLocked
PROPERTIES
  PinsMoveOnlyByUpdate
CHECK_DEADLOCK FALSE
