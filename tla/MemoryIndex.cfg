SPECIFICATION Spec
CONSTANTS
  p1 = p1
  p2 = p2
  m1 = m1
  m2 = m2
  m3 = m3
  None = None
  Legacy = Legacy
  Procs = {p1, p2}
  Clients <- AllClients
  Columns = {"lifecycle_state", "project"}
  Ids = {m1, m2, m3}
SYMMETRY Symmetry
INVARIANTS
  TypeOK
  MigrationsComplete
  IndexIsComplete
  SearchMissesOnlyForNewer
  SpacesNeverMix
CHECK_DEADLOCK FALSE
