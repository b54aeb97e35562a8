SPECIFICATION Spec
CONSTANTS
  c1 = c1
  c2 = c2
  m1 = m1
  r1 = r1
  r2 = r2
  r3 = r3
  Clients <- ClientPair
  Curators <- OneCurator
  Memories <- OneMemory
  Retrievals <- ThreeRetrievals
  SharedFeedback = FALSE
  Queries <- DefaultAndAny
  TopK = 1
  TrustAfterUses = 2
SYMMETRY TripleSymmetry
INVARIANTS TypeOK UsesMatchFeedback RecallStaysUsable
PROPERTIES RejectionIsFinal
CHECK_DEADLOCK FALSE
