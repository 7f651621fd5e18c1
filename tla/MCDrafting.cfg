CONSTANTS
  v1 = v1
  v2 = v2
  Revisions = {v1, v2}
  Sections = {"icp", "offer"}
  Recalls <- SomeRecalls
  Evidence = {"e"}
  Outputs <- SomeOutputs
  Offers = {"immediate", "later"}
  MaxPackets = 2
  None = None
  p1 = p1
  p2 = p2
  Procs = {p1, p2}
  MaxAttempts = 2
  DailyCap = 2
  MaxRuns = 2
  MaxRequests = 1
  MaxCrashes = 1
SYMMETRY Same
CONSTRAINTS FewCalls OffersFirst PartsFirst OneObstacle OneRunShared
SPECIFICATION Spec
INVARIANTS
  OneReadyPacket
  CallsBounded
  VersionsInOrder
PROPERTIES
  ReviewKept
CHECK_DEADLOCK FALSE
