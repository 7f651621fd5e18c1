SPECIFICATION Spec
CONSTANTS
  p1 = p1
  p2 = p2
  Procs = {p1, p2}
  Replies = {r1}
  Kinds <- MCKinds
  NoReply = NoReply
  MaxTouches = 3
  MaxCrashes = 1
SYMMETRY Symmetric
CONSTRAINT OverlapEarly
INVARIANTS
  RowsInStep
  AuditComplete
  OptOutSuppresses
PROPERTIES
  NoTouchAfterSuppression
CHECK_DEADLOCK FALSE
