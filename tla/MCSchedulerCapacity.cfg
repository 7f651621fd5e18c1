SPECIFICATION CapacitySpec
CONSTANTS
  Planners = {w, v}
  Followups = {f1}
  Candidates = {c1, c2}
  Notices = {}
  Cap <- MCCap
  Requests <- MCRequests
  Updates = {"INVALIDATED"}
  Updaters = {u}
  NoItem = NoItem
INVARIANTS
  CapsKept
  ItemsServed
PROPERTIES
  NeverReopened
CHECK_DEADLOCK FALSE
SYMMETRY Symmetric
