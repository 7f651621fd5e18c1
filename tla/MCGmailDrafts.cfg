SPECIFICATION Spec
CONSTANTS
  None = None
  Procs = {p1, p2}
  Drafts = {x1, x2}
  Cap = 1
  MaxDay = 2
  MaxAttempts = 2
  MaxCrashes = 1
SYMMETRY MCSymmetry
CONSTRAINT OverlapOnOneDraft
INVARIANTS
  DraftsAccounted
PROPERTIES
  NoSecondDraft
CHECK_DEADLOCK FALSE
