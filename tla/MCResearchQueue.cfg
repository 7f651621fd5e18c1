SPECIFICATION Spec
CONSTANTS
  Procs = {p1, p2}
  Candidates <- MCCandidates
  Handoffs <- MCHandoffs
  HandoffOf <- MCHandoffOf
  Researched <- MCResearched
  Sought <- MCSought
  Saved = Saved
  Nobody = Nobody
  Cap = 2
  MaxDay = 2
INVARIANTS
  BatchesInBounds
  LedgerMatchesAnswers
PROPERTIES
  ResearchStands
CHECK_DEADLOCK FALSE
SYMMETRY Symmetric
