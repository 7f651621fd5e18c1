SPECIFICATION Spec
CONSTANTS
  s = s
  e = e
  other = other
  None = None
  Procs = {p1, p2}
  Sends = {s}
  Edits = {e}
  ExternalIds <- MCExternalIds
  ExternalId <- MCExternalId
  MaxAttempts = 2
  MaxCrashes = 2
  MaxBreaks = 2
INVARIANTS
  DeliveriesAccounted
PROPERTIES
  OutcomeStands
CHECK_DEADLOCK FALSE
