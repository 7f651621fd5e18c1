SPECIFICATION Spec
CONSTANTS
  s = s
  e = e
  other = other
  None = None
  Procs = {p1}
  Sends = {s}
  Edits = {e}
  ExternalIds <- MCExternalIds
  ExternalId <- MCExternalId
  MaxAttempts = 2
  MaxCrashes = 0
  MaxBreaks = 0
INVARIANT NeverDoubleDelivers
CHECK_DEADLOCK FALSE
