SPECIFICATION Spec
CONSTANTS
  k1 = k1  k2 = k2  d1 = d1  d2 = d2  ph = ph  fit = fit  owner = owner
  None = None
  Keys = {k1, k2}
  Domains = {d1}
  Imports <- MCImports
  Raw <- MCRaw
  Items <- MCItems
  Signals = {fit, owner}
  Weight <- MCWeight
  Exclusions = {}
  Gates = {owner}
  Fixtures <- MCFixtures
  Updates <- MCUpdates
  EmailItem <- MCEmail
  SiteFinds <- MCFinds
  Reviews <- MCReviews
  Quota = 2
  MaxAttempts = 2
  MaxReviews = 1
  MaxRaised = 1
  MaxCrashes = 1
CONSTRAINT OneMishap
INVARIANTS
  EvidenceSound
  QualifiedHasResult
  RetriesBounded
PROPERTIES
  RunSettles
  DoNotContactStands
CHECK_DEADLOCK FALSE
