SPECIFICATION SourcesSpec
CONSTANTS
  k1 = k1  k2 = k2  d1 = d1
  None = None
  Keys = {k1, k2}
  Domains = {d1}
  Imports <- MCImports
  Procs = {p1, p2}
  Plan <- MCPlan
  Places <- MCPlaces
  Data <- MCData
  RequestCap = 3
  MaxRetries = 1
  RunCap = 1
  MaxConcurrent = 1
  MaxClock = 2
  MaxRemote = 3
  MaxDeaths = 1
SYMMETRY Symmetry
INVARIANTS
  SucceededWithinCap
  CompletedMeansWholePlan
  FetchedIsIngested
  RunsBounded
CHECK_DEADLOCK FALSE
