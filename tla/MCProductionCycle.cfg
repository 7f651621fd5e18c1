CONSTANTS
  Keys = {"k1", "k2"}
  Domains = {"d1", "d2"}
  None = None
  Imports <- SomeImports
  p1 = p1
  p2 = p2
  Procs = {p1, p2}
  Runs = {"r1", "r2"}
  Handoffs <- SomeHandoffs
  ResearchCap = 1
  MaxClock = 2
  MaxCrashes = 1
SYMMETRY Same
SPECIFICATION Spec
INVARIANTS
  OneVerdict
  MessagesOnce
  ActiveInLane
  CompletedIsWhole
CHECK_DEADLOCK FALSE
