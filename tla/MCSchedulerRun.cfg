SPECIFICATION FairSpec
CONSTANTS
  Procs = {p1, p2}
  Jobs <- MCJobs
  FollowupJobs <- MCFollowupJobs
  NoJob = NoJob
  MaxAttempts = 2
  TTL = 1
  MaxTime = 2
  MaxCrashes = 2
  MaxTries = 2
  MaxIntrusions = 1
CONSTRAINT TwoMishaps
INVARIANTS
  OneExecutor
  JobsInOrder
PROPERTIES
  DayRecovers
  ImplementsLedger
CHECK_DEADLOCK FALSE
