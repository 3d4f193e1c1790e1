\* One process, or two whose executions end before their leases; no row locks.
SPECIFICATION FairSpec
CONSTANTS
  w1 = w1 w2 = w2 w3 = w3
  r1 = r1 r2 = r2 u1 = u1 u2 = u2
  page = page other = other broken = broken
  Null = Null
  Jobs = {1, 2}
  Runs = {r1, r2}
  Urls = {u1, u2}
  Contents = {page}
  Unstorable = {}
  Workers = {w1, w2, w3}
  JobRun <- OwnRun
  JobUrl <- OwnUrl
  LegacyJobs = {}
  LeaseTicks = 2
  MaxLag = 1
  MaxProcesses = 2
  MaxCrashes = 1
  SkipLocked = FALSE
  Punctual = TRUE
\* The system rests when every job of the instance is settled.
CHECK_DEADLOCK FALSE
INVARIANTS ExclusiveExecution FailureLeavesNoDocument
PROPERTIES LiveLeaseKept EveryJobSettles
