\* A page whose capture is refused; no process is killed.
SPECIFICATION FairSpec
CONSTANTS
  w1 = w1 w2 = w2 w3 = w3
  r1 = r1 r2 = r2 u1 = u1 u2 = u2
  page = page other = other broken = broken
  Null = Null
  Jobs = {1, 2}
  Runs = {r1}
  Urls = {u1}
  Contents = {broken}
  Unstorable = {broken}
  Workers = {w1, w2, w3}
  JobRun <- SameRun
  JobUrl <- SameUrl
  LegacyJobs = {}
  LeaseTicks = 2
  MaxLag = 1
  MaxProcesses = 1
  MaxCrashes = 0
  SkipLocked = TRUE
  Punctual = FALSE
\* The system rests when every job of the instance is settled.
CHECK_DEADLOCK FALSE
PROPERTIES EveryJobSettles
