\* One or two worker processes, two jobs for one page and a legacy row, row locks.
SPECIFICATION Spec
CONSTANTS
  w1 = w1 w2 = w2 w3 = w3
  r1 = r1 r2 = r2 u1 = u1 u2 = u2
  page = page other = other broken = broken
  Null = Null
  Jobs = {1, 2, 3}
  Runs = {r1}
  Urls = {u1}
  Contents = {page, other, broken}
  Unstorable = {broken}
  Workers = {w1, w2, w3}
  JobRun <- SameRun
  JobUrl <- SameUrl
  LegacyJobs = {3}
  LeaseTicks = 2
  MaxLag = 1
  MaxProcesses = 2
  MaxCrashes = 1
  SkipLocked = TRUE
  Punctual = FALSE
SYMMETRY WorkerSymmetry
\* The system rests when every job of the instance is settled.
CHECK_DEADLOCK FALSE
INVARIANTS TypeOK OwnerAccountable RunFollowsJobs ReportsOwnEvidence
PROPERTIES OnlyOwnerSettles ImplementsBoard
