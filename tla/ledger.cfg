\* A case in two versions, two tabs, one review command, two decisions.
SPECIFICATION Spec
CONSTANTS
  Cases = {a}
  Texts = {x, y}
  Tabs = {t1, t2}
  Clis = {k}
  Times = {1, 2}
  MinimumCases = 1
  MaxSent = 2
  MaxEdits = 1
  MaxLoads = 1
  Malformed = Malformed
  None = None
SYMMETRY Symmetry
INVARIANTS ApprovedMeansSeen LedgerStaysReadable ManifestHonoursRefusals
  LockIsInUse

\* Pages, decisions and edits are bounded: the instance comes to rest.
CHECK_DEADLOCK FALSE
