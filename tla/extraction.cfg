\* Three requests for one document and one for another that names the same
\* entities.
SPECIFICATION FairSpec
CONSTANTS
  r1 = r1 r2 = r2 r3 = r3 r4 = r4 memo = memo brief = brief org = org
  a = a b = b
  Blank = Blank
  Malformed = Malformed
  Absent = Absent
  Requests = {r1, r2, r3, r4}
  KeyOf <- Key
  Outputs <- Answers
  Passages = {0}
  Kinds = {org}
  Names = {1, 2, 3, 4}
\* Every request of the instance ends.
CHECK_DEADLOCK FALSE
INVARIANTS TypeOK OnlyAcceptedOutputIsVisible DuplicatesOverlap
PROPERTIES AliasesYieldOnlyToStaleReads EveryRequestEnds
