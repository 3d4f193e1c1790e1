\* Three documents with six profiles of signals, three links of evidence.
SPECIFICATION ScoringSpec
CONSTANTS
  Documents = {1, 2, 3}
  Profiles <- SomeProfiles
  Evidence = {1, 2, 3}
  Readings <- SomeReadings
  Scale = 4
  Most = 3
\* The computation ends.
CHECK_DEADLOCK FALSE
INVARIANTS GroupsAreComponents DependenceNeverAddsStrength EvidencePullsItsWay
