\* Two reasonings, two report requests and two reviews over three claims.
SPECIFICATION Spec
CONSTANTS
  price = price demand = demand
  v1 = v1 v2 = v2 n1 = n1 n2 = n2 g1 = g1 g2 = g2
  Absent = Absent
  Claims = {1, 2, 3}
  KeyOf <- Key
  Certainty <- Sure
  Links = {1, 2, 3, 4, 5}
  Link <- Cites
  SignalsOf <- Carried
  Decisions <- SomeDecisions
  Reviews = {v1, v2}
  Reasonings = {n1, n2}
  Generators = {g1, g2}
  Pool = 2
  Scale = 4
  Most = 3
SYMMETRY Symmetry
\* Every request of the instance ends.
CHECK_DEADLOCK FALSE
INVARIANTS TypeOK LastReviewDecides ScoreCoversMembers ReportsCiteWhatWasScored
  OneReportPerState
