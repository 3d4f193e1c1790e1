-------------------------- MODULE MCConnectorQueue --------------------------
(* Instances of ConnectorQueue for TLC. *)
EXTENDS ConnectorQueue, TLC

CONSTANTS w1, w2, w3, r1, r2, u1, u2, page, other, broken

(* Two jobs of one run that ask for the same page.                          *)
SameRun == [j \in Jobs |-> r1]
SameUrl == [j \in Jobs |-> u1]

(* Every job has a page of its own; the runs alternate.                     *)
OwnUrl == [j \in Jobs |-> IF j = 1 THEN u1 ELSE u2]
OwnRun == [j \in Jobs |-> IF j = 1 THEN r1 ELSE r2]

WorkerSymmetry == Permutations(Workers)
=============================================================================
