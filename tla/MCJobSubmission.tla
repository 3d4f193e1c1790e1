--------------------------- MODULE MCJobSubmission ---------------------------
(* Instances of JobSubmission for TLC: a request, its retry, a request that *)
(* reuses the key for another payload, one in another run, one without key. *)
EXTENDS JobSubmission

CONSTANTS first, retry, reuse, elsewhere, keyless, r1, r2, k1, h1, h2

Runs == [q \in Requests |-> IF q = elsewhere THEN r2 ELSE r1]
Keys == [q \in Requests |-> IF q = keyless THEN Null ELSE k1]
Hashes == [q \in Requests |-> IF q = reuse THEN h2 ELSE h1]
=============================================================================
