------------------------- MODULE IdempotentSubmission -------------------------
(***************************************************************************)
(* What a client of POST /runs/{id}/connector-jobs may rely on: every      *)
(* request is decided in one indivisible step.  A request without a key    *)
(* creates a job; of the requests with one key in one run the first        *)
(* creates a job, and a later one gets that job if it asks for the same    *)
(* thing and a conflict if not.  A later one may also fail, and then       *)
(* nothing has changed; a request whose key has no job never fails.        *)
(***************************************************************************)
CONSTANTS
  Requests,   \* requests received, retries included
  RunOf,      \* request -> the run it submits to
  KeyOf,      \* request -> its Idempotency-Key, or Null
  HashOf,     \* request -> the hash of its payload
  Null

VARIABLES
  jobs,       \* the requests that created a job: the job is named by its creator
  decision    \* request -> what it was decided to be answered, if it was

vars == <<jobs, decision>>

Created(q) == [kind |-> "created", job |-> q]
Existing(r) == [kind |-> "existing", job |-> r]
Conflict == [kind |-> "conflict", job |-> Null]
Undecided == [kind |-> "undecided", job |-> Null]
Failed == [kind |-> "failed", job |-> Null]

(* The job that the key of a request stands for.                           *)
Rivals(q) == {r \in jobs : KeyOf[q] # Null /\ KeyOf[r] = KeyOf[q] /\ RunOf[r] = RunOf[q]}

Verdict(q, r) == IF HashOf[r] = HashOf[q] THEN Existing(r) ELSE Conflict

Init ==
  /\ jobs = {}
  /\ decision = [q \in Requests |-> Undecided]

Create(q) ==
  /\ decision[q] = Undecided
  /\ Rivals(q) = {}
  /\ jobs' = jobs \cup {q}
  /\ decision' = [decision EXCEPT ![q] = Created(q)]

Recall(q) ==
  /\ decision[q] = Undecided
  /\ \E r \in Rivals(q) : decision' = [decision EXCEPT ![q] = Verdict(q, r)]
  /\ UNCHANGED jobs

Fail(q) ==
  /\ decision[q] = Undecided
  /\ Rivals(q) # {}
  /\ decision' = [decision EXCEPT ![q] = Failed]
  /\ UNCHANGED jobs

Next == \E q \in Requests : Create(q) \/ Recall(q) \/ Fail(q)

Spec == Init /\ [][Next]_vars
=============================================================================
