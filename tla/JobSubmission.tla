---------------------------- MODULE JobSubmission ----------------------------
(***************************************************************************)
(* Concurrent submissions of connector jobs:                               *)
(*   backend/app/services/connector_jobs.py  create_connector_job          *)
(*   backend/app/api/routes/connectors.py    create_public_web_connector_job*)
(*                                                                         *)
(* Each request is served by a task and a session of its own: it looks the *)
(* key up, then inserts and commits a row.  When the unique constraint on  *)
(* (run_id, connector, idempotency_hash) refuses the row, the rollback     *)
(* expires every row the session has loaded, the run among them; the next  *)
(* line reads run.id, which an AsyncSession cannot load again outside an   *)
(* await, and the exception ends the request.  The second lookup that is   *)
(* written there is never issued.                                          *)
(* Rows are named by the request that inserted them and are never deleted, *)
(* so an insert without a key never fails.                                 *)
(***************************************************************************)
CONSTANTS Requests, RunOf, KeyOf, HashOf, Null

VARIABLES
  jobs,       \* committed rows
  pc,         \* request -> where its task is
  decision,   \* request -> what create_connector_job returned or raised, if it did
  heard       \* history: request -> the requests that had ended when it looked its key up

vars == <<jobs, pc, decision, heard>>

Created(q) == [kind |-> "created", job |-> q]
Existing(r) == [kind |-> "existing", job |-> r]
Conflict == [kind |-> "conflict", job |-> Null]
Undecided == [kind |-> "undecided", job |-> Null]

(* MissingGreenlet, which nothing handles: the client is sent a 500, where  *)
(* docs/14_PUBLIC_WEB_CONNECTOR.md:35-37 promises the job or a 409.         *)
Failed == [kind |-> "failed", job |-> Null]

Places == {"lookup", "insert", "reply", "answered", "failed", "lost"}

(* Places at which the client has an answer, even if it is a 500.          *)
Ended(q) == pc[q] \in {"answered", "failed"}

SameKey(p, q) == KeyOf[p] # Null /\ KeyOf[p] = KeyOf[q] /\ RunOf[p] = RunOf[q]

(* Mutant: the lookup also asks for the hash of the payload.               *)
FindSameRequest(q) == {r \in jobs : SameKey(r, q) /\ HashOf[r] = HashOf[q]}

(* _find_idempotent_job: rows of the run with the key's hash.              *)
FindIdempotent(q) == {r \in jobs : SameKey(r, q)}

Init ==
  /\ jobs = {}
  /\ pc = [q \in Requests |-> "lookup"]
  /\ decision = [q \in Requests |-> Undecided]
  /\ heard = [q \in Requests |-> {}]

(* Mutants: the payload is not compared, a conflict discloses the job, or   *)
(* the constraint is missing.                                              *)
TrustKey(q, r) == Existing(r)
DisclosingConflict(q, r) ==
  IF HashOf[r] = HashOf[q] THEN Existing(r) ELSE [Conflict EXCEPT !.job = r]
NoConstraint(q) == {}

(* What a request is told when the key already has the job r.              *)
Verdict(q, r) == IF HashOf[r] = HashOf[q] THEN Existing(r) ELSE Conflict

(* uq_connector_job_idempotency; a NULL hash equals no other.              *)
Violations(q) == {r \in jobs : SameKey(r, q)}

Lookup(q) ==
  /\ pc[q] = "lookup"
  /\ heard' = [heard EXCEPT ![q] = {p \in Requests : Ended(p)}]

LookupFound(q) ==
  /\ Lookup(q)
  /\ \E r \in FindIdempotent(q) : decision' = [decision EXCEPT ![q] = Verdict(q, r)]
  /\ pc' = [pc EXCEPT ![q] = "reply"]
  /\ UNCHANGED jobs

LookupMissed(q) ==
  /\ Lookup(q)
  /\ FindIdempotent(q) = {}
  /\ pc' = [pc EXCEPT ![q] = "insert"]
  /\ UNCHANGED <<jobs, decision>>

InsertCommitted(q) ==
  /\ pc[q] = "insert"
  /\ Violations(q) = {}
  /\ jobs' = jobs \cup {q}
  /\ decision' = [decision EXCEPT ![q] = Created(q)]
  /\ pc' = [pc EXCEPT ![q] = "reply"]
  /\ UNCHANGED heard

(* The commit is refused, the session rolled back, and run.id raises.      *)
InsertRefused(q) ==
  /\ pc[q] = "insert"
  /\ Violations(q) # {}
  /\ decision' = [decision EXCEPT ![q] = Failed]
  /\ pc' = [pc EXCEPT ![q] = "failed"]
  /\ UNCHANGED <<jobs, heard>>

(* The row is read again and the response is sent.                         *)
Reply(q) ==
  /\ pc[q] = "reply"
  /\ pc' = [pc EXCEPT ![q] = "answered"]
  /\ UNCHANGED <<jobs, decision, heard>>

(* The connection or the API process is lost; a committed row remains.     *)
Lose(q) ==
  /\ ~Ended(q) /\ pc[q] # "lost"
  /\ pc' = [pc EXCEPT ![q] = "lost"]
  /\ UNCHANGED <<jobs, decision, heard>>

Serve(q) ==
  \/ LookupFound(q) \/ LookupMissed(q)
  \/ InsertCommitted(q) \/ InsertRefused(q)
  \/ Reply(q)

Next == \E q \in Requests : Serve(q) \/ Lose(q)

Spec == Init /\ [][Next]_vars

-----------------------------------------------------------------------------
(* Every variable has its type; a conflict and a failure disclose no job.  *)
TypeOK ==
  /\ jobs \subseteq Requests
  /\ pc \in [Requests -> Places]
  /\ decision \in [Requests -> {Undecided, Conflict, Failed}
                                 \cup {Created(r) : r \in Requests}
                                 \cup {Existing(r) : r \in Requests}]
  /\ heard \in [Requests -> SUBSET Requests]

(* Clients that are answered with a job for one key are told of one and    *)
(* the same job, and asked for the same thing, whichever of their requests *)
(* raced, were lost after the commit or failed in between; a request that  *)
(* failed with a 500 is told of no job (create_connector_job).             *)
OneJobPerKey ==
  \A p, q \in Requests :
    /\ pc[p] = "answered" /\ pc[q] = "answered"
    /\ SameKey(p, q)
    /\ decision[p] # Conflict /\ decision[q] # Conflict
    => decision[p].job = decision[q].job /\ HashOf[p] = HashOf[q]

(* Failing takes a race.  A request that looks its key up after an earlier *)
(* one with that key had ended, even if with a 500 or a conflict, neither  *)
(* creates a job nor fails: it is told of the job of the key, or of the    *)
(* conflict with it (_find_idempotent_job before the insert).  So a client *)
(* that repeats a request after a 500 has the answer with one more try.    *)
RepeatsFindTheJob ==
  \A p, q \in Requests :
    p \in heard[q] /\ SameKey(p, q) /\ Ended(q) =>
      /\ pc[q] = "answered"
      /\ \E r \in jobs : SameKey(r, q) /\ decision[q] = Verdict(q, r)

(* The tasks together behave as if each request were decided at once: with *)
(* a job, a conflict or, for a key that has a job, a failure that changes  *)
(* nothing.                                                                *)
Atomic == INSTANCE IdempotentSubmission

ImplementsAtomic == Atomic!Spec

=============================================================================
