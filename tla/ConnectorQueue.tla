--------------------------- MODULE ConnectorQueue ---------------------------
(***************************************************************************)
(* The durable connector queue and its workers:                            *)
(*   backend/app/services/connector_jobs.py  claim and finish of a job row *)
(*   backend/app/workers/connector.py        the worker process            *)
(*   backend/app/services/storage.py         the capture a worker commits  *)
(*                                           in a transaction of its own   *)
(*                                                                         *)
(* Time is relative.  lease_left[j] is lease_expires_at - now in ticks and *)
(* lag[w] is now - claimed_at for a worker inside its claim transaction,   *)
(* so "lease_expires_at <= claimed_at" is lease_left[j] <= -lag[w].  The   *)
(* only comparisons the code makes are of this kind; lease_left is kept    *)
(* no lower than -MaxLag, below which they all have the same answer.       *)
(*                                                                         *)
(* A worker identity is a hostname and a fresh uuid for each process.  An  *)
(* element of Workers stands for one identity; it may be taken by a new    *)
(* process only when no row of the table mentions it, which is all a fresh *)
(* identity means to this code.                                            *)
(***************************************************************************)
EXTENDS Integers, FiniteSets

CONSTANTS
  Jobs,            \* job rows; the numeric order is (available_at, created_at, id)
  Runs,            \* analysis runs
  Urls,            \* page URLs; each stands for one source identity as well
  Contents,        \* extracted page contents
  Unstorable,      \* contents that the DocumentCapture payload rejects
  Workers,         \* worker identities
  JobRun,          \* job -> run_id
  JobUrl,          \* job -> the page it asks for
  LegacyJobs,      \* rows of before the worker: no recoverable payload
  LeaseTicks,      \* connector_worker_lease_seconds
  MaxLag,          \* bound: ticks a claim transaction may last
  MaxProcesses,    \* bound: worker processes a deployment runs
  MaxCrashes,      \* bound: processes killed from outside
  SkipLocked,      \* TRUE: FOR UPDATE SKIP LOCKED (PostgreSQL); FALSE: no row locks (SQLite)
  Punctual,        \* TRUE: where several processes run, executions end before their leases
  Null

ASSUME JobsAssumption ==
  /\ Jobs \subseteq Nat
  /\ JobRun \in [Jobs -> Runs]
  /\ JobUrl \in [Jobs -> Urls]
  /\ LegacyJobs \subseteq Jobs

ASSUME ContentsAssumption == Unstorable \subseteq Contents

ASSUME LeaseAssumption ==
  /\ MaxLag \in Nat
  /\ LeaseTicks \in Nat
  /\ LeaseTicks > MaxLag
  /\ MaxCrashes \in Nat
  /\ MaxProcesses \in Nat

ASSUME WorkersAssumption == IsFiniteSet(Workers)

ASSUME FlagsAssumption ==
  /\ SkipLocked \in BOOLEAN
  /\ Punctual \in BOOLEAN

ASSUME NullAssumption ==
  /\ Null \notin Jobs
  /\ Null \notin Workers
  /\ Null \notin [run : Runs, url : Urls, content : Contents]

VARIABLES
  status,          \* job -> connector_jobs.status, or "absent" before the insert
  lease_owner,     \* job -> connector_jobs.lease_owner
  lease_left,      \* job -> lease_expires_at - now
  document_id,     \* job -> connector_jobs.document_id
  run_state,       \* run -> analysis_runs.state
  documents,       \* rows of documents, by their unique key
  pc,              \* worker -> where its process is
  held,            \* worker -> the job it selected or executes
  lag,             \* worker -> age of its claimed_at
  outcome,         \* worker -> status of its WebConnectorOutcome
  document,        \* worker -> the document it captures, or captured
  source_seen,     \* worker -> its capture found the source row
  crashes,         \* processes killed so far
  deployed         \* processes the deployment runs; it never changes

rowVars == <<status, lease_owner, lease_left, document_id>>
tableVars == <<rowVars, run_state, documents>>
localVars == <<held, lag, outcome, document, source_seen>>
vars == <<status, lease_owner, lease_left, document_id, run_state, documents,
          pc, held, lag, outcome, document, source_seen, crashes, deployed>>

(* uq_document_capture: run, canonical URL and content hash.               *)
Documents == [run : Runs, url : Urls, content : Contents]

Failures == {"blocked", "unavailable"}
Terminal == {"succeeded"} \cup Failures
Statuses == {"absent", "queued", "running"} \cup Terminal

Executing == {"collect", "capture", "store", "finish"}
Places == {"down", "idle", "claiming"} \cup Executing

Capture(j, c) == [run |-> JobRun[j], url |-> JobUrl[j], content |-> c]

(* A source row is inserted with the first document of the source.         *)
SourceKnown(u) == \E d \in documents : d.url = u

Live(w) == pc[w] # "down"

Init ==
  /\ status = [j \in Jobs |-> "absent"]
  /\ lease_owner = [j \in Jobs |-> Null]
  /\ lease_left = [j \in Jobs |-> 0]
  /\ document_id = [j \in Jobs |-> Null]
  /\ run_state = [r \in Runs |-> "queued"]
  /\ documents = {}
  /\ pc = [w \in Workers |-> "down"]
  /\ held = [w \in Workers |-> Null]
  /\ lag = [w \in Workers |-> 0]
  /\ outcome = [w \in Workers |-> Null]
  /\ document = [w \in Workers |-> Null]
  /\ source_seen = [w \in Workers |-> FALSE]
  /\ crashes = 0
  /\ deployed \in 1 .. MaxProcesses

(***************************************************************************)
(* The API commits a queued row (JobSubmission refines this action).       *)
(***************************************************************************)
Submit(j) ==
  /\ status[j] = "absent"
  /\ status' = [status EXCEPT ![j] = "queued"]
  /\ UNCHANGED <<lease_owner, lease_left, document_id, run_state, documents, pc, localVars, crashes, deployed>>

(***************************************************************************)
(* Processes.  Everything a worker knows is lost when its process ends.    *)
(***************************************************************************)
(* Mutant: the identity is the hostname alone, so it comes back. *)
StartUnderOldName(w) ==
  /\ pc[w] = "down"
  /\ Cardinality({v \in Workers : Live(v)}) < deployed
  /\ pc' = [pc EXCEPT ![w] = "idle"]
  /\ UNCHANGED <<tableVars, localVars, crashes, deployed>>

Start(w) ==
  /\ pc[w] = "down"
  /\ \A j \in Jobs : lease_owner[j] # w
  /\ Cardinality({v \in Workers : Live(v)}) < deployed
  /\ pc' = [pc EXCEPT ![w] = "idle"]
  /\ UNCHANGED <<tableVars, localVars, crashes, deployed>>

Exit(w) ==
  /\ pc' = [pc EXCEPT ![w] = "down"]
  /\ held' = [held EXCEPT ![w] = Null]
  /\ lag' = [lag EXCEPT ![w] = 0]
  /\ outcome' = [outcome EXCEPT ![w] = Null]
  /\ document' = [document EXCEPT ![w] = Null]
  /\ source_seen' = [source_seen EXCEPT ![w] = FALSE]

(* A process may be killed at any await; its open transaction rolls back.  *)
Crash(w) ==
  /\ Live(w)
  /\ crashes < MaxCrashes
  /\ crashes' = crashes + 1
  /\ Exit(w)
  /\ UNCHANGED <<tableVars, deployed>>

(***************************************************************************)
(* Claiming: select a candidate, then a guarded UPDATE.                    *)
(***************************************************************************)
(* Mutants: running rows are claimable before their lease expires, never,  *)
(* or whatever their status is.                                            *)
ClaimableUnexpired(j, age) == status[j] \in {"queued", "running"}
ClaimableQueued(j, age) == status[j] = "queued"
ClaimableExpired(j, age) == status[j] # "absent" /\ lease_left[j] <= -age

Claimable(j, age) ==
  \/ status[j] = "queued"
  \/ status[j] = "running" /\ lease_left[j] <= -age

Locked(j) == SkipLocked /\ \E w \in Workers : pc[w] = "claiming" /\ held[w] = j

Before(j, k) ==
  \/ status[j] = "queued" /\ status[k] # "queued"
  \/ (status[j] = "queued" <=> status[k] = "queued") /\ j < k

ClaimSelect(w) ==
  /\ pc[w] = "idle"
  /\ LET candidates == {j \in Jobs : Claimable(j, 0) /\ ~Locked(j)}
     IN \E j \in candidates :
          /\ \A k \in candidates \ {j} : Before(j, k)
          /\ held' = [held EXCEPT ![w] = j]
  /\ pc' = [pc EXCEPT ![w] = "claiming"]
  /\ UNCHANGED <<tableVars, lag, outcome, document, source_seen, crashes, deployed>>

(* Mutant: the UPDATE trusts the select and does not repeat its condition. *)
SelectedSuffices(w) == TRUE

StillClaimable(w) == Claimable(held[w], lag[w])

(* Mutant: the run is left as it was. *)
RunUntouched(j) == run_state

RunAfterClaim(j) ==
  [run_state EXCEPT ![JobRun[j]] = IF @ = "queued" THEN "collecting" ELSE @]

(* The row and its run are updated in one transaction.                     *)
ClaimUpdate(w) ==
  /\ pc[w] = "claiming"
  /\ StillClaimable(w)
  /\ LET j == held[w] IN
       /\ status' = [status EXCEPT ![j] = "running"]
       /\ lease_owner' = [lease_owner EXCEPT ![j] = w]
       /\ lease_left' = [lease_left EXCEPT ![j] = LeaseTicks - lag[w]]
       /\ run_state' = RunAfterClaim(j)
  /\ pc' = [pc EXCEPT ![w] = "collect"]
  /\ lag' = [lag EXCEPT ![w] = 0]
  /\ UNCHANGED <<document_id, documents, held, outcome, document, source_seen, crashes, deployed>>

(* Another worker was faster: the UPDATE matches no row, run_once idles.   *)
ClaimMissed(w) ==
  /\ pc[w] = "claiming"
  /\ ~StillClaimable(w)
  /\ pc' = [pc EXCEPT ![w] = "idle"]
  /\ held' = [held EXCEPT ![w] = Null]
  /\ lag' = [lag EXCEPT ![w] = 0]
  /\ UNCHANGED <<tableVars, outcome, document, source_seen, crashes, deployed>>

(***************************************************************************)
(* Execution, outside any transaction until the capture.                   *)
(***************************************************************************)
CollectPage(w) ==
  /\ pc[w] = "collect"
  /\ held[w] \notin LegacyJobs
  /\ \E c \in Contents : document' = [document EXCEPT ![w] = Capture(held[w], c)]
  /\ outcome' = [outcome EXCEPT ![w] = "succeeded"]
  /\ pc' = [pc EXCEPT ![w] = "capture"]
  /\ UNCHANGED <<tableVars, held, lag, source_seen, crashes, deployed>>

(* A blocked or unavailable page, an exception of collect(), or a row that *)
(* has no payload to collect.                                              *)
CollectNothing(w) ==
  /\ pc[w] = "collect"
  /\ \E f \in Failures :
       /\ held[w] \in LegacyJobs => f = "unavailable"
       /\ outcome' = [outcome EXCEPT ![w] = f]
  /\ pc' = [pc EXCEPT ![w] = "finish"]
  /\ UNCHANGED <<tableVars, held, lag, document, source_seen, crashes, deployed>>

(* The payload is not a valid DocumentCapture (a title of over 500         *)
(* characters, a character the database refuses): nothing catches the      *)
(* error, and it ends the process.                                         *)
CaptureRejected(w) ==
  /\ pc[w] = "capture"
  /\ document[w].content \in Unstorable
  /\ Exit(w)
  /\ UNCHANGED <<tableVars, crashes, deployed>>

(* apply_publisher_family refuses the declared family of a known source.   *)
CaptureConflict(w) ==
  /\ pc[w] = "capture"
  /\ document[w].content \notin Unstorable
  /\ SourceKnown(document[w].url)
  /\ outcome' = [outcome EXCEPT ![w] = "unavailable"]
  /\ document' = [document EXCEPT ![w] = Null]
  /\ pc' = [pc EXCEPT ![w] = "finish"]
  /\ UNCHANGED <<tableVars, held, lag, source_seen, crashes, deployed>>

CaptureDuplicate(w) ==
  /\ pc[w] = "capture"
  /\ document[w].content \notin Unstorable
  /\ document[w] \in documents
  /\ pc' = [pc EXCEPT ![w] = "finish"]
  /\ UNCHANGED <<tableVars, localVars, crashes, deployed>>

CaptureLookup(w) ==
  /\ pc[w] = "capture"
  /\ document[w].content \notin Unstorable
  /\ document[w] \notin documents
  /\ source_seen' = [source_seen EXCEPT ![w] = SourceKnown(document[w].url)]
  /\ pc' = [pc EXCEPT ![w] = "store"]
  /\ UNCHANGED <<tableVars, held, lag, outcome, document, crashes, deployed>>

(* Some other capture inserted the same document, or the same new source,  *)
(* after the lookup: a unique constraint fails.                            *)
Collides(w) ==
  \/ document[w] \in documents
  \/ ~source_seen[w] /\ SourceKnown(document[w].url)

(* Mutant: the capture is flushed but not committed. *)
CaptureFlushed(w) ==
  /\ pc[w] = "store"
  /\ ~Collides(w)
  /\ pc' = [pc EXCEPT ![w] = "finish"]
  /\ UNCHANGED <<tableVars, localVars, crashes, deployed>>

CaptureStore(w) ==
  /\ pc[w] = "store"
  /\ ~Collides(w)
  /\ documents' = documents \cup {document[w]}
  /\ pc' = [pc EXCEPT ![w] = "finish"]
  /\ UNCHANGED <<rowVars, run_state, held, lag, outcome, document, source_seen, crashes, deployed>>

(* The IntegrityError is not caught, and it ends the process.              *)
CaptureCollision(w) ==
  /\ pc[w] = "store"
  /\ Collides(w)
  /\ Exit(w)
  /\ UNCHANGED <<tableVars, crashes, deployed>>

(***************************************************************************)
(* The terminal update: only where the worker still owns the running row;  *)
(* the expiry of the lease is not consulted.  Then run_forever goes on.    *)
(***************************************************************************)
(* Mutant: the terminal update asks only whether the row is running. *)
OwnsRunning(w, j) == status[j] = "running"

Owns(w, j) == status[j] = "running" /\ lease_owner[j] = w

(* Mutant: the worker goes back to polling with its last job still held. *)
RestHolding(w) ==
  /\ pc' = [pc EXCEPT ![w] = "idle"]
  /\ outcome' = [outcome EXCEPT ![w] = Null]
  /\ document' = [document EXCEPT ![w] = Null]
  /\ source_seen' = [source_seen EXCEPT ![w] = FALSE]
  /\ UNCHANGED held

Rest(w) ==
  /\ pc' = [pc EXCEPT ![w] = "idle"]
  /\ held' = [held EXCEPT ![w] = Null]
  /\ outcome' = [outcome EXCEPT ![w] = Null]
  /\ document' = [document EXCEPT ![w] = Null]
  /\ source_seen' = [source_seen EXCEPT ![w] = FALSE]

Finish(w) ==
  /\ pc[w] = "finish"
  /\ ~Locked(held[w])
  /\ Owns(w, held[w])
  /\ LET j == held[w] IN
       /\ status' = [status EXCEPT ![j] = outcome[w]]
       /\ document_id' = [document_id EXCEPT ![j] = document[w]]
       /\ lease_owner' = [lease_owner EXCEPT ![j] = Null]
       /\ lease_left' = [lease_left EXCEPT ![j] = 0]
  /\ Rest(w)
  /\ UNCHANGED <<run_state, documents, lag, crashes, deployed>>

LeaseLost(w) ==
  /\ pc[w] = "finish"
  /\ ~Locked(held[w])
  /\ ~Owns(w, held[w])
  /\ Rest(w)
  /\ UNCHANGED <<tableVars, lag, crashes, deployed>>

(***************************************************************************)
(* One tick of the clock.                                                  *)
(***************************************************************************)
InTime(w) == pc[w] \in Executing /\ lease_owner[held[w]] = w => lease_left[held[w]] > 1

Tick ==
  /\ \E j \in Jobs : status[j] = "running" /\ lease_left[j] > -MaxLag
  /\ \A w \in Workers : pc[w] = "claiming" => lag[w] < MaxLag
  /\ Punctual /\ deployed > 1 => \A w \in Workers : InTime(w)
  /\ lease_left' = [j \in Jobs |-> IF status[j] = "running" /\ lease_left[j] > -MaxLag
                                   THEN lease_left[j] - 1 ELSE lease_left[j]]
  /\ lag' = [w \in Workers |-> IF pc[w] = "claiming" THEN lag[w] + 1 ELSE lag[w]]
  /\ UNCHANGED <<status, lease_owner, document_id, run_state, documents,
                 pc, held, outcome, document, source_seen, crashes, deployed>>

Claim(w) == ClaimSelect(w) \/ ClaimUpdate(w) \/ ClaimMissed(w)

Execute(w) ==
  \/ CollectPage(w) \/ CollectNothing(w)
  \/ CaptureRejected(w) \/ CaptureConflict(w) \/ CaptureDuplicate(w)
  \/ CaptureLookup(w) \/ CaptureStore(w) \/ CaptureCollision(w)
  \/ Finish(w) \/ LeaseLost(w)

Next ==
  \/ \E j \in Jobs : Submit(j)
  \/ \E w \in Workers : Start(w) \/ Crash(w) \/ Claim(w) \/ Execute(w)
  \/ Tick

Spec == Init /\ [][Next]_vars

(* A dead worker is started again, a live one takes its steps, time passes. *)
FairSpec ==
  /\ Spec
  /\ WF_vars(\E w \in Workers : Start(w))
  /\ \A w \in Workers : WF_vars(Claim(w) \/ Execute(w))
  /\ WF_vars(Tick)

-----------------------------------------------------------------------------
(* Every variable has its type, and a worker outside a step knows nothing. *)
TypeOK ==
  /\ status \in [Jobs -> Statuses]
  /\ lease_owner \in [Jobs -> Workers \cup {Null}]
  /\ lease_left \in [Jobs -> -MaxLag .. LeaseTicks]
  /\ document_id \in [Jobs -> Documents \cup {Null}]
  /\ run_state \in [Runs -> {"queued", "collecting"}]
  /\ documents \subseteq Documents
  /\ pc \in [Workers -> Places]
  /\ held \in [Workers -> Jobs \cup {Null}]
  /\ lag \in [Workers -> 0 .. MaxLag]
  /\ outcome \in [Workers -> Terminal \cup {Null}]
  /\ document \in [Workers -> Documents \cup {Null}]
  /\ source_seen \in [Workers -> BOOLEAN]
  /\ crashes \in 0 .. MaxCrashes
  /\ deployed \in 1 .. MaxProcesses
  /\ \A w \in Workers : held[w] = Null <=> pc[w] \in {"down", "idle"}

(* A row is owned exactly while it is running, and its owner, unless its    *)
(* process is gone, is executing that row.  So the owner column alone is    *)
(* enough for finish_connector_job to tell the current claim from a stale   *)
(* one, whatever reclaims, crashes and restarts came in between.            *)
OwnerAccountable ==
  \A j \in Jobs :
    /\ status[j] = "running" <=> lease_owner[j] # Null
    /\ status[j] = "running" =>
         LET w == lease_owner[j]
         IN Live(w) => pc[w] \in Executing /\ held[w] = j

(* A run has left "queued" exactly when some job of it was ever claimed,    *)
(* however claims of several jobs of the run interleave.                    *)
RunFollowsJobs ==
  \A r \in Runs :
    run_state[r] = "collecting" <=>
      \E j \in Jobs : JobRun[j] = r /\ status[j] \notin {"absent", "queued"}

(* The document a worker is about to report was collected for its own job   *)
(* and is stored, or its outcome is a failure that names no document.       *)
ReportsOwnEvidence ==
  \A w \in Workers :
    pc[w] = "finish" =>
      IF outcome[w] = "succeeded"
      THEN /\ document[w] \in documents
           /\ document[w] \in {Capture(held[w], c) : c \in Contents \ Unstorable}
      ELSE outcome[w] \in Failures /\ document[w] = Null

(* While executions are shorter than leases, no two live workers ever       *)
(* execute the same job: the claim is mutually exclusive.                   *)
ExclusiveExecution ==
  \A v, w \in Workers :
    v # w /\ pc[v] \in Executing /\ pc[w] \in Executing => held[v] # held[w]

(* A running job is settled only by the worker that owns its lease, with    *)
(* the outcome and the document of that worker's execution; a late answer   *)
(* of a worker that lost the lease changes nothing.                         *)
OnlyOwnerSettles ==
  [][\A j \in Jobs :
       status[j] = "running" /\ status'[j] # "running" =>
         LET w == lease_owner[j]
         IN /\ pc[w] = "finish" /\ held[w] = j
            /\ status'[j] = outcome[w]
            /\ document_id'[j] = document[w]]_vars

(* No worker takes a row from an owner whose lease has not expired, also    *)
(* when the row was selected before that lease was granted.                 *)
LiveLeaseKept ==
  [][\A j \in Jobs :
       status[j] = "running" /\ lease_left[j] > 0 =>
         lease_owner'[j] \in {lease_owner[j], Null}]_vars

(* A job settled as blocked or unavailable has left no document in its run  *)
(* ("Document created: no" in the connector's status table), unless another *)
(* job asked for the same page or a process was killed: the capture commits *)
(* before the terminal update, so a kill between the two leaves the         *)
(* document, and the next collection may fail.                              *)
FailureLeavesNoDocument ==
  \A j \in Jobs :
    /\ status[j] \in Failures
    /\ crashes = 0
    /\ \A k \in Jobs \ {j} : Capture(k, Null) # Capture(j, Null)
    => \A d \in documents : Capture(j, d.content) # d

(* Every submitted job reaches a terminal state.                            *)
EveryJobSettles == \A j \in Jobs : status[j] = "queued" ~> status[j] \in Terminal

(* The queue implements the board its clients poll: settled once and for    *)
(* all, and "succeeded" always names a stored document of the job's page.   *)
Board == INSTANCE JobBoard WITH
  EvidenceOf <- [j \in Jobs |-> {Capture(j, c) : c \in Contents}],
  verdict <- [j \in Jobs |-> IF status[j] \in {"queued", "running"}
                             THEN "pending" ELSE status[j]],
  evidence <- document_id,
  store <- documents

ImplementsBoard == Board!Spec
=============================================================================
