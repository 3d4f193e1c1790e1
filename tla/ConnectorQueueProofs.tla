------------------------ MODULE ConnectorQueueProofs ------------------------
(***************************************************************************)
(* What ConnectorQueue guarantees for every set of jobs, workers and pages,*)
(* every lease length and every number of crashes.                         *)
(***************************************************************************)
EXTENDS ConnectorQueue, FiniteSetTheorems, TLAPS

(* What a worker knows at each place of its execution: the job it holds was *)
(* submitted, the document it carries is a capture of that job and, once it *)
(* is to be stored, one that can be.  A row that is not settled names no    *)
(* document.                                                                *)
Carries ==
  /\ \A w \in Workers :
       /\ pc[w] \notin {"down", "idle"} => held[w] \in Jobs /\ status[held[w]] # "absent"
       /\ pc[w] \in {"down", "idle", "claiming", "collect"} => document[w] = Null
       /\ pc[w] \in {"capture", "store"} =>
            /\ outcome[w] = "succeeded"
            /\ document[w] \in {Capture(held[w], c) : c \in Contents}
       /\ pc[w] = "store" => document[w].content \notin Unstorable
  /\ \A j \in Jobs : status[j] \notin Terminal => document_id[j] = Null

IInv == TypeOK /\ Carries /\ OwnerAccountable /\ ReportsOwnEvidence

(* Groups of variables and sets of names, expanded wherever they occur. *)
USE DEF rowVars, tableVars, localVars,
        Failures, Terminal, Statuses, Executing, Places

-----------------------------------------------------------------------------
LEMMA CaptureType ==
  ASSUME NEW j \in Jobs, NEW c \in Contents
  PROVE  /\ Capture(j, c) \in Documents
         /\ Capture(j, c).content = c
         /\ Capture(j, c).url = JobUrl[j]
         /\ Capture(j, c) # Null
BY JobsAssumption, NullAssumption DEF Capture, Documents

LEMMA InitIInv == Init => IInv
BY NullAssumption, LeaseAssumption
   DEF Init, IInv, TypeOK, Carries, OwnerAccountable, ReportsOwnEvidence

(* The document of a worker that captures is a capture of the job it holds. *)
LEMMA CarriedCapture ==
  ASSUME IInv, NEW w \in Workers, pc[w] \in {"capture", "store"}
  PROVE  /\ held[w] \in Jobs
         /\ document[w] \in Documents
         /\ document[w] \in {Capture(held[w], c) : c \in Contents}
         /\ document[w].content \in Contents
         /\ document[w] = Capture(held[w], document[w].content)
<1>1. /\ held[w] \in Jobs
      /\ document[w] \in {Capture(held[w], c) : c \in Contents}
  BY DEF IInv, TypeOK, Carries
<1>2. PICK c \in Contents : document[w] = Capture(held[w], c)
  BY <1>1
<1> QED
  BY <1>1, <1>2, CaptureType

(* A worker about to report has a terminal outcome.                         *)
LEMMA ReadyReport ==
  ASSUME IInv, NEW w \in Workers, pc[w] = "finish"
  PROVE  /\ held[w] \in Jobs
         /\ outcome[w] \in Terminal
         /\ document[w] \in Documents \cup {Null}
BY DEF IInv, TypeOK, Carries, ReportsOwnEvidence

LEMMA SubmitIInv ==
  ASSUME IInv, NEW j \in Jobs, Submit(j)
  PROVE  IInv'
<1> USE NullAssumption, LeaseAssumption, JobsAssumption
        DEF IInv, Submit
<1>1. TypeOK'
  BY DEF TypeOK, Carries
<1>2. Carries'
  BY CaptureType DEF TypeOK, Carries
<1>3. OwnerAccountable'
  BY DEF TypeOK, Carries, OwnerAccountable, Live
<1>4. ReportsOwnEvidence'
  BY DEF TypeOK, Carries, ReportsOwnEvidence
<1> QED
  BY <1>1, <1>2, <1>3, <1>4

LEMMA StartIInv ==
  ASSUME IInv, NEW w \in Workers, Start(w)
  PROVE  IInv'
<1> USE NullAssumption, LeaseAssumption, JobsAssumption
        DEF IInv, Start, Live
<1>1. TypeOK'
  BY DEF TypeOK, Carries
<1>2. Carries'
  BY CaptureType DEF TypeOK, Carries
<1>3. OwnerAccountable'
  BY DEF TypeOK, OwnerAccountable, Live
<1>4. ReportsOwnEvidence'
  BY DEF TypeOK, Carries, ReportsOwnEvidence
<1> QED
  BY <1>1, <1>2, <1>3, <1>4

LEMMA CrashIInv ==
  ASSUME IInv, NEW w \in Workers, Crash(w)
  PROVE  IInv'
<1> USE NullAssumption, LeaseAssumption, JobsAssumption
        DEF IInv, Crash, Exit, Live
<1>1. TypeOK'
  BY DEF TypeOK, Carries
<1>2. Carries'
  BY CaptureType DEF TypeOK, Carries
<1>3. OwnerAccountable'
  BY DEF TypeOK, Carries, OwnerAccountable, Live
<1>4. ReportsOwnEvidence'
  BY DEF TypeOK, Carries, ReportsOwnEvidence
<1> QED
  BY <1>1, <1>2, <1>3, <1>4

LEMMA ClaimSelectIInv ==
  ASSUME IInv, NEW w \in Workers, ClaimSelect(w)
  PROVE  IInv'
<1> USE NullAssumption, LeaseAssumption, JobsAssumption
        DEF IInv, ClaimSelect, Claimable
<1>0. PICK j \in Jobs : /\ status[j] \in {"queued", "running"}
                        /\ held' = [held EXCEPT ![w] = j]
  OBVIOUS
<1> HIDE DEF ClaimSelect
<1>00. /\ pc[w] = "idle"
       /\ pc' = [pc EXCEPT ![w] = "claiming"]
       /\ UNCHANGED <<tableVars, lag, outcome, document, source_seen, crashes, deployed>>
  BY DEF ClaimSelect
<1>1. TypeOK'
  BY <1>0, <1>00 DEF TypeOK, Carries
<1>2. Carries'
  BY <1>0, <1>00, CaptureType DEF TypeOK, Carries
<1>3. OwnerAccountable'
  BY <1>0, <1>00 DEF TypeOK, Carries, OwnerAccountable, Live
<1>4. ReportsOwnEvidence'
  BY <1>0, <1>00 DEF TypeOK, Carries, ReportsOwnEvidence
<1> QED
  BY <1>1, <1>2, <1>3, <1>4

LEMMA ClaimUpdateIInv ==
  ASSUME IInv, NEW w \in Workers, ClaimUpdate(w)
  PROVE  IInv'
<1> USE NullAssumption, LeaseAssumption, JobsAssumption
        DEF IInv, ClaimUpdate, StillClaimable, Claimable
<1>a. held[w] \in Jobs
  BY DEF TypeOK, Carries
<1>b. LeaseTicks - lag[w] \in -MaxLag .. LeaseTicks
  BY DEF TypeOK
<1>c. RunAfterClaim(held[w]) \in [Runs -> {"queued", "collecting"}]
  BY <1>a DEF TypeOK, RunAfterClaim
<1>0. /\ held[w] \in Jobs
      /\ LeaseTicks - lag[w] \in -MaxLag .. LeaseTicks
      /\ RunAfterClaim(held[w]) \in [Runs -> {"queued", "collecting"}]
  BY <1>a, <1>b, <1>c
<1>1. TypeOK'
  BY <1>0 DEF TypeOK, Carries
<1>2. Carries'
  BY <1>0, CaptureType DEF TypeOK, Carries
<1>3. OwnerAccountable'
  BY <1>0 DEF TypeOK, Carries, OwnerAccountable, Live
<1>4. ReportsOwnEvidence'
  BY <1>0 DEF TypeOK, Carries, ReportsOwnEvidence
<1> QED
  BY <1>1, <1>2, <1>3, <1>4

LEMMA ClaimMissedIInv ==
  ASSUME IInv, NEW w \in Workers, ClaimMissed(w)
  PROVE  IInv'
<1> USE NullAssumption, LeaseAssumption, JobsAssumption
        DEF IInv, ClaimMissed
<1>1. TypeOK'
  BY DEF TypeOK, Carries
<1>2. Carries'
  BY CaptureType DEF TypeOK, Carries
<1>3. OwnerAccountable'
  BY DEF TypeOK, Carries, OwnerAccountable, Live
<1>4. ReportsOwnEvidence'
  BY DEF TypeOK, Carries, ReportsOwnEvidence
<1> QED
  BY <1>1, <1>2, <1>3, <1>4

LEMMA CollectPageIInv ==
  ASSUME IInv, NEW w \in Workers, CollectPage(w)
  PROVE  IInv'
<1> USE NullAssumption, LeaseAssumption, JobsAssumption
        DEF IInv, CollectPage
<1>0. PICK c \in Contents : document' = [document EXCEPT ![w] = Capture(held[w], c)]
  OBVIOUS
<1>00. held[w] \in Jobs /\ Capture(held[w], c) \in Documents
  BY CaptureType DEF TypeOK, Carries
<1>1. TypeOK'
  BY <1>0, <1>00 DEF TypeOK, Carries
<1>2. Carries'
  BY <1>0, <1>00, CaptureType DEF TypeOK, Carries
<1>3. OwnerAccountable'
  BY <1>0, <1>00 DEF TypeOK, Carries, OwnerAccountable, Live
<1>4. ReportsOwnEvidence'
  BY <1>0, <1>00 DEF TypeOK, Carries, ReportsOwnEvidence
<1> QED
  BY <1>1, <1>2, <1>3, <1>4

LEMMA CollectNothingIInv ==
  ASSUME IInv, NEW w \in Workers, CollectNothing(w)
  PROVE  IInv'
<1> USE NullAssumption, LeaseAssumption, JobsAssumption
        DEF IInv, CollectNothing
<1>1. TypeOK'
  BY DEF TypeOK, Carries
<1>2. Carries'
  BY CaptureType DEF TypeOK, Carries
<1>3. OwnerAccountable'
  BY DEF TypeOK, Carries, OwnerAccountable, Live
<1>4. ReportsOwnEvidence'
  BY DEF TypeOK, Carries, ReportsOwnEvidence
<1> QED
  BY <1>1, <1>2, <1>3, <1>4

LEMMA CaptureRejectedIInv ==
  ASSUME IInv, NEW w \in Workers, CaptureRejected(w)
  PROVE  IInv'
<1> USE NullAssumption, LeaseAssumption, JobsAssumption
        DEF IInv, CaptureRejected, Exit
<1>1. TypeOK'
  BY DEF TypeOK, Carries
<1>2. Carries'
  BY CaptureType DEF TypeOK, Carries
<1>3. OwnerAccountable'
  BY DEF TypeOK, Carries, OwnerAccountable, Live
<1>4. ReportsOwnEvidence'
  BY DEF TypeOK, Carries, ReportsOwnEvidence
<1> QED
  BY <1>1, <1>2, <1>3, <1>4

LEMMA CaptureConflictIInv ==
  ASSUME IInv, NEW w \in Workers, CaptureConflict(w)
  PROVE  IInv'
<1> USE NullAssumption, LeaseAssumption, JobsAssumption
        DEF IInv, CaptureConflict
<1>1. TypeOK'
  BY DEF TypeOK, Carries
<1>2. Carries'
  BY CaptureType DEF TypeOK, Carries
<1>3. OwnerAccountable'
  BY DEF TypeOK, Carries, OwnerAccountable, Live
<1>4. ReportsOwnEvidence'
  BY DEF TypeOK, Carries, ReportsOwnEvidence
<1> QED
  BY <1>1, <1>2, <1>3, <1>4

LEMMA CaptureDuplicateIInv ==
  ASSUME IInv, NEW w \in Workers, CaptureDuplicate(w)
  PROVE  IInv'
<1> USE NullAssumption, LeaseAssumption, JobsAssumption
        DEF IInv, CaptureDuplicate
<1>0. /\ held[w] \in Jobs
      /\ document[w] \in Documents
      /\ document[w].content \in Contents
      /\ document[w] = Capture(held[w], document[w].content)
  BY CarriedCapture
<1>1. TypeOK'
  BY <1>0 DEF TypeOK, Carries
<1>2. Carries'
  BY <1>0, CaptureType DEF TypeOK, Carries
<1>3. OwnerAccountable'
  BY <1>0 DEF TypeOK, Carries, OwnerAccountable, Live
<1>4. ReportsOwnEvidence'
  BY <1>0 DEF TypeOK, Carries, ReportsOwnEvidence
<1> QED
  BY <1>1, <1>2, <1>3, <1>4

LEMMA CaptureLookupIInv ==
  ASSUME IInv, NEW w \in Workers, CaptureLookup(w)
  PROVE  IInv'
<1> USE NullAssumption, LeaseAssumption, JobsAssumption
        DEF IInv, CaptureLookup, SourceKnown
<1>1. TypeOK'
  BY DEF TypeOK, Carries
<1>2. Carries'
  BY CaptureType DEF TypeOK, Carries
<1>3. OwnerAccountable'
  BY DEF TypeOK, Carries, OwnerAccountable, Live
<1>4. ReportsOwnEvidence'
  BY DEF TypeOK, Carries, ReportsOwnEvidence
<1> QED
  BY <1>1, <1>2, <1>3, <1>4

LEMMA CaptureStoreIInv ==
  ASSUME IInv, NEW w \in Workers, CaptureStore(w)
  PROVE  IInv'
<1> USE NullAssumption, LeaseAssumption, JobsAssumption
        DEF IInv, CaptureStore
<1>0. /\ held[w] \in Jobs
      /\ document[w] \in Documents
      /\ document[w].content \in Contents
      /\ document[w] = Capture(held[w], document[w].content)
  BY CarriedCapture
<1>1. TypeOK'
  BY <1>0 DEF TypeOK, Carries
<1>2. Carries'
  BY <1>0, CaptureType DEF TypeOK, Carries
<1>3. OwnerAccountable'
  BY <1>0 DEF TypeOK, Carries, OwnerAccountable, Live
<1>4. ReportsOwnEvidence'
  BY <1>0 DEF TypeOK, Carries, ReportsOwnEvidence
<1> QED
  BY <1>1, <1>2, <1>3, <1>4

LEMMA CaptureCollisionIInv ==
  ASSUME IInv, NEW w \in Workers, CaptureCollision(w)
  PROVE  IInv'
<1> USE NullAssumption, LeaseAssumption, JobsAssumption
        DEF IInv, CaptureCollision, Exit
<1>1. TypeOK'
  BY DEF TypeOK, Carries
<1>2. Carries'
  BY CaptureType DEF TypeOK, Carries
<1>3. OwnerAccountable'
  BY DEF TypeOK, Carries, OwnerAccountable, Live
<1>4. ReportsOwnEvidence'
  BY DEF TypeOK, Carries, ReportsOwnEvidence
<1> QED
  BY <1>1, <1>2, <1>3, <1>4

LEMMA FinishIInv ==
  ASSUME IInv, NEW w \in Workers, Finish(w)
  PROVE  IInv'
<1> USE NullAssumption, LeaseAssumption, JobsAssumption
        DEF IInv, Finish, Rest, Owns
<1>0. /\ held[w] \in Jobs
      /\ outcome[w] \in Terminal
      /\ document[w] \in Documents \cup {Null}
  BY ReadyReport
<1>1. TypeOK'
  BY <1>0 DEF TypeOK, Carries
<1>2. Carries'
  BY <1>0, CaptureType DEF TypeOK, Carries
<1>3. OwnerAccountable'
  BY <1>0 DEF TypeOK, Carries, OwnerAccountable, Live
<1>4. ReportsOwnEvidence'
  BY <1>0 DEF TypeOK, Carries, ReportsOwnEvidence
<1> QED
  BY <1>1, <1>2, <1>3, <1>4

LEMMA LeaseLostIInv ==
  ASSUME IInv, NEW w \in Workers, LeaseLost(w)
  PROVE  IInv'
<1> USE NullAssumption, LeaseAssumption, JobsAssumption
        DEF IInv, LeaseLost, Rest, Owns
<1>1. TypeOK'
  BY DEF TypeOK, Carries
<1>2. Carries'
  BY CaptureType DEF TypeOK, Carries
<1>3. OwnerAccountable'
  BY DEF TypeOK, Carries, OwnerAccountable, Live
<1>4. ReportsOwnEvidence'
  BY DEF TypeOK, Carries, ReportsOwnEvidence
<1> QED
  BY <1>1, <1>2, <1>3, <1>4

LEMMA TickIInv ==
  ASSUME IInv, Tick
  PROVE  IInv'
<1> USE NullAssumption, LeaseAssumption, JobsAssumption
        DEF IInv, Tick
<1>1. TypeOK'
  <2>1. lease_left' \in [Jobs -> -MaxLag .. LeaseTicks]
    BY DEF TypeOK
  <2>2. lag' \in [Workers -> 0 .. MaxLag]
    BY DEF TypeOK
  <2> QED
    BY <2>1, <2>2 DEF TypeOK
<1>2. Carries' /\ OwnerAccountable' /\ ReportsOwnEvidence'
  BY DEF Carries, OwnerAccountable, ReportsOwnEvidence, Live
<1> QED
  BY <1>1, <1>2

LEMMA StutterIInv ==
  ASSUME IInv, UNCHANGED vars
  PROVE  IInv'
BY DEF vars, IInv, TypeOK, Carries, OwnerAccountable, ReportsOwnEvidence, Live

LEMMA NextIInv ==
  ASSUME IInv, [Next]_vars
  PROVE  IInv'
<1>1. ASSUME NEW j \in Jobs, Submit(j) PROVE IInv'
  BY <1>1, SubmitIInv
<1>2. ASSUME NEW w \in Workers, Start(w) \/ Crash(w) PROVE IInv'
  BY <1>2, StartIInv, CrashIInv
<1>3. ASSUME NEW w \in Workers, Claim(w) PROVE IInv'
  BY <1>3, ClaimSelectIInv, ClaimUpdateIInv, ClaimMissedIInv DEF Claim
<1>4. ASSUME NEW w \in Workers, Execute(w) PROVE IInv'
  BY <1>4, CollectPageIInv, CollectNothingIInv, CaptureRejectedIInv, CaptureConflictIInv,
     CaptureDuplicateIInv, CaptureLookupIInv, CaptureStoreIInv, CaptureCollisionIInv,
     FinishIInv, LeaseLostIInv
     DEF Execute
<1>5. CASE Tick
  BY <1>5, TickIInv
<1>6. CASE UNCHANGED vars
  BY <1>6, StutterIInv
<1> QED
  BY <1>1, <1>2, <1>3, <1>4, <1>5, <1>6 DEF Next

LEMMA Inductive == Spec => []IInv
<1>1. Init => IInv
  BY InitIInv
<1>2. IInv /\ [Next]_vars => IInv'
  BY NextIInv
<1> QED
  BY <1>1, <1>2, PTL DEF Spec

-----------------------------------------------------------------------------
(* Every variable keeps its type.                                           *)
THEOREM TypeCorrect == Spec => []TypeOK
<1>1. IInv => TypeOK
  BY DEF IInv
<1> QED
  BY <1>1, Inductive, PTL

(* The owner of a running row is dead or executes that row.                 *)
THEOREM OwnersAreAccountable == Spec => []OwnerAccountable
<1>1. IInv => OwnerAccountable
  BY DEF IInv
<1> QED
  BY <1>1, Inductive, PTL

(* A worker reports a stored document of its own job, or none.              *)
THEOREM ReportsAreOwn == Spec => []ReportsOwnEvidence
<1>1. IInv => ReportsOwnEvidence
  BY DEF IInv
<1> QED
  BY <1>1, Inductive, PTL

-----------------------------------------------------------------------------
(* A run is collecting exactly when one of its jobs was ever claimed.       *)
LEMMA RunFollowsJobsStep ==
  ASSUME IInv, RunFollowsJobs, [Next]_vars
  PROVE  RunFollowsJobs'
<1> USE DEF IInv, RunFollowsJobs
<1>1. ASSUME NEW j \in Jobs, Submit(j) PROVE RunFollowsJobs'
  BY <1>1 DEF Submit, TypeOK
<1>2. ASSUME NEW w \in Workers, ClaimUpdate(w) PROVE RunFollowsJobs'
  <2> DEFINE j == held[w]
  <2>1. /\ j \in Jobs
        /\ status' = [status EXCEPT ![j] = "running"]
        /\ run_state' = RunAfterClaim(j)
    BY <1>2 DEF ClaimUpdate, Carries, TypeOK
  <2>2. JobRun[j] \in Runs /\ run_state'[JobRun[j]] = "collecting"
    <3>1. JobRun[j] \in Runs
      BY <2>1, JobsAssumption
    <3>2. run_state[JobRun[j]] \in {"queued", "collecting"}
      BY <3>1 DEF TypeOK
    <3>3. RunAfterClaim(j)[JobRun[j]] = "collecting"
      BY <3>1, <3>2 DEF RunAfterClaim, TypeOK
    <3> QED
      BY <2>1, <3>1, <3>3
  <2>3. \A r \in Runs \ {JobRun[j]} : run_state'[r] = run_state[r]
    BY <2>1 DEF RunAfterClaim, TypeOK
  <2>4. \A k \in Jobs \ {j} : status'[k] = status[k]
    BY <2>1 DEF TypeOK
  <2>5. status'[j] = "running"
    BY <2>1 DEF TypeOK
  <2> HIDE DEF j
  <2> QED
    BY <2>1, <2>2, <2>3, <2>4, <2>5
<1>3. ASSUME NEW w \in Workers, Finish(w) PROVE RunFollowsJobs'
  <2> DEFINE j == held[w]
  <2>1. /\ j \in Jobs
        /\ status[j] = "running"
        /\ status'[j] \in Terminal
        /\ \A k \in Jobs \ {j} : status'[k] = status[k]
        /\ UNCHANGED run_state
    BY <1>3, ReadyReport DEF Finish, Owns, TypeOK
  <2> HIDE DEF j
  <2> QED
    BY <2>1
<1>4. ASSUME UNCHANGED <<status, run_state>> PROVE RunFollowsJobs'
  BY <1>4
<1>5. ASSUME NEW w \in Workers, Start(w) \/ Crash(w) \/ ClaimSelect(w) \/ ClaimMissed(w)
      PROVE  UNCHANGED <<status, run_state>>
  BY <1>5 DEF Start, Crash, ClaimSelect, ClaimMissed
<1>6. ASSUME NEW w \in Workers, Execute(w), ~Finish(w)
      PROVE  UNCHANGED <<status, run_state>>
  BY <1>6 DEF Execute, CollectPage, CollectNothing, CaptureRejected, CaptureConflict,
     CaptureDuplicate, CaptureLookup, CaptureStore, CaptureCollision, LeaseLost
<1>7. Tick \/ UNCHANGED vars => UNCHANGED <<status, run_state>>
  BY DEF Tick, vars
<1> QED
  BY <1>1, <1>2, <1>3, <1>4, <1>5, <1>6, <1>7 DEF Next, Claim

THEOREM RunsFollowJobs == Spec => []RunFollowsJobs
<1>1. Init => RunFollowsJobs
  BY JobsAssumption DEF Init, RunFollowsJobs
<1>2. IInv /\ RunFollowsJobs /\ [Next]_vars => RunFollowsJobs'
  BY RunFollowsJobsStep
<1> QED
  BY <1>1, <1>2, Inductive, PTL DEF Spec

-----------------------------------------------------------------------------
(* Only Finish takes a row out of "running", and no step but ClaimUpdate    *)
(* names a new owner.                                                       *)
LEMMA RowFrame ==
  ASSUME IInv, [Next]_vars,
         \A w \in Workers : ~ClaimUpdate(w) /\ ~Finish(w)
  PROVE  /\ UNCHANGED <<lease_owner, document_id>>
         /\ \A j \in Jobs : status[j] # "absent" => status'[j] = status[j]
<1>1. ASSUME NEW j \in Jobs, Submit(j)
      PROVE  /\ UNCHANGED <<lease_owner, document_id>>
             /\ \A k \in Jobs : status[k] # "absent" => status'[k] = status[k]
  BY <1>1 DEF Submit, IInv, TypeOK
<1>2. ASSUME NEW w \in Workers, Start(w) \/ Crash(w) \/ ClaimSelect(w) \/ ClaimMissed(w)
      PROVE  UNCHANGED <<status, lease_owner, document_id>>
  BY <1>2 DEF Start, Crash, ClaimSelect, ClaimMissed
<1>3. ASSUME NEW w \in Workers, Execute(w)
      PROVE  UNCHANGED <<status, lease_owner, document_id>>
  BY <1>3 DEF Execute, CollectPage, CollectNothing, CaptureRejected, CaptureConflict,
     CaptureDuplicate, CaptureLookup, CaptureStore, CaptureCollision, LeaseLost
<1>4. Tick \/ UNCHANGED vars => UNCHANGED <<status, lease_owner, document_id>>
  BY DEF Tick, vars
<1> QED
  BY <1>1, <1>2, <1>3, <1>4 DEF Next, Claim

(* A running row is settled by its owner alone, with the owner's outcome.   *)
THEOREM OwnerSettles == Spec => OnlyOwnerSettles
<1> DEFINE Settling(j) ==
      status[j] = "running" /\ status'[j] # "running" =>
        LET w == lease_owner[j]
        IN /\ pc[w] = "finish" /\ held[w] = j
           /\ status'[j] = outcome[w]
           /\ document_id'[j] = document[w]
<1>1. ASSUME IInv, [Next]_vars, NEW j \in Jobs
      PROVE  Settling(j)
  <2>1. ASSUME NEW w \in Workers, Finish(w) PROVE Settling(j)
    BY <1>1, <2>1 DEF Finish, Owns, IInv, TypeOK
  <2>2. ASSUME NEW w \in Workers, ClaimUpdate(w) PROVE Settling(j)
    BY <1>1, <2>2 DEF ClaimUpdate, IInv, TypeOK
  <2>3. CASE \A w \in Workers : ~ClaimUpdate(w) /\ ~Finish(w)
    BY <1>1, <2>3, RowFrame
  <2> QED
    BY <2>1, <2>2, <2>3
<1>2. IInv /\ [Next]_vars => [\A j \in Jobs : Settling(j)]_vars
  BY <1>1
<1> QED
  BY <1>2, Inductive, PTL DEF Spec, OnlyOwnerSettles

(* A lease that has not expired stays with its owner.                       *)
THEOREM LeasesAreKept == Spec => LiveLeaseKept
<1> DEFINE Kept(j) ==
      status[j] = "running" /\ lease_left[j] > 0 =>
        lease_owner'[j] \in {lease_owner[j], Null}
<1>1. ASSUME IInv, [Next]_vars, NEW j \in Jobs
      PROVE  Kept(j)
  <2>1. ASSUME NEW w \in Workers, Finish(w) PROVE Kept(j)
    BY <1>1, <2>1 DEF Finish, IInv, TypeOK
  <2>2. ASSUME NEW w \in Workers, ClaimUpdate(w) PROVE Kept(j)
    <3>1. status[held[w]] = "queued" \/ lease_left[held[w]] <= -lag[w]
      BY <2>2 DEF ClaimUpdate, StillClaimable, Claimable
    <3>2. lag[w] \in Nat /\ held[w] \in Jobs /\ lease_left[j] \in Int
      BY <1>1, <2>2, LeaseAssumption DEF IInv, TypeOK, Carries, ClaimUpdate
    <3>3. lease_owner' = [lease_owner EXCEPT ![held[w]] = w]
      BY <2>2 DEF ClaimUpdate
    <3>4. CASE held[w] = j
      BY <3>1, <3>2, <3>4, LeaseAssumption
    <3>5. CASE held[w] # j
      BY <1>1, <3>3, <3>5 DEF IInv, TypeOK
    <3> QED
      BY <3>4, <3>5
  <2>3. CASE \A w \in Workers : ~ClaimUpdate(w) /\ ~Finish(w)
    BY <1>1, <2>3, RowFrame
  <2> QED
    BY <2>1, <2>2, <2>3
<1>2. IInv /\ [Next]_vars => [\A j \in Jobs : Kept(j)]_vars
  BY <1>1
<1> QED
  BY <1>2, Inductive, PTL DEF Spec, LiveLeaseKept

-----------------------------------------------------------------------------
(* The queue implements the board: Submit is Accept, a committed capture is *)
(* Store, the terminal update settles the job, and nothing else is seen.    *)
USE DEF Board!Failures, Board!vars

LEMMA BoardInit == Init => Board!Init
BY DEF Init, Board!Init

LEMMA BoardCapture ==
  ASSUME IInv, NEW w \in Workers, NEW j \in Jobs, j = held[w], CaptureStore(w)
  PROVE  Board!Store(j)
<1>1. /\ status[j] # "absent"
      /\ document[w] \in {Capture(j, c) : c \in Contents}
  BY CarriedCapture DEF CaptureStore, IInv, Carries
<1>2. UNCHANGED <<status, document_id>> /\ documents' = documents \cup {document[w]}
  BY DEF CaptureStore
<1> QED
  BY <1>1, <1>2 DEF Board!Store

LEMMA BoardSettle ==
  ASSUME IInv, NEW w \in Workers, NEW j \in Jobs, j = held[w], Finish(w)
  PROVE  Board!SettleWith(j) \/ Board!SettleWithout(j)
<1> DEFINE view == [k \in Jobs |-> IF status[k] \in {"queued", "running"}
                                    THEN "pending" ELSE status[k]]
<1>1. /\ status[j] = "running"
      /\ status' = [status EXCEPT ![j] = outcome[w]]
      /\ document_id' = [document_id EXCEPT ![j] = document[w]]
      /\ UNCHANGED documents
  BY ReadyReport DEF Finish, Owns
<1>2. outcome[w] \in Terminal /\ view' = [view EXCEPT ![j] = outcome[w]]
  <2>1. outcome[w] \in Terminal /\ status \in [Jobs -> Statuses]
    BY ReadyReport DEF Finish, IInv, TypeOK
  <2>2. \A k \in Jobs : status'[k] = IF k = j THEN outcome[w] ELSE status[k]
    BY <1>1, <2>1
  <2>3. \A k \in Jobs : view'[k] = IF k = j THEN outcome[w] ELSE view[k]
    BY <2>1, <2>2
  <2> QED
    BY <1>1, <2>1, <2>3
<1>3. view[j] = "pending"
  BY <1>1
<1>4. CASE outcome[w] = "succeeded"
  <2>1. document[w] \in documents /\ document[w] \in {Capture(j, c) : c \in Contents}
    BY <1>4 DEF IInv, ReportsOwnEvidence, Finish
  <2> QED
    BY <1>1, <1>2, <1>3, <1>4, <2>1 DEF Board!SettleWith
<1>5. CASE outcome[w] \in Failures
  <2>1. document[w] = Null
    BY <1>5 DEF IInv, ReportsOwnEvidence, Finish
  <2>2. document_id[j] = Null /\ document_id' = document_id
    BY <1>1, <2>1 DEF IInv, Carries, TypeOK
  <2> QED
    BY <1>1, <1>2, <1>3, <1>5, <2>1, <2>2 DEF Board!SettleWithout
<1> QED
  BY <1>2, <1>4, <1>5

(* Steps of workers and clients that change neither a status, nor a linked  *)
(* document, nor the store, or only move a job from queued to running.      *)
LEMMA BoardStutter ==
  ASSUME IInv, [Next]_vars,
         \A j \in Jobs : ~Submit(j),
         \A w \in Workers : ~CaptureStore(w) /\ ~Finish(w)
  PROVE  UNCHANGED Board!vars
<1>1. ASSUME NEW w \in Workers, ClaimUpdate(w) PROVE UNCHANGED Board!vars
  <2>1. status[held[w]] \in {"queued", "running"} /\ held[w] \in Jobs
    BY <1>1 DEF ClaimUpdate, StillClaimable, Claimable, IInv, TypeOK, Carries
  <2>2. status' = [status EXCEPT ![held[w]] = "running"]
    BY <1>1 DEF ClaimUpdate
  <2>3. UNCHANGED <<document_id, documents>>
    BY <1>1 DEF ClaimUpdate
  <2>4. status \in [Jobs -> Statuses]
    BY DEF IInv, TypeOK
  <2> QED
    BY <2>1, <2>2, <2>3, <2>4
<1>2. ASSUME NEW w \in Workers, Start(w) \/ Crash(w) \/ ClaimSelect(w) \/ ClaimMissed(w)
      PROVE  UNCHANGED <<status, document_id, documents>>
  BY <1>2 DEF Start, Crash, ClaimSelect, ClaimMissed
<1>3. ASSUME NEW w \in Workers, Execute(w)
      PROVE  UNCHANGED <<status, document_id, documents>>
  BY <1>3 DEF Execute, CollectPage, CollectNothing, CaptureRejected, CaptureConflict,
     CaptureDuplicate, CaptureLookup, CaptureCollision, LeaseLost
<1>4. Tick \/ UNCHANGED vars => UNCHANGED <<status, document_id, documents>>
  BY DEF Tick, vars
<1>5. UNCHANGED <<status, document_id, documents>> => UNCHANGED Board!vars
  OBVIOUS
<1> QED
  BY <1>1, <1>2, <1>3, <1>4, <1>5 DEF Next, Claim

(* The queue implements what JobBoard promises to its clients.              *)
THEOREM BoardImplemented == Spec => ImplementsBoard
<1>1. ASSUME IInv, [Next]_vars PROVE [Board!Next]_(Board!vars)
  <2>1. ASSUME NEW j \in Jobs, Submit(j) PROVE Board!Accept(j)
    <3>1. /\ status[j] = "absent" /\ status' = [status EXCEPT ![j] = "queued"]
          /\ UNCHANGED <<document_id, documents>>
      BY <2>1 DEF Submit
    <3>2. status \in [Jobs -> Statuses]
      BY <1>1 DEF IInv, TypeOK
    <3> QED
      BY <3>1, <3>2 DEF Board!Accept
  <2>2. ASSUME NEW w \in Workers, CaptureStore(w) PROVE Board!Next
    <3>1. PICK j \in Jobs : j = held[w]
      BY <1>1, <2>2, CarriedCapture DEF CaptureStore
    <3>2. Board!Store(j)
      BY <1>1, <2>2, <3>1, BoardCapture
    <3> QED
      BY <3>1, <3>2 DEF Board!Next
  <2>3. ASSUME NEW w \in Workers, Finish(w) PROVE Board!Next
    <3>1. PICK j \in Jobs : j = held[w]
      BY <1>1, <2>3, ReadyReport DEF Finish
    <3>2. Board!SettleWith(j) \/ Board!SettleWithout(j)
      BY <1>1, <2>3, <3>1, BoardSettle
    <3> QED
      BY <3>1, <3>2 DEF Board!Next
  <2>4. CASE /\ \A j \in Jobs : ~Submit(j)
             /\ \A w \in Workers : ~CaptureStore(w) /\ ~Finish(w)
    BY <1>1, <2>4, BoardStutter
  <2> QED
    BY <2>1, <2>2, <2>3, <2>4 DEF Board!Next
<1>2. IInv /\ [Next]_vars => [Board!Next]_(Board!vars)
  BY <1>1
<1> QED
  BY <1>2, BoardInit, Inductive, PTL DEF Spec, ImplementsBoard, Board!Spec

-----------------------------------------------------------------------------
(* Mutual exclusion of executions.  With one process nobody else executes.  *)
(* With several, and executions shorter than leases, whoever executes a job *)
(* still owns it and its lease has time left, so nobody else can claim it.  *)
OneLive == deployed = 1 => \A v, w \in Workers : Live(v) /\ Live(w) => v = w

ExecutorOwns ==
  deployed > 1 =>
    \A w \in Workers :
      pc[w] \in Executing => Owns(w, held[w]) /\ lease_left[held[w]] >= 1

EInv == IInv /\ OneLive /\ ExecutorOwns

LEMMA OneLiveStep ==
  ASSUME IInv, OneLive, [Next]_vars
  PROVE  OneLive'
<1> USE DEF Live
<1>1. ASSUME NEW w \in Workers, Start(w) PROVE OneLive'
  <2> DEFINE live == {v \in Workers : Live(v)}
  <2>1. CASE deployed = 1
    <3>1. IsFiniteSet(live)
      BY WorkersAssumption, FS_Subset
    <3>2. Cardinality(live) = 0
      BY <1>1, <2>1, <3>1, FS_CardinalityType DEF Start
    <3>3. live = {}
      BY <3>1, <3>2, FS_EmptySet
    <3>4. \A v \in Workers : pc[v] = "down"
      BY <3>3
    <3>5. pc' = [pc EXCEPT ![w] = "idle"]
      BY <1>1 DEF Start
    <3> QED
      BY <3>4, <3>5 DEF OneLive, IInv, TypeOK
  <2>2. CASE deployed # 1
    BY <1>1, <2>2 DEF OneLive, Start
  <2> QED
    BY <2>1, <2>2
<1>2. ASSUME NEW w \in Workers, Crash(w) \/ Claim(w) \/ Execute(w)
      PROVE  /\ Live(w)
             /\ \A v \in Workers \ {w} : pc'[v] = pc[v]
             /\ UNCHANGED deployed
  BY <1>2 DEF IInv, TypeOK, Crash, Exit, Rest, Claim, ClaimSelect, ClaimUpdate, ClaimMissed,
     Execute, CollectPage, CollectNothing, CaptureRejected, CaptureConflict,
     CaptureDuplicate, CaptureLookup, CaptureStore, CaptureCollision, Finish, LeaseLost
<1>3. ASSUME NEW w \in Workers, Crash(w) \/ Claim(w) \/ Execute(w)
      PROVE  OneLive'
  BY <1>3, <1>2 DEF OneLive
<1>4. (\E j \in Jobs : Submit(j)) \/ Tick \/ UNCHANGED vars => OneLive'
  BY DEF Submit, Tick, vars, OneLive
<1> QED
  BY <1>1, <1>3, <1>4 DEF Next

LEMMA ExecutorOwnsStep ==
  ASSUME Punctual, IInv, ExecutorOwns, [Next]_vars
  PROVE  ExecutorOwns'
<1> USE DEF Owns
<1> SUFFICES ASSUME deployed' > 1, NEW v \in Workers, pc'[v] \in Executing
             PROVE  Owns(v, held[v])' /\ lease_left'[held'[v]] >= 1
  BY DEF ExecutorOwns
<1>0. deployed' = deployed
  BY DEF Next, vars, Submit, Start, Crash, Claim, ClaimSelect, ClaimUpdate, ClaimMissed,
     Execute, CollectPage, CollectNothing, CaptureRejected, CaptureConflict,
     CaptureDuplicate, CaptureLookup, CaptureStore, CaptureCollision, Finish, LeaseLost, Tick
<1>1. ASSUME NEW w \in Workers, ClaimUpdate(w)
      PROVE  Owns(v, held[v])' /\ lease_left'[held'[v]] >= 1
  <2>1. /\ held' = held /\ held[w] \in Jobs
        /\ status' = [status EXCEPT ![held[w]] = "running"]
        /\ lease_owner' = [lease_owner EXCEPT ![held[w]] = w]
        /\ lease_left' = [lease_left EXCEPT ![held[w]] = LeaseTicks - lag[w]]
        /\ pc' = [pc EXCEPT ![w] = "collect"]
        /\ status[held[w]] = "queued" \/ lease_left[held[w]] <= -lag[w]
    BY <1>1 DEF ClaimUpdate, StillClaimable, Claimable, IInv, Carries, TypeOK
  <2>2. lag[w] \in 0 .. MaxLag /\ LeaseTicks - lag[w] >= 1
    BY LeaseAssumption DEF IInv, TypeOK
  <2>3. CASE v = w
    BY <2>1, <2>2, <2>3 DEF IInv, TypeOK
  <2>4. CASE v # w
    <3>1. pc[v] \in Executing
      BY <2>1, <2>4 DEF IInv, TypeOK
    <3>2. /\ held[v] \in Jobs /\ lease_left[held[v]] \in Int
          /\ Owns(v, held[v]) /\ lease_left[held[v]] >= 1
      BY <1>0, <3>1, LeaseAssumption DEF ExecutorOwns, IInv, TypeOK, Carries
    <3>3. held[v] # held[w]
      BY <2>1, <2>2, <3>2, LeaseAssumption
    <3> QED
      BY <2>1, <3>2, <3>3
  <2> QED
    BY <2>3, <2>4
<1>2. ASSUME NEW w \in Workers, Finish(w)
      PROVE  Owns(v, held[v])' /\ lease_left'[held'[v]] >= 1
  <2>1. /\ held[w] \in Jobs /\ Owns(w, held[w])
        /\ \A j \in Jobs \ {held[w]} : /\ status'[j] = status[j]
                                       /\ lease_owner'[j] = lease_owner[j]
                                       /\ lease_left'[j] = lease_left[j]
        /\ v # w
        /\ pc[v] \in Executing /\ held'[v] = held[v]
    BY <1>2, ReadyReport DEF Finish, Rest, IInv, TypeOK
  <2>2. held[v] \in Jobs /\ Owns(v, held[v]) /\ lease_left[held[v]] >= 1
    BY <1>0, <2>1 DEF ExecutorOwns, IInv, Carries
  <2> QED
    BY <2>1, <2>2
<1>3. CASE Tick
  <2>1. /\ pc[v] \in Executing /\ held[v] \in Jobs
        /\ Owns(v, held[v]) /\ lease_left[held[v]] > 1
        /\ UNCHANGED <<status, lease_owner, held>>
    BY <1>0, <1>3 DEF Tick, InTime, ExecutorOwns, IInv, Carries
  <2>2. lease_left'[held[v]] \in {lease_left[held[v]], lease_left[held[v]] - 1}
    BY <1>3, <2>1 DEF Tick
  <2>3. lease_left[held[v]] \in Int
    BY <2>1, LeaseAssumption DEF IInv, TypeOK
  <2> QED
    BY <2>1, <2>2, <2>3
<1>4. ASSUME NEW j \in Jobs, Submit(j)
      PROVE  Owns(v, held[v])' /\ lease_left'[held'[v]] >= 1
  <2>1. held[v] \in Jobs /\ Owns(v, held[v]) /\ lease_left[held[v]] >= 1
    BY <1>0, <1>4 DEF Submit, ExecutorOwns, IInv, Carries
  <2> QED
    BY <1>4, <2>1 DEF Submit, IInv, TypeOK
<1>5. ASSUME UNCHANGED <<status, lease_owner, lease_left>>,
             pc[v] \in Executing, held'[v] = held[v]
      PROVE  Owns(v, held[v])' /\ lease_left'[held'[v]] >= 1
  BY <1>0, <1>5 DEF ExecutorOwns
<1>6. ASSUME NEW w \in Workers, Start(w) \/ Crash(w) \/ ClaimSelect(w) \/ ClaimMissed(w)
      PROVE  /\ UNCHANGED <<status, lease_owner, lease_left>>
             /\ pc[v] \in Executing /\ held'[v] = held[v]
  BY <1>6 DEF Start, Crash, Exit, ClaimSelect, ClaimMissed, IInv, TypeOK
<1>7. ASSUME NEW w \in Workers, Execute(w), ~Finish(w)
      PROVE  /\ UNCHANGED <<status, lease_owner, lease_left>>
             /\ pc[v] \in Executing /\ held'[v] = held[v]
  BY <1>7 DEF Execute, Exit, Rest, CollectPage, CollectNothing, CaptureRejected,
     CaptureConflict, CaptureDuplicate, CaptureLookup, CaptureStore, CaptureCollision,
     LeaseLost, IInv, TypeOK
<1>8. CASE UNCHANGED vars
  BY <1>5, <1>8 DEF vars
<1> QED
  BY <1>1, <1>2, <1>3, <1>4, <1>5, <1>6, <1>7, <1>8 DEF Next, Claim

(* Under the timing assumption no two live workers ever execute one job.    *)
THEOREM ExecutionIsExclusive ==
  ASSUME Punctual
  PROVE  Spec => []ExclusiveExecution
<1>1. Init => EInv
  <2>1. Init => OneLive /\ ExecutorOwns
    BY DEF Init, OneLive, ExecutorOwns, Live
  <2> QED
    BY <2>1, InitIInv DEF EInv
<1>2. EInv /\ [Next]_vars => EInv'
  BY NextIInv, OneLiveStep, ExecutorOwnsStep DEF EInv
<1>3. EInv => ExclusiveExecution
  <2> SUFFICES ASSUME EInv, NEW v \in Workers, NEW w \in Workers, v # w,
                      pc[v] \in Executing, pc[w] \in Executing
               PROVE  held[v] # held[w]
    BY DEF ExclusiveExecution
  <2>1. CASE deployed = 1
    BY <2>1 DEF EInv, OneLive, Live
  <2>2. CASE deployed > 1
    BY <2>2 DEF EInv, ExecutorOwns, Owns
  <2> QED
    BY <2>1, <2>2 DEF EInv, IInv, TypeOK
<1> QED
  BY <1>1, <1>2, <1>3, PTL DEF Spec

-----------------------------------------------------------------------------
(* Stray documents.  Executors own their rows, so a document of a job that  *)
(* no other job asks for was stored by the worker that will settle it.      *)
Alone(j) == \A k \in Jobs \ {j} : Capture(k, Null) # Capture(j, Null)
Stored(j) == \E d \in documents : Capture(j, d.content) = d

EveryExecutorOwns == \A w \in Workers : pc[w] \in Executing => Owns(w, held[w])

StoredSettles ==
  \A j \in Jobs :
    crashes = 0 /\ Alone(j) /\ Stored(j) =>
      \/ status[j] = "succeeded"
      \/ \E w \in Workers :
           /\ pc[w] = "finish" /\ held[w] = j /\ outcome[w] = "succeeded"
           /\ lease_owner[j] = w

DInv == EInv /\ EveryExecutorOwns /\ StoredSettles

LEMMA EveryExecutorOwnsStep ==
  ASSUME Punctual, EInv, EveryExecutorOwns, [Next]_vars
  PROVE  EveryExecutorOwns'
<1> USE DEF Owns
<1>1. EInv'
  BY NextIInv, OneLiveStep, ExecutorOwnsStep DEF EInv
<1> SUFFICES ASSUME deployed' = 1, NEW v \in Workers, pc'[v] \in Executing
             PROVE  Owns(v, held[v])'
  BY <1>1 DEF EInv, IInv, TypeOK, ExecutorOwns, EveryExecutorOwns
<1>2. \A w \in Workers : pc'[w] # "down" => w = v
  BY <1>1 DEF EInv, OneLive, Live
<1>3. ASSUME NEW w \in Workers, Start(w) \/ Crash(w) \/ ClaimSelect(w) \/ ClaimMissed(w)
      PROVE  Owns(v, held[v])'
  BY <1>3, <1>2 DEF Start, Crash, Exit, ClaimSelect, ClaimMissed, EInv, IInv, TypeOK,
     EveryExecutorOwns
<1>4. ASSUME NEW w \in Workers, ClaimUpdate(w)
      PROVE  Owns(v, held[v])'
  BY <1>4, <1>2 DEF ClaimUpdate, EInv, IInv, TypeOK, Carries
<1>5. ASSUME NEW w \in Workers, Finish(w)
      PROVE  FALSE
  BY <1>5, <1>2 DEF Finish, Rest, EInv, IInv, TypeOK
<1>6. ASSUME NEW w \in Workers, Execute(w), ~Finish(w)
      PROVE  Owns(v, held[v])'
  BY <1>6, <1>2 DEF Execute, Exit, Rest, CollectPage, CollectNothing, CaptureRejected,
     CaptureConflict, CaptureDuplicate, CaptureLookup, CaptureStore, CaptureCollision,
     LeaseLost, EInv, IInv, TypeOK, EveryExecutorOwns
<1>7. ASSUME NEW j \in Jobs, Submit(j)
      PROVE  Owns(v, held[v])'
  BY <1>7 DEF Submit, EInv, IInv, TypeOK, EveryExecutorOwns
<1>8. CASE Tick
  BY <1>8 DEF Tick, EveryExecutorOwns
<1>9. CASE UNCHANGED vars
  BY <1>9 DEF vars, EveryExecutorOwns
<1> QED
  BY <1>3, <1>4, <1>5, <1>6, <1>7, <1>8, <1>9 DEF Next, Claim

LEMMA StoredSettlesStep ==
  ASSUME Punctual, DInv, [Next]_vars
  PROVE  StoredSettles'
<1> USE DEF Owns
<1>0. EInv /\ IInv /\ TypeOK /\ Carries /\ EveryExecutorOwns /\ StoredSettles
  BY DEF DInv, EInv, IInv
<1> SUFFICES ASSUME NEW j \in Jobs, crashes' = 0, Alone(j), Stored(j)'
             PROVE  \/ status'[j] = "succeeded"
                    \/ \E w \in Workers :
                         /\ pc'[w] = "finish" /\ held'[w] = j
                         /\ outcome'[w] = "succeeded" /\ lease_owner'[j] = w
  BY DEF StoredSettles, Alone
<1> DEFINE Settler(w) == /\ pc[w] = "finish" /\ held[w] = j
                         /\ outcome[w] = "succeeded" /\ lease_owner[j] = w
           Goal == \/ status'[j] = "succeeded"
                   \/ \E w \in Workers :
                        /\ pc'[w] = "finish" /\ held'[w] = j
                        /\ outcome'[w] = "succeeded" /\ lease_owner'[j] = w
<1>1. ASSUME NEW w \in Workers, CaptureStore(w), ~Stored(j)
      PROVE  Goal
  <2>1. PICK c \in Contents : document[w] = Capture(held[w], c)
    BY <1>0, <1>1 DEF CaptureStore, Carries
  <2>2. document[w] = Capture(j, document[w].content)
    BY <1>1 DEF CaptureStore, Stored
  <2>3. held[w] \in Jobs /\ outcome[w] = "succeeded"
    BY <1>0, <1>1 DEF CaptureStore, Carries
  <2>4. held[w] = j
    BY <2>1, <2>2, <2>3 DEF Alone, Capture
  <2>5. lease_owner[j] = w
    BY <1>0, <1>1, <2>4 DEF CaptureStore, EveryExecutorOwns
  <2> QED
    BY <1>0, <1>1, <2>3, <2>4, <2>5 DEF CaptureStore, TypeOK
<1>2. CASE Stored(j) /\ crashes = 0
  <2>1. status[j] = "succeeded" \/ \E w \in Workers : Settler(w)
    BY <1>0, <1>2 DEF StoredSettles
  <2>2. ASSUME NEW v \in Workers, ClaimUpdate(v) PROVE Goal
    <3>1. /\ held[v] \in Jobs /\ pc[v] = "claiming" /\ Claimable(held[v], lag[v])
          /\ status' = [status EXCEPT ![held[v]] = "running"]
          /\ lease_owner' = [lease_owner EXCEPT ![held[v]] = v]
          /\ held' = held /\ outcome' = outcome /\ pc' = [pc EXCEPT ![v] = "collect"]
      BY <1>0, <2>2 DEF ClaimUpdate, StillClaimable, Carries
    <3>2. CASE status[j] = "succeeded"
      <4>1. held[v] # j
        BY <3>1, <3>2 DEF Claimable
      <4> QED
        BY <1>0, <3>1, <3>2, <4>1 DEF TypeOK
    <3>3. ASSUME NEW w \in Workers, Settler(w) PROVE Goal
      <4>1. w # v
        BY <3>1, <3>3
      <4>2. deployed > 1
        BY <1>0, <3>1, <3>3, <4>1 DEF EInv, OneLive, Live, TypeOK
      <4>3. status[j] = "running" /\ lease_left[j] >= 1
        BY <1>0, <3>3, <4>2 DEF EInv, ExecutorOwns
      <4>4. held[v] # j
        <5>1. lag[v] >= 0 /\ lag[v] \in Int /\ lease_left[j] \in Int
          BY <1>0, LeaseAssumption DEF TypeOK
        <5> QED
          BY <3>1, <4>3, <5>1 DEF Claimable
      <4> QED
        BY <1>0, <3>1, <3>3, <4>1, <4>4 DEF TypeOK
    <3> QED
      BY <2>1, <3>2, <3>3
  <2>3. ASSUME NEW v \in Workers, Finish(v) PROVE Goal
    BY <1>0, <2>1, <2>3 DEF Finish, Rest, TypeOK, Carries
  <2>4. ASSUME NEW v \in Workers, LeaseLost(v) PROVE Goal
    BY <1>0, <2>1, <2>4 DEF LeaseLost, Rest, TypeOK, EveryExecutorOwns
  <2>5. ASSUME NEW v \in Workers, Start(v) \/ ClaimSelect(v) \/ ClaimMissed(v)
        PROVE  Goal
    BY <1>0, <2>1, <2>5 DEF Start, ClaimSelect, ClaimMissed, TypeOK
  <2>6. ASSUME NEW v \in Workers, Execute(v), ~Finish(v), ~LeaseLost(v) PROVE Goal
    BY <1>0, <2>1, <2>6 DEF Execute, Exit, CollectPage, CollectNothing, CaptureRejected,
       CaptureConflict, CaptureDuplicate, CaptureLookup, CaptureStore, CaptureCollision,
       TypeOK
  <2>7. ASSUME NEW k \in Jobs, Submit(k) PROVE Goal
    <3>1. k # j
      BY <1>0, <2>1, <2>7 DEF Submit, EveryExecutorOwns
    <3> QED
      BY <1>0, <2>1, <2>7, <3>1 DEF Submit, TypeOK
  <2>8. CASE Tick \/ UNCHANGED vars
    BY <2>1, <2>8 DEF Tick, vars
  <2>9. ASSUME NEW v \in Workers, Crash(v) PROVE FALSE
    BY <1>2, <2>9 DEF Crash
  <2> QED
    BY <2>2, <2>3, <2>4, <2>5, <2>6, <2>7, <2>8, <2>9 DEF Next, Claim
<1>3. crashes = 0
  <2>1. UNCHANGED crashes \/ \E w \in Workers : Crash(w)
    BY DEF Next, vars, Submit, Start, Claim, ClaimSelect, ClaimUpdate, ClaimMissed, Execute,
       CollectPage, CollectNothing, CaptureRejected, CaptureConflict, CaptureDuplicate,
       CaptureLookup, CaptureStore, CaptureCollision, Finish, LeaseLost, Tick
  <2>2. crashes \in Nat
    BY <1>0, LeaseAssumption DEF TypeOK
  <2> QED
    BY <2>1, <2>2 DEF Crash
<1>4. Stored(j) \/ \E w \in Workers : CaptureStore(w)
  BY DEF Stored, Next, vars, Submit, Start, Crash, Claim, ClaimSelect, ClaimUpdate,
     ClaimMissed, Execute, CollectPage, CollectNothing, CaptureRejected, CaptureConflict,
     CaptureDuplicate, CaptureLookup, CaptureCollision, Finish, LeaseLost, Tick
<1> QED
  BY <1>1, <1>2, <1>3, <1>4

(* Under the timing assumption and without a kill, a job that failed has    *)
(* left no document, unless another job asks for the same page.             *)
THEOREM FailuresLeaveNothing ==
  ASSUME Punctual
  PROVE  Spec => []FailureLeavesNoDocument
<1>1. Init => DInv
  <2>1. Init => OneLive /\ ExecutorOwns /\ EveryExecutorOwns /\ StoredSettles
    BY DEF Init, OneLive, ExecutorOwns, Live, EveryExecutorOwns, StoredSettles, Stored
  <2> QED
    BY <2>1, InitIInv DEF EInv, DInv
<1>2. DInv /\ [Next]_vars => DInv'
  BY NextIInv, OneLiveStep, ExecutorOwnsStep, EveryExecutorOwnsStep, StoredSettlesStep
  DEF EInv, DInv
<1>3. DInv => FailureLeavesNoDocument
  <2> SUFFICES ASSUME DInv, NEW j \in Jobs, status[j] \in Failures, crashes = 0,
                      Alone(j), Stored(j)
               PROVE  FALSE
    BY DEF FailureLeavesNoDocument, Alone, Stored
  <2>1. PICK w \in Workers : pc[w] = "finish" /\ held[w] = j
    BY DEF DInv, StoredSettles
  <2> QED
    BY <2>1 DEF DInv, EveryExecutorOwns, Owns
<1> QED
  BY <1>1, <1>2, <1>3, PTL DEF Spec
=============================================================================
