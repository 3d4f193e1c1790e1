------------------------- MODULE JobSubmissionProofs -------------------------
(***************************************************************************)
(* What JobSubmission guarantees for every set of requests, keys and       *)
(* payloads.                                                               *)
(***************************************************************************)
EXTENDS JobSubmission, TLAPS

(* What the unique constraint keeps true of the table.                      *)
UniqueKeys == \A p, q \in jobs : SameKey(p, q) => p = q

(* What a task knows: it has decided nothing before it replies or fails,    *)
(* and what it decides rests on a committed row of its key, so that the key *)
(* of every request that ended has a row.                                   *)
Decided ==
  \A q \in Requests :
    /\ pc[q] \in {"lookup", "insert"} => decision[q] = Undecided
    /\ pc[q] \in {"reply", "answered"} => decision[q] \notin {Undecided, Failed}
    /\ pc[q] = "failed" => decision[q] = Failed
    /\ \/ decision[q] = Undecided
       \/ decision[q] = Created(q) /\ q \in jobs
       \/ \E r \in jobs : SameKey(r, q) /\ decision[q] \in {Failed, Verdict(q, r)}

(* A request whose key was settled before its lookup was decided by it.     *)
Repeats ==
  \A p, q \in Requests :
    p \in heard[q] /\ SameKey(p, q) =>
      /\ pc[q] \in {"reply", "answered", "lost"}
      /\ \E r \in jobs : SameKey(r, q) /\ decision[q] = Verdict(q, r)

(* Before its lookup a request has heard of nobody.                         *)
HeardNothing == \A q \in Requests : pc[q] = "lookup" => heard[q] = {}

IInv == TypeOK /\ UniqueKeys /\ Decided /\ Repeats /\ HeardNothing

LEMMA DecisionsDiffer ==
  ASSUME NEW q \in Requests
  PROVE  /\ Created(q) \notin {Undecided, Failed, Conflict}
         /\ Existing(q) \notin {Undecided, Failed, Conflict}
         /\ Conflict \notin {Undecided, Failed}
         /\ Failed # Undecided
         /\ Created(q).job = q /\ Existing(q).job = q
BY DEF Created, Existing, Conflict, Undecided, Failed

LEMMA InitIInv == Init => IInv
BY DEF Init, IInv, TypeOK, UniqueKeys, Decided, Places, Repeats, HeardNothing

(* The key of a request that ended has a row.                               *)
LEMMA EndedHasRow ==
  ASSUME IInv, NEW p \in Requests, Ended(p), KeyOf[p] # Null
  PROVE  \E r \in jobs : SameKey(r, p)
<1>1. decision[p] # Undecided
  BY DecisionsDiffer DEF Ended, IInv, Decided
<1> QED
  BY <1>1 DEF IInv, Decided, SameKey

LEMMA FoundIInv ==
  ASSUME IInv, NEW q \in Requests, LookupFound(q)
  PROVE  IInv'
<1> USE DEF LookupFound, Lookup
<1>1. PICK r \in FindIdempotent(q) : decision' = [decision EXCEPT ![q] = Verdict(q, r)]
  OBVIOUS
<1>2. r \in jobs /\ r \in Requests /\ SameKey(r, q)
  BY DEF FindIdempotent, IInv, TypeOK
<1>3. /\ Verdict(q, r) \in {Conflict, Existing(r)}
      /\ Verdict(q, r) \notin {Undecided, Failed}
  BY <1>2, DecisionsDiffer DEF Verdict
<1>4. TypeOK'
  BY <1>1, <1>2, <1>3 DEF IInv, TypeOK, Places, Ended
<1>5. UniqueKeys'
  BY DEF IInv, UniqueKeys, SameKey
<1>6. Decided'
  BY <1>1, <1>2, <1>3 DEF IInv, Decided, TypeOK, SameKey, Verdict
<1>7. Repeats'
  BY <1>1, <1>2 DEF IInv, Repeats, TypeOK, SameKey, Verdict
<1>8. HeardNothing'
  BY DEF IInv, HeardNothing, TypeOK
<1> QED
  BY <1>4, <1>5, <1>6, <1>7, <1>8 DEF IInv

(* A miss shows that no request with the key had ended: its row would be    *)
(* there.                                                                   *)
LEMMA MissedIInv ==
  ASSUME IInv, NEW q \in Requests, LookupMissed(q)
  PROVE  IInv'
<1> USE DEF LookupMissed, Lookup
<1>1. TypeOK' /\ UniqueKeys'
  BY DEF IInv, TypeOK, Places, UniqueKeys, SameKey, Ended
<1>2. Decided'
  BY DEF IInv, Decided, TypeOK, SameKey, Verdict
<1>3. ASSUME NEW p \in Requests, p \in heard'[q], SameKey(p, q) PROVE FALSE
  <2>1. Ended(p) /\ KeyOf[p] # Null
    BY <1>3 DEF IInv, TypeOK, SameKey
  <2>2. PICK r \in jobs : SameKey(r, p)
    BY <2>1, EndedHasRow
  <2> QED
    BY <2>2, <1>3 DEF SameKey, FindIdempotent
<1>4. Repeats'
  BY <1>3 DEF IInv, Repeats, TypeOK, SameKey, Verdict
<1>5. HeardNothing'
  BY DEF IInv, HeardNothing, TypeOK
<1> QED
  BY <1>1, <1>2, <1>4, <1>5 DEF IInv

LEMMA InsertIInv ==
  ASSUME IInv, NEW q \in Requests, InsertCommitted(q)
  PROVE  IInv'
<1> USE DEF InsertCommitted
<1>1. TypeOK'
  BY DEF IInv, TypeOK, Places
<1>2. UniqueKeys'
  BY DEF IInv, UniqueKeys, SameKey, Violations
<1>3. Decided'
  BY DecisionsDiffer DEF IInv, Decided, TypeOK, SameKey, Verdict
<1>4. Repeats'
  BY DEF IInv, Repeats, TypeOK, SameKey, Verdict
<1>5. HeardNothing'
  BY DEF IInv, HeardNothing, TypeOK
<1> QED
  BY <1>1, <1>2, <1>3, <1>4, <1>5 DEF IInv

LEMMA QuietIInv ==
  ASSUME IInv, NEW q \in Requests, InsertRefused(q) \/ Reply(q) \/ Lose(q)
  PROVE  IInv'
<1> USE DEF InsertRefused, Reply, Lose, Ended
<1>1. TypeOK' /\ UniqueKeys'
  BY DEF IInv, TypeOK, Places, UniqueKeys, SameKey
<1>2. Decided'
  BY DecisionsDiffer DEF IInv, Decided, TypeOK, SameKey, Violations, Verdict
<1>3. Repeats'
  BY DEF IInv, Repeats, TypeOK, SameKey, Verdict
<1>4. HeardNothing'
  BY DEF IInv, HeardNothing, TypeOK
<1> QED
  BY <1>1, <1>2, <1>3, <1>4 DEF IInv

LEMMA NextIInv == IInv /\ [Next]_vars => IInv'
<1> SUFFICES ASSUME IInv, [Next]_vars PROVE IInv'
  OBVIOUS
<1>1. ASSUME NEW q \in Requests, Serve(q) \/ Lose(q) PROVE IInv'
  BY <1>1, FoundIInv, MissedIInv, InsertIInv, QuietIInv DEF Serve
<1>2. CASE UNCHANGED vars
  BY <1>2 DEF vars, IInv, TypeOK, UniqueKeys, Decided, Repeats, HeardNothing,
              SameKey, Verdict
<1> QED
  BY <1>1, <1>2 DEF Next

LEMMA Inductive == Spec => []IInv
BY InitIInv, NextIInv, PTL DEF Spec

-----------------------------------------------------------------------------
(* Requests with one key that are answered with a job name one job and have *)
(* one payload, whichever raced, were lost or failed (create_connector_job). *)
THEOREM KeysNameOneJob == Spec => []OneJobPerKey
<1>1. IInv => OneJobPerKey
  <2> SUFFICES ASSUME IInv, NEW p \in Requests, NEW q \in Requests,
                      pc[p] = "answered", pc[q] = "answered",
                      SameKey(p, q), decision[p] # Conflict,
                      decision[q] # Conflict
               PROVE  decision[p].job = decision[q].job /\ HashOf[p] = HashOf[q]
    BY DEF OneJobPerKey, SameKey
  <2>1. ASSUME NEW x \in Requests, pc[x] = "answered", decision[x] # Conflict
        PROVE  \E r \in jobs : /\ decision[x].job = r /\ HashOf[r] = HashOf[x]
                               /\ KeyOf[r] = KeyOf[x] /\ RunOf[r] = RunOf[x]
    BY <2>1, DecisionsDiffer DEF IInv, TypeOK, Decided, SameKey, Verdict
  <2>2. PICK r \in jobs : /\ decision[p].job = r /\ HashOf[r] = HashOf[p]
                          /\ KeyOf[r] = KeyOf[p] /\ RunOf[r] = RunOf[p]
    BY <2>1
  <2>3. PICK s \in jobs : /\ decision[q].job = s /\ HashOf[s] = HashOf[q]
                          /\ KeyOf[s] = KeyOf[q] /\ RunOf[s] = RunOf[q]
    BY <2>1
  <2>4. r = s
    BY <2>2, <2>3 DEF IInv, UniqueKeys, SameKey
  <2> QED
    BY <2>2, <2>3, <2>4
<1> QED
  BY <1>1, Inductive, PTL

(* A request that looks its key up after an earlier one with that key had   *)
(* ended, even with a 500, is told of the job or of the conflict: a failure *)
(* takes a race (_find_idempotent_job, create_connector_job).               *)
THEOREM RepeatsAreAnswered == Spec => []RepeatsFindTheJob
<1>1. IInv => RepeatsFindTheJob
  BY DEF IInv, Repeats, RepeatsFindTheJob, Ended
<1> QED
  BY <1>1, Inductive, PTL

(* Tasks answer with a job, a conflict, a failure or nothing yet, and rows  *)
(* are those of requests (create_connector_job).                            *)
THEOREM SubmissionTypes == Spec => []TypeOK
<1>1. IInv => TypeOK
  BY DEF IInv
<1> QED
  BY <1>1, Inductive, PTL

-----------------------------------------------------------------------------
(* The commit of a row, its refusal and a lookup that finds one are the     *)
(* points at which a request is decided; all other steps are invisible.     *)
USE DEF Atomic!vars, Atomic!Created, Atomic!Existing, Atomic!Conflict,
        Atomic!Undecided, Atomic!Failed,
        Created, Existing, Conflict, Undecided, Failed

LEMMA AtomicFound ==
  ASSUME IInv, NEW q \in Requests, LookupFound(q)
  PROVE  Atomic!Recall(q)
BY DEF IInv, Decided, LookupFound, Lookup, FindIdempotent, SameKey, Verdict,
       Atomic!Recall, Atomic!Rivals, Atomic!Verdict

LEMMA AtomicInsert ==
  ASSUME IInv, NEW q \in Requests, InsertCommitted(q)
  PROVE  Atomic!Create(q)
BY DEF IInv, Decided, InsertCommitted, Violations, SameKey,
       Atomic!Create, Atomic!Rivals

LEMMA AtomicRefused ==
  ASSUME IInv, NEW q \in Requests, InsertRefused(q)
  PROVE  Atomic!Fail(q)
BY DEF IInv, Decided, InsertRefused, Violations, SameKey,
       Atomic!Fail, Atomic!Rivals

(* Racing tasks decide each request as one indivisible step would, and one  *)
(* that fails has changed nothing (create_connector_job).                   *)
THEOREM SubmissionIsAtomic == Spec => ImplementsAtomic
<1>1. Init => Atomic!Init
  BY DEF Init, Atomic!Init
<1>2. ASSUME IInv, [Next]_vars PROVE [Atomic!Next]_(Atomic!vars)
  <2>1. ASSUME NEW q \in Requests,
               LookupFound(q) \/ InsertCommitted(q) \/ InsertRefused(q)
        PROVE  Atomic!Next
    BY <1>2, <2>1, AtomicFound, AtomicInsert, AtomicRefused DEF Atomic!Next
  <2>2. ASSUME NEW q \in Requests, LookupMissed(q) \/ Reply(q) \/ Lose(q)
        PROVE  UNCHANGED Atomic!vars
    BY <2>2 DEF LookupMissed, Reply, Lose
  <2>3. CASE UNCHANGED vars
    BY <2>3 DEF vars
  <2> QED
    BY <1>2, <2>1, <2>2, <2>3 DEF Next, Serve
<1>3. IInv /\ [Next]_vars => [Atomic!Next]_(Atomic!vars)
  BY <1>2
<1> QED
  BY <1>1, <1>3, Inductive, PTL
     DEF Spec, ImplementsAtomic, Atomic!Spec
=============================================================================
