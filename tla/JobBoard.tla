------------------------------ MODULE JobBoard ------------------------------
(***************************************************************************)
(* What the connector queue promises to a client that polls a job          *)
(* (GET /connector-jobs/{id}): a submitted job is pending until it is      *)
(* settled, it is settled at most once, and a job settled as "succeeded"   *)
(* names one document that is in the store and was collected for it.       *)
(* Leases, owners, clocks and crashes do not exist at this level;          *)
(* ConnectorQueue implements this module.                                  *)
(***************************************************************************)
CONSTANTS
  Jobs,        \* connector jobs that may be submitted
  EvidenceOf,  \* job -> the documents a collection of it may store
  Null         \* "no document"

VARIABLES
  verdict,        \* job -> "absent", "pending", or its terminal status
  evidence,       \* job -> the linked document, or Null
  store           \* the documents stored so far

vars == <<verdict, evidence, store>>

Failures == {"blocked", "unavailable"}

Init ==
  /\ verdict = [j \in Jobs |-> "absent"]
  /\ evidence = [j \in Jobs |-> Null]
  /\ store = {}

Accept(j) ==
  /\ verdict[j] = "absent"
  /\ verdict' = [verdict EXCEPT ![j] = "pending"]
  /\ UNCHANGED <<evidence, store>>

(* A document is stored while the job it is collected for is accepted, and *)
(* no document is ever removed.                                            *)
Store(j) ==
  /\ verdict[j] # "absent"
  /\ \E d \in EvidenceOf[j] : store' = store \cup {d}
  /\ UNCHANGED <<verdict, evidence>>

SettleWithout(j) ==
  /\ verdict[j] = "pending"
  /\ \E f \in Failures : verdict' = [verdict EXCEPT ![j] = f]
  /\ UNCHANGED <<evidence, store>>

SettleWith(j) ==
  /\ verdict[j] = "pending"
  /\ verdict' = [verdict EXCEPT ![j] = "succeeded"]
  /\ \E d \in EvidenceOf[j] \cap store : evidence' = [evidence EXCEPT ![j] = d]
  /\ UNCHANGED store

Next == \E j \in Jobs : Accept(j) \/ Store(j) \/ SettleWithout(j) \/ SettleWith(j)

Spec == Init /\ [][Next]_vars
=============================================================================
