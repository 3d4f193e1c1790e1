------------------------- MODULE EvidenceStoreProofs -------------------------
(***************************************************************************)
(* Proofs about EvidenceStore: its answers are true for every number of    *)
(* captures, and a declared family is lost to a stale read only.           *)
(***************************************************************************)
EXTENDS EvidenceStore, TLAPS

(* What a session has read of a source row stays there, and so does the     *)
(* source of a stored document: rows are never deleted.                     *)
RowsStay ==
  /\ \A k \in Keys : documents[k] # Absent => family[documents[k]] # Absent
  /\ \A t \in Captures :
       seen[t] # Absent => target[t] # Absent /\ family[target[t]] # Absent
  /\ \A t \in Captures :
       pc[t] = "confirm" => seen[t] # Absent /\ documents[Key(t)] # Absent

IInv == TypeOK /\ AnswersAreTrue /\ RowsStay

LEMMA KeyInKeys == \A t \in Captures : Key(t) \in Keys
  BY DEF Keys

(* A family that is written is a family or a NULL, never a missing row.     *)
LEMMA FamilyWrittenExists ==
  ASSUME IInv, NEW t \in Captures, pc[t] \in {"confirm", "write"}
  PROVE  /\ target[t] \in Sources
         /\ FamilyWritten(t) \in Families \cup {Undeclared}
<1>1. target[t] \in Sources
  BY DEF IInv, TypeOK
<1>2. FamilyOf[t] # Undeclared => FamilyOf[t] \in Families
  BY DEF Families
<1>3. seen[t] # Absent => family[target[t]] \in Families \cup {Undeclared}
  BY <1>1 DEF IInv, TypeOK, RowsStay
<1> QED
  BY <1>1, <1>2, <1>3 DEF FamilyWritten

LEMMA InitInvariant == Init => IInv
  BY NamesAssumption, TransactionsAssumption, KeyInKeys
  DEF Init, IInv, TypeOK, AnswersAreTrue, RowsStay, Places

LEMMA StepInvariant == IInv /\ [Next]_vars => IInv'
<1> SUFFICES ASSUME IInv, [Next]_vars PROVE IInv'
  OBVIOUS
<1> USE NamesAssumption, TransactionsAssumption, KeyInKeys
<1>1. ASSUME NEW t \in Captures, DocumentFound(t) PROVE IInv'
  <2>1. documents[Key(t)] \in Sources
    BY <1>1 DEF IInv, TypeOK, DocumentFound, Found
  <2>2. family[documents[Key(t)]] \in Families \cup {Undeclared}
    BY <1>1, <2>1 DEF IInv, TypeOK, RowsStay, DocumentFound, Found
  <2>3. /\ target' = [target EXCEPT ![t] = documents[Key(t)]]
        /\ seen' = [seen EXCEPT ![t] = family[documents[Key(t)]]]
        /\ \/ pc' = [pc EXCEPT ![t] = "conflict"]
           \/ pc' = [pc EXCEPT ![t] = "confirm"]
        /\ UNCHANGED <<family, documents, links, creator>>
    BY <1>1 DEF DocumentFound, Load, Goto
  <2>4. TypeOK'
    BY <2>1, <2>2, <2>3 DEF IInv, TypeOK, Places
  <2>5. AnswersAreTrue'
    BY <2>3 DEF IInv, TypeOK, AnswersAreTrue
  <2>6. RowsStay'
    BY <1>1, <2>1, <2>2, <2>3 DEF IInv, TypeOK, RowsStay, DocumentFound, Found
  <2> QED BY <2>4, <2>5, <2>6 DEF IInv
<1>2. ASSUME NEW t \in Captures, Confirm(t) PROVE IInv'
  <2>1. /\ target[t] \in Sources
        /\ FamilyWritten(t) \in Families \cup {Undeclared}
    BY <1>2, FamilyWrittenExists DEF Confirm
  <2>2. TypeOK'
    BY <1>2, <2>1 DEF IInv, TypeOK, Confirm, Goto, Places
  <2>3. AnswersAreTrue'
    BY <1>2, <2>1 DEF IInv, TypeOK, AnswersAreTrue, RowsStay, Confirm, Goto
  <2>4. RowsStay'
    BY <1>2, <2>1 DEF IInv, TypeOK, RowsStay, Confirm, Goto
  <2> QED BY <2>2, <2>3, <2>4 DEF IInv
<1>3. ASSUME NEW t \in Captures, DocumentMissing(t) PROVE IInv'
  BY <1>3 DEF DocumentMissing, Goto, IInv, TypeOK, AnswersAreTrue, RowsStay, Places
<1>4. ASSUME NEW t \in Captures, SourceLookup(t) PROVE IInv'
  <2>1. SourceOf[t] \in Sources
    BY DEF Sources
  <2>2. /\ pc[t] = "source"
        /\ target' = [target EXCEPT ![t] = SourceOf[t]]
        /\ seen' = [seen EXCEPT ![t] = family[SourceOf[t]]]
        /\ \/ pc' = [pc EXCEPT ![t] = "conflict"]
           \/ pc' = [pc EXCEPT ![t] = "write"]
        /\ UNCHANGED <<family, documents, links, creator>>
    BY <1>4 DEF SourceLookup, Load, Goto
  <2>3. TypeOK'
    BY <2>1, <2>2 DEF IInv, TypeOK, Places
  <2>4. AnswersAreTrue'
    BY <2>2 DEF IInv, TypeOK, AnswersAreTrue
  <2>5. RowsStay'
    BY <2>1, <2>2 DEF IInv, TypeOK, RowsStay
  <2> QED BY <2>3, <2>4, <2>5 DEF IInv
<1>5. ASSUME NEW t \in Captures, Write(t) PROVE IInv'
  <2>1. /\ target[t] \in Sources
        /\ FamilyWritten(t) \in Families \cup {Undeclared}
    BY <1>5, FamilyWrittenExists DEF Write
  <2>2. documents[Key(t)] = Absent
    BY <1>5 DEF Write, Collides
  <2>3. TypeOK'
    BY <1>5, <2>1 DEF IInv, TypeOK, Write, Goto, Places
  <2>4. AnswersAreTrue'
    BY <1>5, <2>1, <2>2 DEF IInv, TypeOK, AnswersAreTrue, Write, Goto
  <2>5. RowsStay'
    BY <1>5, <2>1 DEF IInv, TypeOK, RowsStay, Write, Goto
  <2> QED BY <2>3, <2>4, <2>5 DEF IInv
<1>6. ASSUME NEW t \in Captures, WriteFails(t) PROVE IInv'
  BY <1>6 DEF WriteFails, Goto, IInv, TypeOK, AnswersAreTrue, RowsStay, Places
<1>7. ASSUME NEW t \in Captures \cup Links, Retry(t) PROVE IInv'
  BY <1>7 DEF Retry, Goto, IInv, TypeOK, AnswersAreTrue, RowsStay, Places
<1>8. ASSUME NEW l \in Links, Link(l) PROVE IInv'
  <2>1. /\ l \notin Captures
        /\ \E p \in Places : pc' = [pc EXCEPT ![l] = p]
        /\ links' \in {links, links \cup {Upstream(l)}}
        /\ UNCHANGED <<family, documents, target, seen, creator>>
    BY <1>8 DEF Link, LinkUnknownDocument, LinkLookup, LinkInsert, Goto, Places
  <2>2. TypeOK'
    BY <2>1 DEF IInv, TypeOK
  <2>3. AnswersAreTrue' /\ RowsStay'
    BY <2>1 DEF IInv, TypeOK, AnswersAreTrue, RowsStay
  <2> QED BY <2>2, <2>3 DEF IInv
<1>9. CASE UNCHANGED vars
  BY <1>9 DEF vars, IInv, TypeOK, AnswersAreTrue, RowsStay
<1> QED
  BY <1>1, <1>2, <1>3, <1>4, <1>5, <1>6, <1>7, <1>8, <1>9 DEF Next, Capture

LEMMA Invariant == Spec => []IInv
  BY InitInvariant, StepInvariant, PTL DEF Spec

(* What a client is told of its capture is so, and one capture of a         *)
(* document only is told that it created it.                                *)
THEOREM AnswersAreTrueAlways == Spec => []AnswersAreTrue
<1>1. IInv => AnswersAreTrue
  BY DEF IInv
<1> QED BY <1>1, Invariant, PTL

(* Rows hold what their columns may hold, and a session that is about to    *)
(* write has a source to write to (capture_document).                       *)
THEOREM StoreTypes == Spec => []TypeOK
<1>1. IInv => TypeOK
  BY DEF IInv
<1> QED BY <1>1, Invariant, PTL

(* A declared publisher family is replaced only by a transaction that read  *)
(* the source while its family was still NULL (apply_publisher_family).     *)
THEOREM StaleReadsOnly == Spec => FamilyYieldsOnlyToStaleReads
<1> DEFINE Yields ==
      \A s \in Sources :
        family[s] \in Families /\ family'[s] # family[s] =>
          \E t \in Captures :
            /\ pc[t] \in {"confirm", "write"} /\ pc'[t] # pc[t]
            /\ target[t] = s /\ seen[t] = Undeclared
<1>1. IInv /\ [Next]_vars => [Yields]_vars
  <2> SUFFICES ASSUME IInv, [Next]_vars, NEW s \in Sources,
                      family[s] \in Families, family'[s] # family[s]
               PROVE  \E t \in Captures :
                        /\ pc[t] \in {"confirm", "write"} /\ pc'[t] # pc[t]
                        /\ target[t] = s /\ seen[t] = Undeclared
    OBVIOUS
  <2>1. PICK t \in Captures : Confirm(t) \/ Write(t)
    BY DEF Next, Capture, Link, DocumentFound, DocumentMissing, SourceLookup, WriteFails,
           Retry, LinkUnknownDocument, LinkLookup, LinkInsert, vars
  <2>2. /\ pc[t] \in {"confirm", "write"}
        /\ pc'[t] # pc[t]
        /\ family' = [family EXCEPT ![target[t]] = FamilyWritten(t)]
    BY <2>1 DEF Confirm, Write, Goto, IInv, TypeOK
  <2>3. target[t] = s /\ FamilyWritten(t) # family[s]
    BY <2>2 DEF IInv, TypeOK
  <2>4. seen[t] # Absent
    <3>1. CASE Confirm(t)
      BY <3>1 DEF Confirm, IInv, RowsStay
    <3>2. CASE Write(t)
      BY <3>2, <2>3, NamesAssumption DEF Write, Collides
    <3> QED BY <2>1, <3>1, <3>2
  <2>5. seen[t] = Undeclared
    BY <2>3, <2>4 DEF FamilyWritten
  <2> QED BY <2>2, <2>3, <2>5
<1> QED
  BY <1>1, Invariant, PTL DEF Spec, FamilyYieldsOnlyToStaleReads
=============================================================================
