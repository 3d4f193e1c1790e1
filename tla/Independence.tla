---------------------------- MODULE Independence ----------------------------
(***************************************************************************)
(* What the grouping of documents by dependency signals promises           *)
(*   backend/app/domain/independence.py                                    *)
(* Signals is a function from documents to their signals, each with a kind *)
(* and a value that orders the signals of a kind.  EvidenceScoring         *)
(* computes these groups with the union-find of the code.                  *)
(***************************************************************************)
EXTENDS Integers, FiniteSets

Priority == <<"upstream", "content", "publisher-family", "source">>

(* Dependence is transitive: two documents depend on each other when no    *)
(* set closed under shared signals separates them.                         *)
ClosedUnderSharing(signals, S) ==
  \A d \in S, e \in DOMAIN signals :
    signals[d] \cap signals[e] # {} => e \in S

Component(signals, d) ==
  {e \in DOMAIN signals :
     \A S \in SUBSET DOMAIN signals :
       d \in S /\ ClosedUnderSharing(signals, S) => e \in S}

(* The reasons of a component: its signals that more than one document     *)
(* carries, or the source of its only document.                            *)
Reasons(signals, C) ==
  LET shared == {s \in UNION {signals[d] : d \in C} :
                   \E d, e \in DOMAIN signals :
                     d # e /\ s \in signals[d] \cap signals[e]}
  IN IF shared # {} THEN shared
     ELSE {s \in UNION {signals[d] : d \in C} : s.kind = "source"}

(* _preferred_group: the least reason of the first kind that has one.      *)
Preferred(reasons) ==
  LET rank == CHOOSE i \in DOMAIN Priority :
                /\ \E s \in reasons : s.kind = Priority[i]
                /\ \A j \in 1..(i - 1) :
                     \A s \in reasons : s.kind # Priority[j]
      first == {s \in reasons : s.kind = Priority[rank]}
  IN CHOOSE s \in first : \A t \in first : s.value <= t.value

GroupOf(signals, d) == Preferred(Reasons(signals, Component(signals, d)))
=============================================================================
