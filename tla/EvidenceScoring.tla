--------------------------- MODULE EvidenceScoring ---------------------------
(***************************************************************************)
(* The pure part of reasoning over one claim cluster: documents are        *)
(* grouped by assign_independence_groups (domain/independence.py), a       *)
(* union-find over their signals, then the evidence found in them is       *)
(* aggregated (Scoring).                                                   *)
(*                                                                         *)
(* Documents come one after the other, in an order that is left open here; *)
(* the signals of one come out of a Python set, in any order.              *)
(* Its names are its own (ScoringInit, ...), so that the proofs about       *)
(* ReasoningReports can build on those about scores.                       *)
(***************************************************************************)
EXTENDS Independence, Scoring

CONSTANTS
  Documents,     \* document identifiers, ordered as their strings are
  Profiles,      \* the sets of signals that a document may have
  Evidence,      \* evidence links of the cluster
  Readings       \* what a link may be: [doc, stance, quality]

ASSUME DocumentsAssumption ==
  /\ Documents \subseteq Nat /\ IsFiniteSet(Documents)
  /\ Evidence \subseteq Nat /\ IsFiniteSet(Evidence) /\ Cardinality(Evidence) <= Most

(* calculate_evidence_quality ends in a weighted mean of clamped values.    *)
ASSUME ReadingsAssumption ==
  \A r \in Readings : r.doc \in Documents /\ r.quality \in 0..Scale

(* _signals: every document has a source; the prefixes are those of        *)
(* _preferred_group.                                                       *)
ASSUME ProfilesAssumption ==
  \A P \in Profiles :
    /\ \E s \in P : s.kind = "source"
    /\ \A s \in P : s.value \in Nat /\ \E i \in 1..4 : s.kind = Priority[i]

VARIABLES
  signals,       \* document -> its signals
  parents,       \* the union-find forest
  owners,        \* signal -> the document that was first seen with it
  todo,          \* [doc, signal] pairs that are still to be united
  items          \* the evidence with its groups, once aggregated

scoringVars == <<signals, parents, owners, todo, items>>

AllSignals == UNION Profiles
Nobody == -1

ScoringInit ==
  /\ signals \in [Documents -> Profiles]
  /\ parents = [d \in Documents |-> d]
  /\ owners = [s \in AllSignals |-> Nobody]
  /\ todo = {p \in [doc : Documents, signal : AllSignals] :
               p.signal \in signals[p.doc]}
  /\ items = {}

(***************************************************************************)
(* find and union                                                          *)
(***************************************************************************)
(* The document after n steps towards the root.                            *)
Ancestor(d) ==
  LET up[n \in Nat] == IF n = 0 THEN d ELSE parents[up[n - 1]] IN up

Root(d) == Ancestor(d)[Cardinality(Documents)]

OnPath(d, e) == \E n \in 0..Cardinality(Documents) : Ancestor(d)[n] = e

(* find leaves every document of the path right below the root; union puts *)
(* the larger root below the smaller.                                      *)
Compressed(d, e) ==
  [x \in Documents |->
     IF OnPath(d, x) \/ OnPath(e, x) THEN Root(x) ELSE parents[x]]

(* Mutant: union links the documents and not their roots. *)
UniteDocuments(d, e) ==
  IF d < e THEN [parents EXCEPT ![e] = d] ELSE [parents EXCEPT ![d] = e]

United(d, e) ==
  LET p == Compressed(d, e)
      left == Root(d)
      right == Root(e)
  IN IF left < right THEN [p EXCEPT ![right] = left]
     ELSE IF right < left THEN [p EXCEPT ![left] = right]
     ELSE p

Left(d) == {p \in todo : p.doc = d}

Unite(d, s) ==
  /\ [doc |-> d, signal |-> s] \in todo
  /\ \A e \in Documents \ {d} :
       Cardinality(Left(e)) \in {0, Cardinality(signals[e])}
  /\ LET owner == IF owners[s] = Nobody THEN d ELSE owners[s] IN
       /\ owners' = [owners EXCEPT ![s] = owner]
       /\ parents' = United(owner, d)
  /\ todo' = todo \ {[doc |-> d, signal |-> s]}
  /\ UNCHANGED <<signals, items>>

(***************************************************************************)
(* component_ids and assignments, then aggregate_cluster                   *)
(***************************************************************************)
Found(d) == {e \in Documents : Root(e) = Root(d)}
Group(d) == Preferred(Reasons(signals, Found(d)))

Item(l, reading) ==
  [link |-> l, stance |-> reading.stance, group |-> Group(reading.doc),
   quality |-> reading.quality, doc |-> reading.doc]

Aggregate ==
  /\ todo = {} /\ items = {}
  /\ \E read \in [Evidence -> Readings] :
       items' = {Item(l, read[l]) : l \in Evidence}
  /\ UNCHANGED <<signals, parents, owners, todo>>

ScoringNext ==
  \/ \E d \in Documents, s \in AllSignals : Unite(d, s)
  \/ Aggregate

ScoringSpec == ScoringInit /\ [][ScoringNext]_scoringVars

-----------------------------------------------------------------------------
(* While documents are united, the forest points to smaller identifiers     *)
(* inside a component, and a signal belongs to a document that has it; in   *)
(* the end two documents have one root exactly when signals connect them,   *)
(* and one group name exactly when they have one root, in whatever order    *)
(* the signals were met.                                                    *)
GroupsAreComponents ==
  /\ \A d \in Documents :
       parents[d] <= d /\ parents[d] \in Component(signals, d)
  /\ \A s \in AllSignals :
       owners[s] # Nobody => s \in signals[owners[s]]
  /\ todo = {} =>
       \A d, e \in Documents :
         /\ Root(d) = Root(e) <=> e \in Component(signals, d)
         /\ Group(d) = Group(e) <=> Root(d) = Root(e)

(* The items as they would count if no two documents depended on each       *)
(* other.                                                                   *)
Apart == {[i EXCEPT !.group = i.doc] : i \in items}

(* Dependence among documents never adds strength to either side, and what  *)
(* is well supported is supported by documents that no signals connect.     *)
DependenceNeverAddsStrength ==
  /\ Support(items) <= Support(Apart)
  /\ Contradiction(items) <= Contradiction(Apart)
  /\ Label(items) = "well_supported" =>
       \E i, j \in Of(items, "supports") :
         j.doc \notin Component(signals, i.doc)

(* With the groups of the documents held fixed, one more piece of evidence  *)
(* pulls the confidence its own way: support never lowers it, contradiction *)
(* never raises it, other stances leave it (aggregate_cluster).  Reasoning  *)
(* assigns the groups anew, and a document that connects two groups may     *)
(* lower the confidence although it supports: two supports then count as    *)
(* one.                                                                     *)
EvidencePullsItsWay ==
  \A i \in items :
    LET before == Confidence(items \ {i})
        after == Confidence(items)
    IN CASE i.stance = "supports" -> before <= after
         [] i.stance = "contradicts" -> after <= before
         [] OTHER -> after = before
=============================================================================
