----------------------- MODULE ReasoningReportsProofs -----------------------
(* Proofs about ReasoningReports, for any number of claims and requests.    *)
EXTENDS ReasoningReports, EvidenceScoringProofs

-----------------------------------------------------------------------------
(* The inductive invariant                                                  *)

IsFunctionOn(f, S) == f = [x \in S |-> f[x]]

Actions == {d.action : d \in Decisions}
Reading == {"clusters", "claims", "scores", "write"}
Reasoned == {r \in Reasonings : pc[r] = "done"}
Answered == {"existing", "created"}

Types ==
  /\ TypeOK
  /\ IsFunctionOn(pc, Requests) /\ IsFunctionOn(mind, Requests)
  /\ \A v \in Reviews : pc[v] \in {"start", "commit", "done"}
  /\ \A r \in Reasonings : pc[r] \in {"start", "done", "error"} \cup Reading
  /\ \A g \in Generators :
       pc[g] \in {"start", "draft", "refused", "insert", "error"} \cup Answered

(* Every commit is of another reasoning, and a cluster has an identifier of *)
(* its own key.                                                             *)
Counted == commits = Cardinality(Reasoned)
OwnIds ==
  \A k \in Keys :
    clusters[k] # Absent => clusters[k].id \in (0..commits) \X {k}

(* A review knows the status of its claim, or another review of it was      *)
(* committed since.                                                         *)
ReviewsKnow ==
  \A v \in Reviews :
    /\ pc[v] \in {"commit", "done"} =>
         /\ mind[v].claim \in Claims /\ mind[v].action \in Actions
         /\ mind[v].after \subseteq Done
    /\ pc[v] = "commit" =>
         \/ mind[v].seen = status[mind[v].claim]
         \/ \E w \in Done \ mind[v].after : mind[w].claim = mind[v].claim

(* The session of a reasoning; while no other has been committed, what it   *)
(* has loaded is what is stored, and while no review was, the claims that   *)
(* it takes for active are.                                                 *)
Session ==
  [active : SUBSET Claims, loaded : [Claims -> Ids \cup {Absent}],
   existing : [Keys -> Ids \cup {Absent}], scores : [Keys -> Row(Ids) \cup {Absent}],
   began : 0..commits, asOf : SUBSET Done]

ReasoningsKnow ==
  \A r \in Reasonings :
    pc[r] \in Reading =>
      /\ mind[r] \in Session
      /\ mind[r].asOf = Done => mind[r].active = {c \in Claims : Active(c)}
      /\ mind[r].began = commits =>
           /\ mind[r].loaded = member /\ mind[r].scores = clusters
           /\ pc[r] # "clusters" => mind[r].existing = [k \in Keys |-> IdOf(k)]

(* After a reasoning that ran alone, a score is based on the evidence of    *)
(* the members of its cluster, all of them active if no review was          *)
(* committed since.                                                         *)
Members(k) == {c \in Claims : member[c] = IdOf(k)}
Fits ==
  \A k \in Keys :
    clusters[k] # Absent =>
      /\ clusters[k].asOf \subseteq Done
      /\ clean => clusters[k].basis = LinksOf(Members(k))
      /\ clean /\ clusters[k].asOf = Done => \A c \in Members(k) : Active(c)

(* The session of a report request, and those that were answered before it. *)
GeneratorSession(g) ==
  /\ mind[g] = [todo |-> mind[g].todo, drafts |-> mind[g].drafts,
                clean |-> mind[g].clean, began |-> mind[g].began,
                seen |-> mind[g].seen, last |-> mind[g].last,
                after |-> mind[g].after]
  /\ mind[g].began \in 0..commits /\ mind[g].seen \subseteq Done
  /\ \A h \in mind[g].after :
       /\ h \in Generators /\ pc[h] \in Answered
       /\ mind[h].began <= mind[g].began /\ mind[h].seen \subseteq mind[g].seen

Generating ==
  \A g \in Generators :
    IF pc[g] = "start" THEN mind[g] = Absent ELSE GeneratorSession(g)

(* What a report says of the rows that are stored now.                      *)
Rows == {clusters[k] : k \in Keys} \ {Absent}
ReportableRows == {row \in Rows : row.label \in Reportable}
StatementOf(row) ==
  [cluster |-> row.id, claim |-> Representative(Citable(row.id)),
   label |-> row.label, confidence |-> row.confidence,
   evidence |-> Citable(row.id)]
Stated(rows) ==
  {StatementOf(row) : row \in {x \in rows : MayBeStated(x.label, Citable(x.id))}}

(* While nothing is committed, a request has drafted what the rows that it  *)
(* has dealt with say.                                                      *)
Unchanged(g) == mind[g].began = commits /\ mind[g].seen = Done

DraftsOf(g) ==
  /\ \A row \in mind[g].todo : row \in Row(Ids) /\ row.label \in Reportable
  /\ \A d \in mind[g].drafts :
       /\ d.label \in Reportable /\ d.evidence \subseteq Links
       /\ d.same => d.evidence = {l \in d.basis : Link[l].stance \in Cited}
  /\ mind[g].began = commits => mind[g].todo \subseteq Rows /\ mind[g].clean = clean
  /\ Unchanged(g) => Fingerprint(g) = Stated(ReportableRows \ mind[g].todo)
  /\ pc[g] \in {"insert"} \cup Answered => mind[g].todo = {} /\ mind[g].drafts # {}
  /\ pc[g] \in Answered => Fingerprint(g) \in reports

DraftsFollowRows == \A g \in Generators : pc[g] # "start" => DraftsOf(g)

IInv ==
  /\ Types /\ Counted /\ OwnIds /\ ReviewsKnow /\ ReasoningsKnow /\ Fits
  /\ Generating /\ DraftsFollowRows
  /\ LastReviewDecides /\ OneReportPerState

-----------------------------------------------------------------------------
(* What the requests of each kind leave alone                               *)

Touches(q) ==
  /\ IsFunctionOn(pc, Requests)' /\ IsFunctionOn(mind, Requests)'
  /\ \A x \in Requests \ {q} : pc'[x] = pc[x] /\ mind'[x] = mind[x]

LEMMA GotoEffect ==
  ASSUME IsFunctionOn(pc, Requests), NEW q \in Requests, NEW p, Goto(q, p)
  PROVE  /\ IsFunctionOn(pc, Requests)' /\ pc'[q] = p
         /\ \A x \in Requests \ {q} : pc'[x] = pc[x]
  BY DEF IsFunctionOn, Goto

LEMMA KeepEffect ==
  ASSUME IsFunctionOn(mind, Requests), NEW q \in Requests, NEW p, Keep(q, p)
  PROVE  /\ IsFunctionOn(mind, Requests)' /\ mind'[q] = p
         /\ \A x \in Requests \ {q} : mind'[x] = mind[x]
  BY DEF IsFunctionOn, Keep

LEMMA RequestsApart ==
  /\ Reviews \subseteq Requests /\ Reasonings \subseteq Requests
  /\ Generators \subseteq Requests
  /\ \A v \in Reviews : v \notin Reasonings /\ v \notin Generators
  /\ \A r \in Reasonings : r \notin Generators
  BY RequestsAssumption DEF Requests

LEMMA ReviewLoadFrame ==
  ASSUME Types, NEW v \in Reviews, ReviewLoad(v)
  PROVE  /\ Touches(v) /\ pc[v] = "start" /\ pc'[v] = "commit"
         /\ \E d \in Decisions :
              mind'[v] = [claim |-> d.claim, action |-> d.action,
                          seen |-> status[d.claim], after |-> Done]
         /\ UNCHANGED <<status, member, clusters, reports, commits, clean>>
         /\ Done' = Done
<1>1. v \in Requests
  BY RequestsApart
<1>2. Touches(v) /\ pc'[v] = "commit"
  BY <1>1, GotoEffect, KeepEffect DEF ReviewLoad, Types, Touches
<1>3. pc[v] = "start"
  BY DEF ReviewLoad, Starts
<1>4. \E d \in Decisions :
        mind'[v] = [claim |-> d.claim, action |-> d.action,
                    seen |-> status[d.claim], after |-> Done]
  BY <1>1, KeepEffect DEF ReviewLoad, Types
<1>5. Done' = Done
  BY <1>2, <1>3, RequestsApart DEF Done, Touches
<1> QED
  BY <1>2, <1>3, <1>4, <1>5 DEF ReviewLoad

LEMMA ReviewCommitFrame ==
  ASSUME Types, NEW v \in Reviews, ReviewCommit(v)
  PROVE  /\ Touches(v) /\ pc[v] = "commit" /\ pc'[v] = "done"
         /\ UNCHANGED <<mind, member, clusters, reports, commits, clean>>
         /\ Done' = Done \cup {v} /\ v \notin Done
<1>1. v \in Requests
  BY RequestsApart
<1>2. Touches(v) /\ pc[v] = "commit" /\ pc'[v] = "done"
  BY <1>1, GotoEffect DEF ReviewCommit, Types, Touches, IsFunctionOn
<1>3. Done' = Done \cup {v} /\ v \notin Done
  BY <1>2, RequestsApart DEF Done, Touches
<1> QED
  BY <1>2, <1>3 DEF ReviewCommit

LEMMA ReasonFrame ==
  ASSUME Types, NEW r \in Reasonings, Reason(r)
  PROVE  Touches(r) /\ UNCHANGED <<status, reports>> /\ Done' = Done
<1>1. r \in Requests
  BY RequestsApart
<1>2. Touches(r) /\ UNCHANGED <<status, reports>>
  BY <1>1, GotoEffect, KeepEffect
     DEF Types, Touches, Reason, ReadRows, ReadClusters, ReadClaims, ReadScores,
         Write, ReasoningFails
<1>3. Done' = Done
  BY <1>2, RequestsApart DEF Done, Touches
<1> QED
  BY <1>2, <1>3

LEMMA GenerateFrame ==
  ASSUME Types, NEW g \in Generators, Generate(g)
  PROVE  /\ Touches(g) /\ UNCHANGED <<status, member, clusters, commits, clean>>
         /\ Done' = Done
<1>1. g \in Requests
  BY RequestsApart
<1>2. Touches(g) /\ UNCHANGED <<status, member, clusters, commits, clean>>
  <2>1. CASE ReadScored(g)
    BY <1>1, <2>1, GotoEffect, KeepEffect DEF Types, Touches, ReadScored
  <2>2. CASE BuildDraft(g)
    <3>1. PICK m : Keep(g, m)
      BY <2>2 DEF BuildDraft
    <3> QED
      BY <1>1, <2>2, <3>1, KeepEffect DEF Types, Touches, BuildDraft, IsFunctionOn
  <2>3. CASE LookupReport(g)
    BY <1>1, <2>3, GotoEffect, KeepEffect DEF Types, Touches, LookupReport
  <2>4. CASE InsertReport(g)
    <3>1. PICK p : Goto(g, p)
      BY <2>4 DEF InsertReport
    <3> QED
      BY <1>1, <2>4, <3>1, GotoEffect DEF Types, Touches, InsertReport, IsFunctionOn
  <2> QED
    BY <2>1, <2>2, <2>3, <2>4 DEF Generate
<1>3. Done' = Done
  BY <1>2, RequestsApart DEF Done, Touches
<1> QED
  BY <1>2, <1>3

-----------------------------------------------------------------------------
(* Identifiers and rows                                                     *)

LEMMA IdTypes ==
  /\ Cardinality(Reasonings) \in Nat
  /\ \A n \in Nat, k \in Keys : <<n, k>> # Absent
  /\ \A n \in 0..Cardinality(Reasonings), k \in Keys : <<n, k>> \in Ids
  /\ Ids \subseteq Nat \X Keys
  /\ Absent \notin Ids
<1>1. Cardinality(Reasonings) \in Nat
  BY RequestsAssumption, FS_CardinalityType
<1> QED
  BY <1>1, AbsentAssumption DEF Ids

LEMMA RowIsPresent ==
  ASSUME NEW row \in Row(Ids)
  PROVE  row # Absent
<1>1. row \in Row(Nat \X Keys)
  BY IdTypes DEF Row
<1> QED
  BY <1>1, AbsentAssumption

LEMMA LabelType == \A its : Label(its) \in Labels
  BY DEF Label, Labels

LEMMA ItemsFit ==
  ASSUME NEW active \in SUBSET Claims, NEW k \in Keys
  PROVE  Fit(Items(active, k))
<1> DEFINE its == Items(active, k)
           Cite(l) == [link |-> l, stance |-> Link[l].stance,
                         quality |-> Link[l].quality,
                         group |-> GroupOf(SignalsRead(active), Link[l].doc)]
           links == {l \in Links : KeyOf[Link[l].claim] = k}
           f == [l \in Basis(active, k) |-> Cite(l)]
<1>1. Basis(active, k) \in SUBSET links /\ links \in SUBSET Links
  BY DEF Basis, LinksOf
<1>2. its = {Cite(l) : l \in Basis(active, k)}
  BY DEF Items
<1>3. f \in Surjection(Basis(active, k), its)
  BY <1>2 DEF Surjection
<1>4. IsFiniteSet(its) /\ Cardinality(its) <= Most
  <2> HIDE DEF f, its, links
  <2>1. /\ IsFiniteSet(links) /\ IsFiniteSet(Basis(active, k))
        /\ Cardinality(Basis(active, k)) <= Cardinality(links)
    BY <1>1, FS_Subset, LinksAssumption
  <2>2. IsFiniteSet(its) /\ Cardinality(its) <= Cardinality(Basis(active, k))
    BY <1>3, <2>1, FS_Surjection
  <2>3. Cardinality(links) <= Most
    BY LinksAssumption DEF links
  <2>4. /\ Cardinality(links) \in Nat /\ Cardinality(Basis(active, k)) \in Nat
        /\ Cardinality(its) \in Nat
    BY <2>1, <2>2, FS_CardinalityType
  <2> QED
    BY <2>1, <2>2, <2>3, <2>4, ScoringAssumption
<1>5. \A l \in Basis(active, k) :
        /\ Cite(l).link = l /\ Cite(l).quality \in 0..Scale /\ l \in Nat
  BY <1>1, ClaimsAssumption, LinksAssumption
<1> QED
  BY <1>2, <1>4, <1>5 DEF Fit

LEMMA ScoredType ==
  ASSUME NEW active \in SUBSET Claims, NEW k \in Keys, NEW id \in Ids,
         NEW asOf \in SUBSET Reviews
  PROVE  /\ Scored(active, k, id, asOf) \in Row(Ids)
         /\ Scored(active, k, id, asOf) # Absent
         /\ Scored(active, k, id, asOf).id = id
         /\ Scored(active, k, id, asOf).asOf = asOf
         /\ Scored(active, k, id, asOf).basis = Basis(active, k)
<1>1. Basis(active, k) \in SUBSET Links
  BY DEF Basis, LinksOf
<1>2. Scored(active, k, id, asOf) \in Row(Ids)
  BY <1>1, LabelType, ItemsFit, ConfidenceIsAShare DEF Scored, Row
<1> QED
  BY <1>2, RowIsPresent DEF Scored

LEMMA IdOfType ==
  ASSUME TypeOK
  PROVE  \A k \in Keys :
           /\ IdOf(k) \in Ids \cup {Absent}
           /\ IdOf(k) = Absent <=> clusters[k] = Absent
           /\ clusters[k] # Absent =>
                /\ clusters[k] \in Row(Ids)
                /\ IdOf(k) = clusters[k].id
<1> SUFFICES ASSUME NEW k \in Keys
             PROVE  /\ IdOf(k) \in Ids \cup {Absent}
                    /\ IdOf(k) = Absent <=> clusters[k] = Absent
                    /\ clusters[k] # Absent =>
                         /\ clusters[k] \in Row(Ids)
                         /\ IdOf(k) = clusters[k].id
  OBVIOUS
<1>1. CASE clusters[k] = Absent
  BY <1>1 DEF IdOf, Ids
<1>2. CASE clusters[k] # Absent
  <2>1. clusters[k] \in Row(Ids)
    BY <1>2 DEF TypeOK
  <2>2. clusters[k].id \in Ids
    BY <2>1 DEF Row
  <2> QED
    BY <1>2, <2>1, <2>2, IdTypes DEF IdOf
<1> QED
  BY <1>1, <1>2

-----------------------------------------------------------------------------
(* The initial states                                                       *)

LEMMA InitTypes ==
  ASSUME Init
  PROVE  Types /\ Counted /\ OwnIds /\ Done = {}
<1>1. Done = {} /\ Reasoned = {}
  BY RequestsApart DEF Init, Done, Reasoned
<1>2. Counted
  BY <1>1, FS_EmptySet DEF Counted, Init
<1>3. /\ member \in [Claims -> Ids \cup {Absent}]
      /\ clusters \in [Keys -> Row(Ids) \cup {Absent}]
      /\ OwnIds
      /\ \A k \in Keys : clusters[k] # Absent => IdOf(k) = <<0, k>>
  <2>1. CASE member = [c \in Claims |-> Absent] /\ clusters = [k \in Keys |-> Absent]
    BY <2>1 DEF Ids, OwnIds
  <2>2. CASE /\ member = [c \in Claims |-> <<0, KeyOf[c]>>]
             /\ clusters = [k \in Keys |-> Scored(Claims, k, <<0, k>>, {})]
    <3>1. \A k \in Keys : <<0, k>> \in Ids
      BY IdTypes
    <3>2. \A k \in Keys : /\ clusters[k] \in Row(Ids)
                          /\ clusters[k].id = <<0, k>>
      <4> SUFFICES ASSUME NEW k \in Keys
                   PROVE  /\ clusters[k] \in Row(Ids)
                          /\ clusters[k].id = <<0, k>>
        OBVIOUS
      <4>1. <<0, k>> \in Ids
        BY <3>1
      <4>2. clusters[k] = Scored(Claims, k, <<0, k>>, {})
        BY <2>2
      <4>3. Claims \in SUBSET Claims /\ {} \in SUBSET Reviews
        OBVIOUS
      <4>4. /\ Scored(Claims, k, <<0, k>>, {}) \in Row(Ids)
            /\ Scored(Claims, k, <<0, k>>, {}).id = <<0, k>>
        BY <4>1, <4>3, ScoredType
      <4> QED
        BY <4>2, <4>4
    <3>3. OwnIds
      <4>0. commits = 0
        BY DEF Init
      <4>1. 0 \in 0..commits
        BY <4>0
      <4>2. \A k \in Keys : <<0, k>> \in (0..commits) \X {k}
        BY <4>1
      <4> QED
        BY <3>2, <4>2 DEF OwnIds
    <3>4. member \in [Claims -> Ids \cup {Absent}]
      BY <2>2, <3>1 DEF Keys
    <3>5. clusters \in [Keys -> Row(Ids) \cup {Absent}]
      BY <2>2, <3>2
    <3> QED
      BY <3>2, <3>3, <3>4, <3>5 DEF IdOf
  <2> QED
    BY <2>1, <2>2 DEF Init
<1>4. \A k, j \in Keys : k # j /\ IdOf(k) = IdOf(j) => IdOf(k) = Absent
  BY <1>3 DEF IdOf
<1>5. TypeOK
  BY <1>3, <1>4, IdTypes DEF TypeOK, Init
<1> QED
  BY <1>1, <1>2, <1>3, <1>5, RequestsApart DEF Types, Init, IsFunctionOn

LEMMA InitFits ==
  ASSUME Init
  PROVE  Fits
<1> SUFFICES ASSUME NEW k \in Keys, clusters[k] # Absent
             PROVE  /\ clusters[k].asOf \subseteq Done
                    /\ clusters[k].basis = LinksOf(Members(k))
                    /\ \A c \in Members(k) : Active(c)
  BY DEF Fits
<1>1. /\ member = [c \in Claims |-> <<0, KeyOf[c]>>]
      /\ clusters = [j \in Keys |-> Scored(Claims, j, <<0, j>>, {})]
  BY DEF Init
<1>2. <<0, k>> \in Ids
  BY IdTypes
<1>3. /\ clusters[k].asOf = {} /\ clusters[k].id = <<0, k>>
      /\ clusters[k].basis = Basis(Claims, k)
  BY <1>1, <1>2, ScoredType
<1>4. Members(k) = {c \in Claims : KeyOf[c] = k}
  BY <1>1, <1>3 DEF Members, IdOf
<1> QED
  BY <1>3, <1>4 DEF Basis, Active, Init

LEMMA InitInv == Init => IInv
<1> SUFFICES ASSUME Init PROVE IInv
  OBVIOUS
<1>1. \A q \in Requests : pc[q] = "start" /\ mind[q] = Absent
  BY DEF Init
<1> QED
  BY <1>1, InitTypes, InitFits, RequestsApart
     DEF IInv, ReviewsKnow, ReasoningsKnow, Generating, DraftsFollowRows, Reading,
         LastReviewDecides, ReportsCiteWhatWasScored, OneReportPerState

-----------------------------------------------------------------------------
(* Reviews                                                                  *)

LEMMA ReviewLoadKnows ==
  ASSUME Types, ReviewsKnow, LastReviewDecides, NEW v \in Reviews, ReviewLoad(v)
  PROVE  ReviewsKnow' /\ LastReviewDecides'
<1>1. PICK d \in Decisions :
        mind'[v] = [claim |-> d.claim, action |-> d.action,
                    seen |-> status[d.claim], after |-> Done]
  BY ReviewLoadFrame
<1>2. /\ \A x \in Reviews \ {v} : pc'[x] = pc[x] /\ mind'[x] = mind[x]
      /\ pc[v] = "start" /\ pc'[v] = "commit"
      /\ status' = status /\ Done' = Done
  BY ReviewLoadFrame, RequestsApart DEF Touches
<1>3. \A x \in Done : x \in Reviews \ {v}
  BY <1>2 DEF Done
<1>4. ReviewsKnow'
  <2> SUFFICES ASSUME NEW x \in Reviews
               PROVE  /\ pc'[x] \in {"commit", "done"} =>
                           /\ mind'[x].claim \in Claims /\ mind'[x].action \in Actions
                           /\ mind'[x].after \subseteq Done'
                      /\ pc'[x] = "commit" =>
                           \/ mind'[x].seen = status'[mind'[x].claim]
                           \/ \E w \in Done' \ mind'[x].after :
                                mind'[w].claim = mind'[x].claim
    BY DEF ReviewsKnow, Actions
  <2>1. CASE x = v
    BY <2>1, <1>1, <1>2, ClaimsAssumption DEF Actions
  <2>2. CASE x # v
    BY <2>2, <1>2, <1>3 DEF ReviewsKnow
  <2> QED
    BY <2>1, <2>2
<1>5. LastReviewDecides'
  BY <1>2 DEF LastReviewDecides
<1> QED
  BY <1>4, <1>5

LEMMA ReviewCommitKnows ==
  ASSUME Types, ReviewsKnow, LastReviewDecides, NEW v \in Reviews, ReviewCommit(v)
  PROVE  ReviewsKnow' /\ LastReviewDecides'
<1> DEFINE claim == mind[v].claim
<1>1. /\ \A x \in Reviews \ {v} : pc'[x] = pc[x]
      /\ mind' = mind /\ pc[v] = "commit" /\ pc'[v] = "done"
      /\ Done' = Done \cup {v} /\ v \notin Done
  BY ReviewCommitFrame, RequestsApart DEF Touches
<1>2. claim \in Claims /\ mind[v].action \in Actions /\ mind[v].after \subseteq Done
  BY <1>1 DEF ReviewsKnow
<1>3. /\ status \in [Claims -> Actions \cup {"machine_extracted"}]
      /\ status' = [status EXCEPT ![claim] = StatusWritten(v)]
  BY DEF ReviewCommit, Types, TypeOK, Actions
<1>4. /\ status'[claim] = StatusWritten(v)
      /\ \A c \in Claims \ {claim} : status'[c] = status[c]
  BY <1>2, <1>3
<1> HIDE DEF claim
<1>5. ReviewsKnow'
  <2> SUFFICES ASSUME NEW x \in Reviews
               PROVE  /\ pc'[x] \in {"commit", "done"} =>
                           /\ mind[x].claim \in Claims /\ mind[x].action \in Actions
                           /\ mind[x].after \subseteq Done'
                      /\ pc'[x] = "commit" =>
                           \/ mind[x].seen = status'[mind[x].claim]
                           \/ \E w \in Done' \ mind[x].after :
                                mind[w].claim = mind[x].claim
    BY <1>1 DEF ReviewsKnow, Actions
  <2>1. CASE x = v
    BY <2>1, <1>1, <1>2 DEF claim
  <2>2. CASE x # v /\ mind[x].claim = claim
    BY <2>2, <1>1 DEF ReviewsKnow, claim
  <2>3. CASE x # v /\ mind[x].claim # claim
    BY <2>3, <1>1, <1>4 DEF ReviewsKnow
  <2> QED
    BY <2>1, <2>2, <2>3
<1>6. LastReviewDecides'
  <2> SUFFICES ASSUME NEW x \in Reviews, pc'[x] = "done",
                      \A w \in Reviews \ {x} :
                        pc'[w] = "done" /\ mind[w].claim = mind[x].claim =>
                          w \in mind[x].after
               PROVE  status'[mind[x].claim] = mind[x].action
    BY <1>1 DEF LastReviewDecides
  <2>1. CASE x = v
    <3>1. ~ \E w \in Done \ mind[v].after : mind[w].claim = claim
      BY <2>1, <1>1 DEF Done, claim
    <3>2. mind[v].seen = status[claim]
      BY <3>1, <1>1 DEF ReviewsKnow, claim
    <3>3. StatusWritten(v) = mind[v].action
      BY <3>2 DEF StatusWritten, claim
    <3> QED
      BY <2>1, <3>3, <1>4 DEF claim
  <2>2. CASE x # v
    <3>1. pc[x] = "done" /\ mind[x].claim \in Claims /\ mind[x].after \subseteq Done
      BY <2>2, <1>1 DEF ReviewsKnow
    <3>2. mind[x].claim # claim
      BY <2>2, <3>1, <1>1 DEF claim
    <3>3. \A w \in Reviews \ {x} :
            pc[w] = "done" /\ mind[w].claim = mind[x].claim => w \in mind[x].after
      BY <1>1
    <3> QED
      BY <3>1, <3>2, <3>3, <1>4 DEF LastReviewDecides
  <2> QED
    BY <2>1, <2>2
<1> QED
  BY <1>5, <1>6

(* Reasonings and report requests neither review nor are reviewed.          *)
LEMMA OthersKnow ==
  ASSUME ReviewsKnow, LastReviewDecides, UNCHANGED status, Done' = Done,
         \A v \in Reviews : pc'[v] = pc[v] /\ mind'[v] = mind[v]
  PROVE  ReviewsKnow' /\ LastReviewDecides'
<1>1. \A w \in Done : mind'[w] = mind[w]
  BY DEF Done
<1>2. ReviewsKnow'
  BY <1>1 DEF ReviewsKnow
<1>3. LastReviewDecides'
  BY DEF LastReviewDecides
<1> QED
  BY <1>2, <1>3

-----------------------------------------------------------------------------
(* Steps of other requests, seen by a report request                        *)

LEMMA StatedKept ==
  ASSUME UNCHANGED <<status, member, clusters>>
  PROVE  /\ Rows' = Rows /\ ReportableRows' = ReportableRows
         /\ \A rows : Stated(rows)' = Stated(rows)
         /\ \A id : Citable(id)' = Citable(id)
<1>1. Rows' = Rows /\ ReportableRows' = ReportableRows
  BY DEF Rows, ReportableRows
<1>2. \A id : Citable(id)' = Citable(id)
  BY DEF Citable, Active
<1>3. \A row : StatementOf(row)' = StatementOf(row)
  BY <1>2 DEF StatementOf
<1>4. \A rows : Stated(rows)' = Stated(rows)
  BY <1>2, <1>3 DEF Stated
<1> QED
  BY <1>1, <1>2, <1>4

LEMMA FingerprintKept ==
  ASSUME NEW g \in Generators, mind'[g] = mind[g]
  PROVE  Fingerprint(g)' = Fingerprint(g)
  BY DEF Fingerprint, Statement

GeneratorsKnow == Generating /\ DraftsFollowRows /\ OneReportPerState

LEMMA GeneratorsIdle ==
  ASSUME GeneratorsKnow, commits \in Nat, commits' \in Nat,
         \A g \in Generators : pc'[g] = pc[g] /\ mind'[g] = mind[g],
         reports' = reports, Done \subseteq Done', commits <= commits',
         commits' = commits => UNCHANGED <<clusters, member, clean>>,
         commits' = commits /\ Done' = Done => UNCHANGED status
  PROVE  GeneratorsKnow'
<1>1. Generating'
  <2> SUFFICES ASSUME NEW g \in Generators, pc[g] # "start"
               PROVE  GeneratorSession(g)'
    BY DEF GeneratorsKnow, Generating
  <2>1. GeneratorSession(g)
    BY DEF GeneratorsKnow, Generating
  <2>2. mind[g].began \in 0..commits
    BY <2>1 DEF GeneratorSession
  <2>3. mind[g].began \in 0..commits'
    BY <2>2
  <2> QED
    BY <2>1, <2>3 DEF GeneratorSession, Answered
<1>2. DraftsFollowRows'
  <2> SUFFICES ASSUME NEW g \in Generators, pc[g] # "start"
               PROVE  DraftsOf(g)'
    BY DEF DraftsFollowRows
  <2>0. DraftsOf(g)
    BY DEF GeneratorsKnow, DraftsFollowRows
  <2>1. mind[g].began \in 0..commits /\ mind[g].seen \subseteq Done
    BY DEF GeneratorsKnow, Generating, GeneratorSession
  <2>2. Fingerprint(g)' = Fingerprint(g)
    BY FingerprintKept
  <2>3. mind[g].began = commits' => commits' = commits
    BY <2>1
  <2>4. ASSUME mind[g].began = commits'
        PROVE  mind[g].todo \subseteq Rows' /\ mind[g].clean = clean'
    <3>1. UNCHANGED <<clusters, clean>> /\ mind[g].began = commits
      BY <2>3, <2>4
    <3>2. Rows' = Rows
      BY <3>1 DEF Rows
    <3> QED
      BY <2>0, <3>1, <3>2 DEF DraftsOf
  <2>5. ASSUME Unchanged(g)'
        PROVE  Fingerprint(g)' = Stated(ReportableRows \ mind[g].todo)'
    <3>1. mind[g].began = commits' /\ mind[g].seen = Done'
      BY <2>5 DEF Unchanged
    <3>2. Done' = Done /\ Unchanged(g) /\ UNCHANGED <<status, member, clusters>>
      BY <3>1, <2>1, <2>3 DEF Unchanged
    <3>3. Fingerprint(g) = Stated(ReportableRows \ mind[g].todo)
      BY <2>0, <3>2 DEF DraftsOf
    <3>4. Stated(ReportableRows \ mind[g].todo)' = Stated(ReportableRows \ mind[g].todo)
      BY <3>2, StatedKept
    <3> QED
      BY <2>2, <3>3, <3>4
  <2> QED
    BY <2>0, <2>2, <2>4, <2>5 DEF DraftsOf, Answered
<1>4. OneReportPerState'
  <2>1. \A g \in Generators : Fingerprint(g)' = Fingerprint(g)
    BY FingerprintKept
  <2>2. \A g, h \in Generators :
          g # h /\ pc'[g] = "created" /\ pc'[h] = "created" =>
            Fingerprint(g)' # Fingerprint(h)'
    BY <2>1 DEF GeneratorsKnow, OneReportPerState
  <2>3. ASSUME NEW g \in Generators, NEW h \in Generators,
               pc'[g] \in {"refused", "insert", "created", "error", "existing"},
               h \in mind'[g].after, mind'[g].last = <<mind'[h].began, mind'[h].seen>>
        PROVE  pc'[g] = "existing" /\ Fingerprint(g)' = Fingerprint(h)'
    BY <2>1, <2>3 DEF GeneratorsKnow, OneReportPerState
  <2> QED
    BY <2>2, <2>3 DEF OneReportPerState
<1> QED
  BY <1>1, <1>2, <1>4 DEF GeneratorsKnow

-----------------------------------------------------------------------------
(* A review step keeps the invariant                                        *)

LEMMA StepTypes ==
  ASSUME Types, NEW q \in Requests, Touches(q),
         q \in Reviews => pc'[q] \in {"start", "commit", "done"},
         q \in Reasonings => pc'[q] \in {"start", "done", "error"} \cup Reading,
         q \in Generators =>
           pc'[q] \in {"start", "draft", "refused", "insert", "error"} \cup Answered,
         TypeOK'
  PROVE  Types'
  BY RequestsApart DEF Types, Touches, Reading, Answered

LEMMA ReviewTypes ==
  ASSUME Types, ReviewsKnow, NEW v \in Reviews, Review(v)
  PROVE  Types'
<1>1. CASE ReviewLoad(v)
  <2>1. /\ Touches(v) /\ pc'[v] = "commit"
        /\ UNCHANGED <<status, member, clusters, reports, commits, clean>>
    BY <1>1, ReviewLoadFrame
  <2>2. TypeOK'
    BY <2>1 DEF Types, TypeOK, Touches, IsFunctionOn, IdOf
  <2> QED
    BY <2>1, <2>2, StepTypes, RequestsApart
<1>2. CASE ReviewCommit(v)
  <2>1. /\ Touches(v) /\ pc[v] = "commit" /\ pc'[v] = "done"
        /\ UNCHANGED <<member, clusters, reports, commits, clean>>
    BY <1>2, ReviewCommitFrame
  <2>2. status \in [Claims -> Actions \cup {"machine_extracted"}]
    BY DEF Types, TypeOK, Actions
  <2>3. mind[v].claim \in Claims /\ mind[v].action \in Actions
    BY <2>1 DEF ReviewsKnow
  <2>4. StatusWritten(v) \in Actions \cup {"machine_extracted"}
    BY <2>2, <2>3 DEF StatusWritten
  <2>5. status' \in [Claims -> Actions \cup {"machine_extracted"}]
    BY <1>2, <2>2, <2>3, <2>4 DEF ReviewCommit
  <2>6. TypeOK'
    BY <2>1, <2>5 DEF Types, TypeOK, Touches, IsFunctionOn, IdOf, Actions
  <2> QED
    BY <2>1, <2>6, StepTypes, RequestsApart
<1> QED
  BY <1>1, <1>2 DEF Review

LEMMA CommitsType ==
  ASSUME TypeOK
  PROVE  commits \in Nat /\ commits \in 0..Cardinality(Reasonings)
  BY IdTypes DEF TypeOK

LEMMA ReviewKeeps ==
  ASSUME IInv, NEW v \in Reviews, Review(v)
  PROVE  IInv'
<1> USE DEF IInv
<1>1. /\ Touches(v) /\ UNCHANGED <<member, clusters, reports, commits, clean>>
      /\ \/ Done' = Done /\ status' = status
         \/ Done' = Done \cup {v} /\ v \notin Done
  BY ReviewLoadFrame, ReviewCommitFrame DEF Review
<1>2. /\ \A r \in Reasonings : pc'[r] = pc[r] /\ mind'[r] = mind[r]
      /\ \A g \in Generators : pc'[g] = pc[g] /\ mind'[g] = mind[g]
  BY <1>1, RequestsApart DEF Touches
<1>3. Types'
  BY ReviewTypes
<1>4. Counted'
  <2>1. Reasoned' = Reasoned
    BY <1>2 DEF Reasoned
  <2> QED
    BY <1>1, <2>1 DEF Counted
<1>5. OwnIds'
  BY <1>1 DEF OwnIds
<1>6. ReviewsKnow' /\ LastReviewDecides'
  BY ReviewLoadKnows, ReviewCommitKnows DEF Review
<1>7. ReasoningsKnow'
  <2> SUFFICES ASSUME NEW r \in Reasonings, pc[r] \in Reading
               PROVE  /\ mind[r] \in Session'
                      /\ mind[r].asOf = Done' =>
                           mind[r].active = {c \in Claims : Active(c)'}
                      /\ mind[r].began = commits =>
                           /\ mind[r].loaded = member /\ mind[r].scores = clusters
                           /\ pc[r] # "clusters" =>
                                mind[r].existing = [k \in Keys |-> IdOf(k)]
    BY <1>1, <1>2 DEF ReasoningsKnow, Reading, IdOf
  <2>1. mind[r] \in Session
    BY DEF ReasoningsKnow
  <2>2. mind[r] \in Session'
    BY <1>1, <2>1 DEF Session
  <2>3. mind[r].asOf \subseteq Done
    BY <2>1 DEF Session
  <2>4. mind[r].asOf = Done' => Done' = Done /\ status' = status
    BY <1>1, <2>3
  <2> QED
    BY <2>2, <2>4 DEF ReasoningsKnow, Active
<1>8. Fits'
  <2> SUFFICES ASSUME NEW k \in Keys, clusters[k] # Absent
               PROVE  /\ clusters[k].asOf \subseteq Done'
                      /\ clean => clusters[k].basis = LinksOf(Members(k))
                      /\ clean /\ clusters[k].asOf = Done' =>
                           \A c \in Members(k) : Active(c)'
    BY <1>1 DEF Fits, Members, IdOf
  <2>1. clusters[k].asOf \subseteq Done
    BY DEF Fits
  <2>2. clusters[k].asOf = Done' => Done' = Done /\ status' = status
    BY <1>1, <2>1
  <2> QED
    BY <1>1, <2>1, <2>2 DEF Fits, Active
<1>9. GeneratorsKnow'
  <2>1. GeneratorsKnow
    BY DEF GeneratorsKnow
  <2>2. commits \in Nat /\ commits' \in Nat /\ commits <= commits'
    BY <1>1, CommitsType DEF Types
  <2>3. /\ Done \subseteq Done'
        /\ commits' = commits => UNCHANGED <<clusters, member, clean>>
        /\ commits' = commits /\ Done' = Done => UNCHANGED status
    BY <1>1
  <2> QED
    BY <1>1, <1>2, <2>1, <2>2, <2>3, GeneratorsIdle
<1> QED
  BY <1>3, <1>4, <1>5, <1>6, <1>7, <1>8, <1>9 DEF GeneratorsKnow

-----------------------------------------------------------------------------
(* The steps of a report request                                            *)

(* Those that it does not take part in.                                     *)
LEMMA OtherGenerator ==
  ASSUME Types, GeneratorsKnow, NEW g \in Generators, Generate(g),
         pc[g] \notin Answered, reports \subseteq reports',
         NEW x \in Generators \ {g}, pc[x] # "start"
  PROVE  GeneratorSession(x)' /\ DraftsOf(x)' /\ Fingerprint(x)' = Fingerprint(x)
<1>1. /\ \A y \in Generators \ {g} : pc'[y] = pc[y] /\ mind'[y] = mind[y]
      /\ UNCHANGED <<status, member, clusters, commits, clean>> /\ Done' = Done
  BY GenerateFrame, RequestsApart DEF Touches
<1>2. GeneratorSession(x) /\ DraftsOf(x)
  BY DEF GeneratorsKnow, Generating, DraftsFollowRows
<1>3. Fingerprint(x)' = Fingerprint(x)
  BY <1>1, FingerprintKept
<1>4. \A h \in mind[x].after : h \in Generators \ {g}
  BY <1>2 DEF GeneratorSession
<1>5. GeneratorSession(x)'
  BY <1>1, <1>2, <1>4 DEF GeneratorSession, Answered
<1>6. Stated(ReportableRows \ mind[x].todo)' = Stated(ReportableRows \ mind[x].todo)
  <2>1. /\ ReportableRows' = ReportableRows
        /\ \A rows : Stated(rows)' = Stated(rows)
    BY <1>1, StatedKept
  <2> QED
    BY <1>1, <2>1 DEF Stated, StatementOf, Citable, Active, ReportableRows, Rows
<1>7. DraftsOf(x)'
  BY <1>1, <1>2, <1>3, <1>6 DEF DraftsOf, Unchanged, Rows, Answered
<1> QED
  BY <1>3, <1>5, <1>7

(* Of the requests that compare, only the one that takes the step is new.   *)
ComparedEnds == {"refused", "insert", "created", "error", "existing"}

LEMMA OtherAnswers ==
  ASSUME Types, GeneratorsKnow, NEW g \in Generators, Generate(g),
         pc[g] \notin Answered, reports \subseteq reports',
         pc'[g] = "created" =>
           \A x \in Generators \ {g} :
             pc[x] = "created" => Fingerprint(x) # Fingerprint(g)',
         \A h \in Generators \ {g} :
           pc'[g] \in ComparedEnds /\ h \in mind'[g].after
             /\ mind'[g].last = <<mind[h].began, mind[h].seen>>
           => pc'[g] = "existing" /\ Fingerprint(g)' = Fingerprint(h),
         \A h \in mind'[g].after : h # g /\ pc[h] # "start"
  PROVE  OneReportPerState'
<1> USE DEF GeneratorsKnow
<1>1. \A y \in Generators \ {g} : pc'[y] = pc[y] /\ mind'[y] = mind[y]
  BY GenerateFrame, RequestsApart DEF Touches
<1>2. \A x \in Generators \ {g} : pc[x] # "start" => Fingerprint(x)' = Fingerprint(x)
  BY OtherGenerator
<1>3. ASSUME NEW x \in Generators, NEW y \in Generators,
             x # y, pc'[x] = "created", pc'[y] = "created"
      PROVE  Fingerprint(x)' # Fingerprint(y)'
  BY <1>1, <1>2, <1>3 DEF OneReportPerState
<1>4. ASSUME NEW x \in Generators, NEW h \in Generators, pc'[x] \in ComparedEnds,
             h \in mind'[x].after, mind'[x].last = <<mind'[h].began, mind'[h].seen>>
      PROVE  pc'[x] = "existing" /\ Fingerprint(x)' = Fingerprint(h)'
  <2>1. CASE x = g
    BY <1>1, <1>2, <1>4, <2>1
  <2>2. CASE x # g
    <3>1. pc'[x] = pc[x] /\ mind'[x] = mind[x] /\ pc[x] # "start"
      BY <1>1, <1>4, <2>2 DEF ComparedEnds
    <3>2. h # g /\ pc[h] # "start"
      BY <1>4, <3>1 DEF Generating, GeneratorSession, Answered
    <3>3. mind'[h] = mind[h]
      BY <1>1, <3>2
    <3> QED
      BY <1>2, <1>4, <2>2, <3>1, <3>2, <3>3 DEF OneReportPerState, ComparedEnds
  <2> QED
    BY <2>1, <2>2
<1> QED
  BY <1>3, <1>4 DEF OneReportPerState, ComparedEnds

(* A request that was answered before nothing changed reported what the     *)
(* rows say.                                                                *)
LEMMA AnswerStands ==
  ASSUME GeneratorsKnow, NEW g \in Generators, pc[g] # "start",
         NEW h \in mind[g].after, commits = mind[h].began, Done = mind[h].seen,
         commits \in Nat
  PROVE  /\ h \in Generators /\ pc[h] \in Answered
         /\ Fingerprint(h) = Stated(ReportableRows) /\ Fingerprint(h) # {}
         /\ Fingerprint(h) \in reports
         /\ Unchanged(g)
<1>1. /\ h \in Generators /\ pc[h] \in Answered
      /\ mind[h].began <= mind[g].began /\ mind[h].seen \subseteq mind[g].seen
      /\ mind[g].began \in 0..commits /\ mind[g].seen \subseteq Done
  BY DEF GeneratorsKnow, Generating, GeneratorSession
<1>2. Unchanged(g)
  BY <1>1 DEF Unchanged
<1>3. DraftsOf(h) /\ Unchanged(h)
  BY <1>1 DEF GeneratorsKnow, DraftsFollowRows, Answered, Unchanged
<1>4. mind[h].todo = {} /\ mind[h].drafts # {} /\ Fingerprint(h) \in reports
  BY <1>1, <1>3 DEF DraftsOf
<1>5. Fingerprint(h) = Stated(ReportableRows)
  BY <1>3, <1>4 DEF DraftsOf
<1>6. Fingerprint(h) # {}
  BY <1>4 DEF Fingerprint
<1> QED
  BY <1>1, <1>2, <1>4, <1>5, <1>6

LEMMA ReadScoredKnows ==
  ASSUME Types, GeneratorsKnow, NEW g \in Generators, ReadScored(g)
  PROVE  GeneratorsKnow'
<1> USE DEF GeneratorsKnow
<1> DEFINE asked == {h \in Generators : pc[h] \in Answered}
<1>1. Generate(g)
  BY DEF Generate
<1>2. /\ \A y \in Generators \ {g} : pc'[y] = pc[y] /\ mind'[y] = mind[y]
      /\ UNCHANGED <<status, member, clusters, reports, commits, clean>>
      /\ Done' = Done /\ pc[g] = "start"
  BY <1>1, GenerateFrame, RequestsApart DEF Touches, ReadScored, Starts
<1>3. /\ mind'[g] = [todo |-> ReportableRows, drafts |-> {}, clean |-> clean,
                     began |-> commits, seen |-> Done, last |-> <<commits, Done>>,
                     after |-> asked]
      /\ pc'[g] = IF Rows = {} THEN "refused" ELSE "draft"
  BY RequestsApart, KeepEffect, GotoEffect DEF ReadScored, Types, Rows, ReportableRows, Answered
<1>4. commits \in Nat
  BY CommitsType DEF Types
<1>5. ASSUME NEW x \in Generators \ {g}, pc[x] # "start"
      PROVE  GeneratorSession(x)' /\ DraftsOf(x)' /\ Fingerprint(x)' = Fingerprint(x)
  BY <1>1, <1>2, <1>5, OtherGenerator DEF Answered
<1>6. GeneratorSession(g)'
  <2>1. commits \in 0..commits
    BY <1>4
  <2>2. ASSUME NEW h \in asked
        PROVE  /\ h \in Generators \ {g}
               /\ mind[h].began <= commits /\ mind[h].seen \subseteq Done
    <3>1. h \in Generators \ {g} /\ pc[h] # "start"
      BY <1>2 DEF Answered
    <3>2. mind[h].began \in 0..commits /\ mind[h].seen \subseteq Done
      BY <3>1 DEF Generating, GeneratorSession
    <3> QED
      BY <3>1, <3>2, <1>4
  <2> QED
    BY <1>2, <1>3, <2>1, <2>2 DEF GeneratorSession, Answered
<1>7. DraftsOf(g)'
  <2>1. Fingerprint(g)' = {}
    BY <1>3 DEF Fingerprint
  <2>2. Stated(ReportableRows \ mind[g].todo)' = {}
    BY <1>2, <1>3 DEF Stated, ReportableRows, Rows
  <2>3. \A row \in ReportableRows :
          row \in Rows /\ row \in Row(Ids) /\ row.label \in Reportable
    BY DEF ReportableRows, Rows, Types, TypeOK
  <2>4. Rows' = Rows
    BY <1>2 DEF Rows
  <2>5. /\ mind'[g].todo = ReportableRows /\ mind'[g].drafts = {}
        /\ mind'[g].clean = clean'
        /\ pc'[g] \notin {"insert"} \cup Answered
    BY <1>2, <1>3 DEF Answered
  <2>6. Rows' = Rows /\ (Unchanged(g) => Fingerprint(g) = Stated(ReportableRows \ mind[g].todo))'
    BY <2>1, <2>2, <2>4
  <2> QED
    BY <2>3, <2>5, <2>6 DEF DraftsOf, Answered
<1>8. Generating' /\ DraftsFollowRows'
  <2>1. pc'[g] # "start"
    BY <1>3
  <2> QED
    BY <1>2, <1>5, <1>6, <1>7, <2>1 DEF Generating, DraftsFollowRows
<1>9. OneReportPerState'
  <2>1. ASSUME NEW h \in Generators \ {g}, pc'[g] \in ComparedEnds,
               h \in mind'[g].after, mind'[g].last = <<mind[h].began, mind[h].seen>>
        PROVE  FALSE
    <3>1. h \in asked /\ pc[h] \in Answered /\ pc[h] # "start" /\ Rows = {}
      BY <1>3, <2>1 DEF Answered, ComparedEnds
    <3>2. commits = mind[h].began /\ Done = mind[h].seen
      BY <1>3, <2>1
    <3>3. DraftsOf(h) /\ Unchanged(h)
      BY <3>1, <3>2 DEF DraftsFollowRows, Unchanged
    <3>4. mind[h].drafts # {} /\ Fingerprint(h) = Stated({})
      BY <3>1, <3>3 DEF DraftsOf, ReportableRows
    <3> QED
      BY <3>4 DEF Fingerprint, Stated
  <2>2. pc'[g] # "created" /\ \A h \in mind'[g].after : h # g /\ pc[h] # "start"
    BY <1>2, <1>3 DEF Answered
  <2> QED
    BY <1>1, <1>2, <2>1, <2>2, OtherAnswers DEF Answered
<1> QED
  BY <1>8, <1>9

(* The other three steps go on from a session.                              *)
LEMMA GoesOn ==
  ASSUME Types, GeneratorsKnow, NEW g \in Generators, Generate(g),
         pc[g] \in {"draft", "insert"}, pc'[g] # "start",
         reports \subseteq reports', GeneratorSession(g)', DraftsOf(g)'
  PROVE  Generating' /\ DraftsFollowRows'
<1>1. \A y \in Generators \ {g} : pc'[y] = pc[y] /\ mind'[y] = mind[y]
  BY GenerateFrame, RequestsApart DEF Touches
<1>2. ASSUME NEW x \in Generators \ {g}, pc[x] # "start"
      PROVE  GeneratorSession(x)' /\ DraftsOf(x)'
  BY <1>2, OtherGenerator DEF Answered
<1> QED
  BY <1>1, <1>2 DEF GeneratorsKnow, Generating, DraftsFollowRows

(* What a report cites of a row, when nothing was committed since the       *)
(* reasoning that wrote the row.                                            *)
LEMMA CitedOfRow ==
  ASSUME Types, Fits, clean, NEW row \in Rows, row.asOf = Done
  PROVE  Citable(row.id) = {l \in row.basis : Link[l].stance \in Cited}
<1>1. PICK k \in Keys : row = clusters[k] /\ clusters[k] # Absent
  BY DEF Rows
<1>2. row.id = IdOf(k)
  BY <1>1 DEF IdOf
<1>3. row.basis = LinksOf(Members(k)) /\ \A c \in Members(k) : Active(c)
  BY <1>1 DEF Fits
<1> QED
  BY <1>2, <1>3, ClaimsAssumption DEF Citable, LinksOf, Members

LEMMA BuildDraftKnows ==
  ASSUME Types, Fits, GeneratorsKnow, NEW g \in Generators, BuildDraft(g)
  PROVE  GeneratorsKnow'
<1> USE DEF GeneratorsKnow
<1>1. Generate(g)
  BY DEF Generate
<1>2. /\ \A y \in Generators \ {g} : pc'[y] = pc[y] /\ mind'[y] = mind[y]
      /\ UNCHANGED <<status, member, clusters, reports, commits, clean, pc>>
      /\ Done' = Done /\ pc[g] = "draft"
  BY <1>1, GenerateFrame, RequestsApart DEF Touches, BuildDraft
<1> DEFINE evidence(row) == Citable(row.id)
           draft(row) ==
             [cluster |-> row.id, label |-> row.label,
              confidence |-> row.confidence,
              claim |-> Representative(evidence(row)),
              evidence |-> evidence(row), basis |-> row.basis,
              same |-> /\ mind[g].clean /\ commits = mind[g].began
                       /\ Done = row.asOf]
           drafts(row) ==
             IF MayBeStated(row.label, evidence(row))
             THEN mind[g].drafts \cup {draft(row)} ELSE mind[g].drafts
<1>3. PICK row \in mind[g].todo :
        mind'[g] = [mind[g] EXCEPT !.todo = @ \ {row}, !.drafts = drafts(row)]
  <2>1. PICK row \in mind[g].todo :
          Keep(g, [mind[g] EXCEPT !.todo = @ \ {row}, !.drafts = drafts(row)])
    BY DEF BuildDraft
  <2> QED
    BY <2>1, RequestsApart, KeepEffect DEF Types
<1>4. GeneratorSession(g) /\ DraftsOf(g)
  BY <1>2 DEF Generating, DraftsFollowRows
<1>5. mind'[g] = [todo |-> mind[g].todo \ {row}, drafts |-> drafts(row),
                  clean |-> mind[g].clean, began |-> mind[g].began,
                  seen |-> mind[g].seen, last |-> mind[g].last,
                  after |-> mind[g].after]
  <2> HIDE DEF drafts
  <2> QED
    BY <1>3, <1>4 DEF GeneratorSession
<1>6. GeneratorSession(g)'
  <2> HIDE DEF drafts
  <2>1. \A h \in mind[g].after : h \in Generators \ {g}
    BY <1>2, <1>4 DEF GeneratorSession, Answered
  <2> QED
    BY <1>2, <1>4, <1>5, <2>1 DEF GeneratorSession, Answered
<1>7. ASSUME NEW d \in drafts(row)
      PROVE  /\ d.label \in Reportable /\ d.evidence \subseteq Links
             /\ d.same => d.evidence = {l \in d.basis : Link[l].stance \in Cited}
  <2>1. CASE d \in mind[g].drafts
    BY <1>4, <2>1 DEF DraftsOf
  <2>2. CASE d \notin mind[g].drafts
    <3>1. d = draft(row)
      BY <1>7, <2>2
    <3>2. /\ d.label = row.label /\ d.evidence = Citable(row.id) /\ d.basis = row.basis
          /\ d.same => mind[g].clean /\ commits = mind[g].began /\ Done = row.asOf
      BY <3>1
    <3>3. /\ row.label \in Reportable
          /\ commits = mind[g].began => row \in Rows /\ mind[g].clean = clean
      BY <1>4 DEF DraftsOf
    <3>4. Citable(row.id) \subseteq Links
      BY DEF Citable
    <3> QED
      BY <3>2, <3>3, <3>4, CitedOfRow
  <2> QED
    BY <2>1, <2>2
<1>8. Unchanged(g) =>
        Fingerprint(g)' = Stated(ReportableRows \ (mind[g].todo \ {row}))
  <2> SUFFICES ASSUME Unchanged(g)
               PROVE  Fingerprint(g)' = Stated(ReportableRows \ (mind[g].todo \ {row}))
    OBVIOUS
  <2>1. /\ Fingerprint(g) = Stated(ReportableRows \ mind[g].todo)
        /\ row \in ReportableRows
    BY <1>4 DEF DraftsOf, Unchanged, ReportableRows
  <2>2. Statement(draft(row)) = StatementOf(row)
    BY DEF Statement, StatementOf
  <2>3. CASE MayBeStated(row.label, evidence(row))
    <3>1. Fingerprint(g)' = Fingerprint(g) \cup {StatementOf(row)}
      <4>1. mind'[g].drafts = mind[g].drafts \cup {draft(row)}
        BY <1>5, <2>3
      <4> HIDE DEF draft, drafts
      <4>2. Fingerprint(g)' = {Statement(d) : d \in mind'[g].drafts}
        BY DEF Fingerprint, Statement
      <4> QED
        BY <2>2, <4>1, <4>2 DEF Fingerprint
    <3>2. Stated(ReportableRows \ (mind[g].todo \ {row}))
            = Stated(ReportableRows \ mind[g].todo) \cup {StatementOf(row)}
      BY <2>1, <2>3 DEF Stated
    <3> QED
      BY <2>1, <3>1, <3>2
  <2>4. CASE ~MayBeStated(row.label, evidence(row))
    <3>1. Fingerprint(g)' = Fingerprint(g)
      BY <1>5, <2>4 DEF Fingerprint, Statement
    <3>2. Stated(ReportableRows \ (mind[g].todo \ {row}))
            = Stated(ReportableRows \ mind[g].todo)
      BY <2>1, <2>4 DEF Stated
    <3> QED
      BY <2>1, <3>1, <3>2
  <2> QED
    BY <2>3, <2>4
<1>9. DraftsOf(g)'
  <2> HIDE DEF drafts
  <2>1. /\ mind'[g].todo = mind[g].todo \ {row} /\ mind'[g].drafts = drafts(row)
        /\ mind'[g].began = mind[g].began /\ mind'[g].seen = mind[g].seen
        /\ mind'[g].clean = mind[g].clean /\ pc'[g] = "draft"
    BY <1>2, <1>5
  <2>2. /\ Rows' = Rows /\ ReportableRows' = ReportableRows
        /\ \A rows : Stated(rows)' = Stated(rows)
    BY <1>2, StatedKept
  <2>3. Unchanged(g)' => Unchanged(g)
    BY <1>2, <2>1 DEF Unchanged
  <2>4. Stated(ReportableRows \ mind[g].todo)'
          = Stated(ReportableRows \ (mind[g].todo \ {row}))
    BY <1>2, <2>1, <2>2 DEF Stated, StatementOf, Citable, Active, ReportableRows, Rows
  <2>5. (Unchanged(g) => Fingerprint(g) = Stated(ReportableRows \ mind[g].todo))'
    BY <1>8, <2>3, <2>4
  <2>6. /\ \A x \in mind'[g].todo : x \in Row(Ids) /\ x.label \in Reportable
        /\ mind'[g].began = commits' =>
             mind'[g].todo \subseteq Rows' /\ mind'[g].clean = clean'
    BY <1>2, <1>4, <2>1, <2>2 DEF DraftsOf
  <2> QED
    BY <1>7, <2>1, <2>5, <2>6 DEF DraftsOf, Answered
<1>10. Generating' /\ DraftsFollowRows'
  BY <1>1, <1>2, <1>6, <1>9, GoesOn
<1>11. OneReportPerState'
  <2>1. pc'[g] = "draft" /\ mind'[g].after = mind[g].after
    BY <1>2, <1>5
  <2>2. \A h \in mind'[g].after : h # g /\ pc[h] # "start"
    BY <1>2, <1>4, <2>1 DEF GeneratorSession, Answered
  <2> QED
    BY <1>1, <1>2, <2>1, <2>2, OtherAnswers DEF Answered, ComparedEnds
<1> QED
  BY <1>10, <1>11

LEMMA LookupReportKnows ==
  ASSUME Types, GeneratorsKnow, NEW g \in Generators, LookupReport(g)
  PROVE  GeneratorsKnow'
<1> USE DEF GeneratorsKnow
<1>1. Generate(g)
  BY DEF Generate
<1>2. /\ \A y \in Generators \ {g} : pc'[y] = pc[y] /\ mind'[y] = mind[y]
      /\ UNCHANGED <<status, member, clusters, reports, commits, clean>>
      /\ Done' = Done /\ pc[g] = "draft" /\ mind[g].todo = {}
  BY <1>1, GenerateFrame, RequestsApart DEF Touches, LookupReport
<1>3. GeneratorSession(g) /\ DraftsOf(g)
  BY <1>2 DEF Generating, DraftsFollowRows
<1>4. /\ mind'[g] = [mind[g] EXCEPT !.last = <<commits, Done>>]
      /\ pc'[g] = IF mind[g].drafts = {} THEN "refused"
                  ELSE IF Fingerprint(g) \in reports THEN "existing" ELSE "insert"
  BY RequestsApart, KeepEffect, GotoEffect DEF LookupReport, Types
<1>5. mind'[g] = [todo |-> mind[g].todo, drafts |-> mind[g].drafts,
                  clean |-> mind[g].clean, began |-> mind[g].began,
                  seen |-> mind[g].seen, last |-> <<commits, Done>>,
                  after |-> mind[g].after]
  BY <1>3, <1>4 DEF GeneratorSession
<1>6. Fingerprint(g)' = Fingerprint(g)
  BY <1>5 DEF Fingerprint, Statement
<1>7. \A h \in mind[g].after : h \in Generators \ {g} /\ pc[h] # "start"
  BY <1>2, <1>3 DEF GeneratorSession, Answered
<1>8. GeneratorSession(g)'
  BY <1>2, <1>3, <1>5, <1>7 DEF GeneratorSession, Answered
<1>9. DraftsOf(g)'
  <2>1. /\ mind'[g].todo = {} /\ mind'[g].drafts = mind[g].drafts
        /\ mind'[g].began = mind[g].began /\ mind'[g].seen = mind[g].seen
        /\ mind'[g].clean = mind[g].clean
        /\ pc'[g] \in {"insert"} \cup Answered => mind[g].drafts # {}
        /\ pc'[g] \in Answered => Fingerprint(g) \in reports
    BY <1>2, <1>4, <1>5 DEF Answered
  <2>2. /\ Rows' = Rows /\ ReportableRows' = ReportableRows
    BY <1>2, StatedKept
  <2>3. (Unchanged(g) => Fingerprint(g) = Stated(ReportableRows \ mind[g].todo))'
    <3>1. Unchanged(g)' => Unchanged(g)
      BY <1>2, <2>1 DEF Unchanged
    <3>2. Stated(ReportableRows \ mind[g].todo)' = Stated(ReportableRows \ mind[g].todo)
      BY <1>2, <2>1 DEF Stated, StatementOf, Citable, Active, ReportableRows, Rows
    <3> QED
      BY <1>3, <1>6, <3>1, <3>2 DEF DraftsOf
  <2> QED
    BY <1>2, <1>3, <1>6, <2>1, <2>2, <2>3 DEF DraftsOf, Answered
<1>10. Generating' /\ DraftsFollowRows'
  <2>1. pc'[g] # "start"
    BY <1>4
  <2> QED
    BY <1>1, <1>2, <1>8, <1>9, <2>1, GoesOn
<1>11. OneReportPerState'
  <2>1. ASSUME NEW h \in Generators \ {g}, h \in mind'[g].after,
               mind'[g].last = <<mind[h].began, mind[h].seen>>
        PROVE  pc'[g] = "existing" /\ Fingerprint(g)' = Fingerprint(h)
    <3>1. h \in mind[g].after /\ commits = mind[h].began /\ Done = mind[h].seen
      BY <1>5, <2>1
    <3>2. /\ Fingerprint(h) = Stated(ReportableRows) /\ Fingerprint(h) # {}
          /\ Fingerprint(h) \in reports /\ Unchanged(g)
      BY <1>2, <3>1, AnswerStands, CommitsType DEF Types
    <3>3. Fingerprint(g) = Fingerprint(h)
      BY <1>2, <1>3, <3>2 DEF DraftsOf
    <3>4. mind[g].drafts # {}
      BY <3>2, <3>3 DEF Fingerprint
    <3> QED
      BY <1>4, <1>6, <3>2, <3>3, <3>4
  <2>2. pc'[g] # "created" /\ \A h \in mind'[g].after : h # g /\ pc[h] # "start"
    BY <1>4, <1>5, <1>7
  <2> QED
    BY <1>1, <1>2, <2>1, <2>2, OtherAnswers DEF Answered
<1> QED
  BY <1>10, <1>11

LEMMA InsertReportKnows ==
  ASSUME Types, GeneratorsKnow, NEW g \in Generators, InsertReport(g)
  PROVE  GeneratorsKnow'
<1> USE DEF GeneratorsKnow
<1>1. Generate(g)
  BY DEF Generate
<1>2. /\ \A y \in Generators \ {g} : pc'[y] = pc[y] /\ mind'[y] = mind[y]
      /\ UNCHANGED <<status, member, clusters, mind, commits, clean>>
      /\ Done' = Done /\ pc[g] = "insert"
  BY <1>1, GenerateFrame, RequestsApart DEF Touches, InsertReport
<1>3. GeneratorSession(g) /\ DraftsOf(g)
  BY <1>2 DEF Generating, DraftsFollowRows
<1>4. \/ pc'[g] = "error" /\ reports' = reports
      \/ /\ pc'[g] = "created" /\ Fingerprint(g) \notin reports
         /\ reports' = reports \cup {Fingerprint(g)}
  BY RequestsApart, GotoEffect DEF InsertReport, InsertRefused, Types
<1>5. reports \subseteq reports' /\ pc'[g] # "start"
  BY <1>4
<1>6. Fingerprint(g)' = Fingerprint(g)
  BY <1>2, FingerprintKept
<1>7. \A h \in mind[g].after : h \in Generators \ {g} /\ pc[h] # "start"
  BY <1>2, <1>3 DEF GeneratorSession, Answered
<1>8. GeneratorSession(g)'
  BY <1>2, <1>3, <1>7 DEF GeneratorSession, Answered
<1>9. DraftsOf(g)'
  <2>1. /\ Rows' = Rows /\ ReportableRows' = ReportableRows
        /\ \A rows : Stated(rows)' = Stated(rows)
    BY <1>2, StatedKept
  <2>2. Stated(ReportableRows \ mind[g].todo)' = Stated(ReportableRows \ mind[g].todo)
    BY <1>2 DEF Stated, StatementOf, Citable, Active, ReportableRows, Rows
  <2>3. mind[g].todo = {} /\ mind[g].drafts # {}
    BY <1>2, <1>3 DEF DraftsOf
  <2>4. pc'[g] \in Answered => Fingerprint(g)' \in reports'
    BY <1>4, <1>6 DEF Answered
  <2> QED
    BY <1>2, <1>3, <1>6, <2>1, <2>2, <2>3, <2>4 DEF DraftsOf, Unchanged
<1>10. Generating' /\ DraftsFollowRows'
  BY <1>1, <1>2, <1>5, <1>8, <1>9, GoesOn
<1>11. OneReportPerState'
  <2>1. pc'[g] = "created" =>
          \A x \in Generators \ {g} :
            pc[x] = "created" => Fingerprint(x) # Fingerprint(g)'
    BY <1>4, <1>6 DEF DraftsFollowRows, DraftsOf, Answered
  <2>2. \A h \in Generators :
          h \in mind[g].after => mind[g].last # <<mind[h].began, mind[h].seen>>
    BY <1>2 DEF OneReportPerState
  <2> QED
    BY <1>1, <1>2, <1>5, <1>7, <2>1, <2>2, OtherAnswers DEF Answered
<1> QED
  BY <1>10, <1>11

LEMMA GenerateTypes ==
  ASSUME Types, GeneratorsKnow, NEW g \in Generators, Generate(g)
  PROVE  Types'
<1>1. /\ Touches(g) /\ UNCHANGED <<status, member, clusters, commits, clean>>
      /\ g \in Requests
  BY GenerateFrame, RequestsApart
<1>2. /\ pc'[g] \in {"draft", "refused", "insert", "error"} \cup Answered
      /\ \/ reports' = reports
         \/ /\ pc[g] = "insert" /\ reports' = reports \cup {Fingerprint(g)}
  <2>1. CASE ReadScored(g)
    BY <1>1, <2>1, GotoEffect DEF ReadScored, Types
  <2>2. CASE BuildDraft(g)
    BY <2>2 DEF BuildDraft
  <2>3. CASE LookupReport(g)
    BY <1>1, <2>3, GotoEffect DEF LookupReport, Types, Answered
  <2>4. CASE InsertReport(g)
    BY <1>1, <2>4, GotoEffect DEF InsertReport, Types, Answered
  <2> QED
    BY <2>1, <2>2, <2>3, <2>4 DEF Generate
<1>3. \A report \in reports' : \A s \in report :
        s.label \in Reportable /\ s.evidence \subseteq Links
  <2>1. pc[g] = "insert" =>
          \A s \in Fingerprint(g) : s.label \in Reportable /\ s.evidence \subseteq Links
    <3>1. pc[g] = "insert" =>
            \A d \in mind[g].drafts : d.label \in Reportable /\ d.evidence \subseteq Links
      BY DEF GeneratorsKnow, DraftsFollowRows, DraftsOf
    <3>2. \A d : Statement(d).label = d.label /\ Statement(d).evidence = d.evidence
      BY DEF Statement
    <3> QED
      BY <3>1, <3>2 DEF Fingerprint
  <2> QED
    BY <1>2, <2>1 DEF Types, TypeOK
<1>4. TypeOK'
  BY <1>1, <1>3 DEF Types, TypeOK, Touches, IsFunctionOn, IdOf
<1> QED
  BY <1>1, <1>2, <1>4, StepTypes, RequestsApart

LEMMA GenerateKeeps ==
  ASSUME IInv, NEW g \in Generators, Generate(g)
  PROVE  IInv'
<1> USE DEF IInv
<1>1. /\ Touches(g) /\ UNCHANGED <<status, member, clusters, commits, clean>>
      /\ Done' = Done
  BY GenerateFrame
<1>2. /\ \A r \in Reasonings : pc'[r] = pc[r] /\ mind'[r] = mind[r]
      /\ \A v \in Reviews : pc'[v] = pc[v] /\ mind'[v] = mind[v]
  BY <1>1, RequestsApart DEF Touches
<1>3. GeneratorsKnow
  BY DEF GeneratorsKnow
<1>4. Types'
  BY <1>3, GenerateTypes
<1>5. Counted' /\ OwnIds'
  <2>1. Reasoned' = Reasoned
    BY <1>2 DEF Reasoned
  <2> QED
    BY <1>1, <2>1 DEF Counted, OwnIds
<1>6. ReviewsKnow' /\ LastReviewDecides'
  BY <1>1, <1>2, OthersKnow
<1>7. ReasoningsKnow'
  BY <1>1, <1>2 DEF ReasoningsKnow, Session, Active, IdOf
<1>8. Fits'
  BY <1>1 DEF Fits, Members, IdOf, Active
<1>9. GeneratorsKnow'
  BY <1>3, ReadScoredKnows, BuildDraftKnows, LookupReportKnows, InsertReportKnows
     DEF Generate
<1> QED
  BY <1>4, <1>5, <1>6, <1>7, <1>8, <1>9 DEF GeneratorsKnow

-----------------------------------------------------------------------------
(* The reads of a reasoning, and its failure                                *)

(* What a reasoning knows goes for the others as long as none commits.      *)
LEMMA OtherReasonings ==
  ASSUME Types, ReasoningsKnow, NEW r \in Reasonings, Touches(r), Done' = Done,
         UNCHANGED <<status, member, clusters, commits, clean>>,
         pc'[r] \in Reading =>
           /\ mind'[r] \in Session
           /\ mind'[r].asOf = Done => mind'[r].active = {c \in Claims : Active(c)}
           /\ mind'[r].began = commits =>
                /\ mind'[r].loaded = member /\ mind'[r].scores = clusters
                /\ pc'[r] # "clusters" =>
                     mind'[r].existing = [k \in Keys |-> IdOf(k)]
  PROVE  ReasoningsKnow'
<1>1. \A x \in Reasonings \ {r} : pc'[x] = pc[x] /\ mind'[x] = mind[x]
  BY RequestsApart DEF Touches
<1>2. Session' = Session /\ \A k \in Keys : IdOf(k)' = IdOf(k)
  BY DEF Session, IdOf
<1>3. \A c \in Claims : Active(c)' = Active(c)
  BY DEF Active
<1> QED
  BY <1>1, <1>2, <1>3 DEF ReasoningsKnow, Reading

(* What the session of r holds after a step that writes nothing.            *)
SessionFits(r) ==
  /\ mind[r] \in Session
  /\ mind[r].asOf = Done => mind[r].active = {c \in Claims : Active(c)}
  /\ mind[r].began = commits =>
       /\ mind[r].loaded = member /\ mind[r].scores = clusters
       /\ pc[r] # "clusters" => mind[r].existing = [k \in Keys |-> IdOf(k)]

LEMMA ReadRowsKnows ==
  ASSUME Types, NEW r \in Reasonings, ReadRows(r)
  PROVE  pc'[r] = "clusters" /\ SessionFits(r)'
<1>1. /\ pc'[r] = "clusters"
      /\ mind'[r] = [active |-> {c \in Claims : Active(c)}, loaded |-> member,
                     existing |-> [k \in Keys |-> Absent],
                     scores |-> clusters, began |-> commits, asOf |-> Done]
      /\ UNCHANGED <<status, member, clusters, commits>>
  BY RequestsApart, GotoEffect, KeepEffect DEF ReadRows, Types
<1>2. Done' = Done
  BY ReasonFrame DEF Reason
<1>3. /\ {c \in Claims : Active(c)} \in SUBSET Claims
      /\ member \in [Claims -> Ids \cup {Absent}]
      /\ clusters \in [Keys -> Row(Ids) \cup {Absent}]
      /\ [k \in Keys |-> Absent] \in [Keys -> Ids \cup {Absent}]
  BY DEF Types, TypeOK
<1>4. commits \in 0..commits
  BY CommitsType DEF Types
<1>5. mind'[r] \in Session
  BY <1>1, <1>3, <1>4 DEF Session
<1>6. Session' = Session /\ \A c \in Claims : Active(c)' = Active(c)
  BY <1>1, <1>2 DEF Session, Active
<1> QED
  BY <1>1, <1>2, <1>5, <1>6 DEF SessionFits

LEMMA ReadClustersKnows ==
  ASSUME Types, ReasoningsKnow, NEW r \in Reasonings, ReadClusters(r)
  PROVE  pc'[r] = "claims" /\ SessionFits(r)'
<1>1. /\ pc'[r] = "claims"
      /\ mind'[r] = [mind[r] EXCEPT !.existing = [k \in Keys |-> IdOf(k)]]
      /\ UNCHANGED <<status, member, clusters, commits>>
      /\ pc[r] = "clusters"
  BY RequestsApart, GotoEffect, KeepEffect DEF ReadClusters, Types
<1>2. Done' = Done
  BY ReasonFrame DEF Reason
<1>3. SessionFits(r)
  BY <1>1 DEF ReasoningsKnow, SessionFits, Reading
<1>4. [k \in Keys |-> IdOf(k)] \in [Keys -> Ids \cup {Absent}]
  BY IdOfType DEF Types
<1>5. mind'[r] \in Session
  BY <1>1, <1>3, <1>4 DEF SessionFits, Session
<1>6. /\ Session' = Session /\ \A c \in Claims : Active(c)' = Active(c)
      /\ \A k \in Keys : IdOf(k)' = IdOf(k)
  BY <1>1, <1>2 DEF Session, Active, IdOf
<1>7. /\ mind'[r].active = mind[r].active /\ mind'[r].loaded = mind[r].loaded
      /\ mind'[r].scores = mind[r].scores /\ mind'[r].began = mind[r].began
      /\ mind'[r].asOf = mind[r].asOf
      /\ mind'[r].existing = [k \in Keys |-> IdOf(k)]
  BY <1>1, <1>3 DEF SessionFits, Session
<1> QED
  BY <1>1, <1>2, <1>3, <1>5, <1>6, <1>7 DEF SessionFits

LEMMA ReadClaimsKnows ==
  ASSUME Types, ReasoningsKnow, NEW r \in Reasonings, ReadClaims(r)
  PROVE  pc'[r] = "scores" /\ SessionFits(r)'
<1> DEFINE loaded ==
      [c \in Claims |-> IF c \in mind[r].active THEN mind[r].loaded[c] ELSE member[c]]
<1>1. /\ pc'[r] = "scores"
      /\ mind'[r] = [mind[r] EXCEPT !.loaded =
                       [c \in Claims |-> IF c \in mind[r].active THEN @[c]
                                         ELSE member[c]]]
      /\ UNCHANGED <<status, member, clusters, commits>>
      /\ pc[r] = "claims"
  BY RequestsApart, GotoEffect, KeepEffect DEF ReadClaims, Types
<1>2. Done' = Done
  BY ReasonFrame DEF Reason
<1>3. SessionFits(r)
  BY <1>1 DEF ReasoningsKnow, SessionFits, Reading
<1>4. /\ member \in [Claims -> Ids \cup {Absent}]
      /\ mind[r].loaded \in [Claims -> Ids \cup {Absent}]
  BY <1>3 DEF Types, TypeOK, SessionFits, Session
<1>5. /\ loaded \in [Claims -> Ids \cup {Absent}]
      /\ mind[r].loaded = member => loaded = member
  BY <1>4
<1>6. mind'[r] = [mind[r] EXCEPT !.loaded = loaded]
  BY <1>1, <1>3 DEF SessionFits, Session
<1> HIDE DEF loaded
<1>7. mind'[r] \in Session
  BY <1>3, <1>5, <1>6 DEF SessionFits, Session
<1>8. /\ Session' = Session /\ \A c \in Claims : Active(c)' = Active(c)
      /\ \A k \in Keys : IdOf(k)' = IdOf(k)
  BY <1>1, <1>2 DEF Session, Active, IdOf
<1>9. /\ mind'[r].active = mind[r].active /\ mind'[r].loaded = loaded
      /\ mind'[r].scores = mind[r].scores /\ mind'[r].began = mind[r].began
      /\ mind'[r].asOf = mind[r].asOf /\ mind'[r].existing = mind[r].existing
  BY <1>3, <1>6 DEF SessionFits, Session
<1> QED
  BY <1>1, <1>2, <1>3, <1>5, <1>7, <1>8, <1>9 DEF SessionFits

LEMMA ReadScoresKnows ==
  ASSUME Types, ReasoningsKnow, NEW r \in Reasonings, ReadScores(r)
  PROVE  pc'[r] = "write" /\ SessionFits(r)'
<1>1. /\ pc'[r] = "write"
      /\ mind'[r] = [mind[r] EXCEPT !.scores = clusters]
      /\ UNCHANGED <<status, member, clusters, commits>>
      /\ pc[r] = "scores"
  BY RequestsApart, GotoEffect, KeepEffect DEF ReadScores, Types
<1>2. Done' = Done
  BY ReasonFrame DEF Reason
<1>3. SessionFits(r)
  BY <1>1 DEF ReasoningsKnow, SessionFits, Reading
<1>4. clusters \in [Keys -> Row(Ids) \cup {Absent}]
  BY DEF Types, TypeOK
<1>5. mind'[r] \in Session
  BY <1>1, <1>3, <1>4 DEF SessionFits, Session
<1>6. /\ Session' = Session /\ \A c \in Claims : Active(c)' = Active(c)
      /\ \A k \in Keys : IdOf(k)' = IdOf(k)
  BY <1>1, <1>2 DEF Session, Active, IdOf
<1>7. /\ mind'[r].active = mind[r].active /\ mind'[r].loaded = mind[r].loaded
      /\ mind'[r].scores = clusters /\ mind'[r].began = mind[r].began
      /\ mind'[r].asOf = mind[r].asOf /\ mind'[r].existing = mind[r].existing
  BY <1>1, <1>3 DEF SessionFits, Session
<1> QED
  BY <1>1, <1>2, <1>3, <1>5, <1>6, <1>7 DEF SessionFits

LEMMA ReadingKeeps ==
  ASSUME IInv, NEW r \in Reasonings,
         \/ ReadRows(r) \/ ReadClusters(r) \/ ReadClaims(r) \/ ReadScores(r)
         \/ ReasoningFails(r)
  PROVE  IInv'
<1> USE DEF IInv
<1>1. Reason(r)
  BY DEF Reason
<1>2. /\ Touches(r) /\ Done' = Done
      /\ UNCHANGED <<status, member, clusters, reports, commits, clean>>
  BY <1>1, ReasonFrame
     DEF ReadRows, ReadClusters, ReadClaims, ReadScores, ReasoningFails
<1>3. \/ pc'[r] \in Reading /\ SessionFits(r)'
      \/ pc'[r] = "error"
  <2>1. ReasoningFails(r) => pc'[r] = "error"
    BY RequestsApart, GotoEffect DEF ReasoningFails, Types
  <2> QED
    BY <2>1, ReadRowsKnows, ReadClustersKnows, ReadClaimsKnows, ReadScoresKnows
       DEF Reading
<1>4. pc[r] # "done"
  BY DEF ReadRows, ReadClusters, ReadClaims, ReadScores, ReasoningFails, Starts
<1>5. /\ \A v \in Reviews : pc'[v] = pc[v] /\ mind'[v] = mind[v]
      /\ \A g \in Generators : pc'[g] = pc[g] /\ mind'[g] = mind[g]
      /\ \A x \in Reasonings \ {r} : pc'[x] = pc[x]
  BY <1>2, RequestsApart DEF Touches
<1>6. Types'
  <2>1. TypeOK'
    BY <1>2 DEF Types, TypeOK, Touches, IsFunctionOn, IdOf
  <2> QED
    BY <1>2, <1>3, <2>1, StepTypes, RequestsApart
<1>7. Counted' /\ OwnIds'
  <2>1. Reasoned' = Reasoned
    BY <1>3, <1>4, <1>5 DEF Reasoned, Reading
  <2> QED
    BY <1>2, <2>1 DEF Counted, OwnIds
<1>8. ReviewsKnow' /\ LastReviewDecides'
  BY <1>2, <1>5, OthersKnow
<1>9. ReasoningsKnow'
  <2>1. /\ Session' = Session /\ \A c \in Claims : Active(c)' = Active(c)
        /\ \A k \in Keys : IdOf(k)' = IdOf(k)
    BY <1>2 DEF Session, Active, IdOf
  <2>2. SessionFits(r)' =>
          /\ mind'[r] \in Session
          /\ mind'[r].asOf = Done => mind'[r].active = {c \in Claims : Active(c)}
          /\ mind'[r].began = commits =>
               /\ mind'[r].loaded = member /\ mind'[r].scores = clusters
               /\ pc'[r] # "clusters" =>
                    mind'[r].existing = [k \in Keys |-> IdOf(k)]
    BY <1>2, <2>1 DEF SessionFits
  <2> QED
    BY <1>2, <1>3, <2>2, OtherReasonings DEF Reading
<1>10. Fits'
  BY <1>2 DEF Fits, Members, IdOf, Active
<1>11. GeneratorsKnow'
  <2>1. GeneratorsKnow /\ commits \in Nat /\ commits' \in Nat /\ commits <= commits'
    BY <1>2, CommitsType DEF GeneratorsKnow, Types
  <2> QED
    BY <1>2, <1>5, <2>1, GeneratorsIdle
<1> QED
  BY <1>6, <1>7, <1>8, <1>9, <1>10, <1>11 DEF GeneratorsKnow

-----------------------------------------------------------------------------
(* The writes of a reasoning                                                *)

WritesWell(r) ==
  /\ pc[r] = "write" /\ ~Clashes(r) /\ SessionFits(r)
  /\ commits + 1 \in 0..Cardinality(Reasonings)

LEMMA WriteEffect ==
  ASSUME IInv, NEW r \in Reasonings, Write(r)
  PROVE  /\ WritesWell(r)
         /\ Touches(r) /\ pc'[r] = "done" /\ Done' = Done
         /\ commits' = commits + 1 /\ clean' = (mind[r].began = commits)
         /\ UNCHANGED <<status, reports>>
         /\ Counted'
<1> USE DEF IInv
<1>1. /\ Touches(r) /\ Done' = Done /\ UNCHANGED <<status, reports>>
  BY ReasonFrame DEF Reason
<1>2. /\ pc[r] = "write" /\ pc'[r] = "done" /\ ~Clashes(r)
      /\ commits' = commits + 1 /\ clean' = (mind[r].began = commits)
  BY RequestsApart, GotoEffect DEF Write, Types
<1>3. SessionFits(r)
  BY <1>2 DEF ReasoningsKnow, SessionFits, Reading
<1>4. Reasoned' = Reasoned \cup {r} /\ r \notin Reasoned
  BY <1>1, <1>2, RequestsApart DEF Reasoned, Touches
<1>5. Reasoned \subseteq Reasonings /\ Reasoned' \subseteq Reasonings
  BY <1>4 DEF Reasoned
<1>6. IsFiniteSet(Reasoned) /\ Cardinality(Reasoned') \in 0..Cardinality(Reasonings)
  BY <1>5, RequestsAssumption, FS_Subset, FS_CardinalityType
<1>7. Cardinality(Reasoned') = Cardinality(Reasoned) + 1
  BY <1>4, <1>6, FS_AddElement
<1> QED
  BY <1>1, <1>2, <1>3, <1>6, <1>7 DEF WritesWell, Counted

LEMMA ClusterIdType ==
  ASSUME TypeOK, OwnIds, NEW r \in Reasonings, WritesWell(r)
  PROVE  /\ ActiveKeys(r) \subseteq Keys
         /\ \A k \in ActiveKeys(r) :
              /\ ClusterId(r, k) \in Ids
              /\ ClusterId(r, k) \in (0..(commits + 1)) \X {k}
              /\ mind[r].existing[k] = IdOf(k)
              /\ IdOf(k) # Absent => ClusterId(r, k) = IdOf(k)
<1>1. ActiveKeys(r) \subseteq Keys
  BY DEF ActiveKeys, Keys, WritesWell, SessionFits, Session
<1> SUFFICES ASSUME NEW k \in ActiveKeys(r)
             PROVE  /\ ClusterId(r, k) \in Ids
                    /\ ClusterId(r, k) \in (0..(commits + 1)) \X {k}
                    /\ mind[r].existing[k] = IdOf(k)
                    /\ IdOf(k) # Absent => ClusterId(r, k) = IdOf(k)
  BY <1>1
<1>2. k \in Keys /\ mind[r].existing[k] = IdOf(k)
  BY <1>1 DEF WritesWell, Clashes
<1>3. commits \in Nat
  BY CommitsType
<1>4. CASE IdOf(k) = Absent
  <2>1. ClusterId(r, k) = <<commits + 1, k>>
    BY <1>2, <1>4 DEF ClusterId, NewId
  <2>2. commits + 1 \in 0..Cardinality(Reasonings) /\ commits + 1 \in 0..(commits + 1)
    BY <1>3 DEF WritesWell
  <2> QED
    BY <1>2, <1>4, <2>1, <2>2, IdTypes
<1>5. CASE IdOf(k) # Absent
  <2>1. ClusterId(r, k) = IdOf(k)
    BY <1>2, <1>5 DEF ClusterId
  <2>2. IdOf(k) \in Ids /\ IdOf(k) \in (0..commits) \X {k}
    BY <1>2, <1>5, IdOfType DEF OwnIds
  <2>3. IdOf(k) \in (0..(commits + 1)) \X {k}
    <3>1. 0..commits \subseteq 0..(commits + 1)
      BY <1>3
    <3> QED
      BY <2>2, <3>1
  <2> QED
    BY <1>2, <2>1, <2>2, <2>3
<1> QED
  BY <1>4, <1>5

LEMMA ScoreWrittenType ==
  ASSUME TypeOK, OwnIds, NEW r \in Reasonings, WritesWell(r), NEW k \in ActiveKeys(r)
  PROVE  /\ ScoreWritten(r, k) \in Row(Ids)
         /\ ScoreWritten(r, k).id = ClusterId(r, k)
         /\ ScoreWritten(r, k).asOf = mind[r].asOf
         /\ mind[r].began = commits =>
              ScoreWritten(r, k).basis = Basis(mind[r].active, k)
<1> DEFINE new == Scored(mind[r].active, k, ClusterId(r, k), mind[r].asOf)
           now == clusters[k]
           read == mind[r].scores[k]
<1>1. /\ k \in Keys /\ ClusterId(r, k) \in Ids
      /\ mind[r].existing[k] = IdOf(k)
  BY ClusterIdType
<1>2. mind[r].active \in SUBSET Claims /\ mind[r].asOf \in SUBSET Reviews
  BY DEF WritesWell, SessionFits, Session, Done
<1>3. /\ new \in Row(Ids) /\ new.id = ClusterId(r, k) /\ new.asOf = mind[r].asOf
      /\ new.basis = Basis(mind[r].active, k)
  BY <1>1, <1>2, ScoredType
<1> HIDE DEF new
<1>4. CASE mind[r].existing[k] = Absent
  BY <1>3, <1>4 DEF ScoreWritten, new
<1>5. CASE mind[r].existing[k] # Absent
  <2>1. now \in Row(Ids)
    BY <1>1, <1>5, IdOfType
  <2>2. ScoreWritten(r, k) =
          [new EXCEPT !.label = Column(@, read.label, now.label),
                      !.confidence = Column(@, read.confidence, now.confidence),
                      !.basis = Column(@, read.basis, now.basis)]
    BY <1>5 DEF ScoreWritten, new
  <2>3. /\ Column(new.label, read.label, now.label) \in Labels
        /\ Column(new.confidence, read.confidence, now.confidence) \in 0..Whole
        /\ Column(new.basis, read.basis, now.basis) \in SUBSET Links
    BY <1>3, <2>1 DEF Row, Column
  <2>4. mind[r].began = commits => read = now
    BY DEF WritesWell, SessionFits
  <2>5. read = now => Column(new.basis, read.basis, now.basis) = new.basis
    BY DEF Column
  <2> HIDE DEF read, now
  <2>6. new \in [id : Ids, label : Labels, confidence : 0..Whole, basis : SUBSET Links,
                 asOf : SUBSET Reviews]
    BY <1>3 DEF Row
  <2>7. /\ ScoreWritten(r, k) \in Row(Ids)
        /\ ScoreWritten(r, k).id = new.id
        /\ ScoreWritten(r, k).asOf = new.asOf
        /\ ScoreWritten(r, k).basis = Column(new.basis, read.basis, now.basis)
    BY <2>2, <2>3, <2>6 DEF Row
  <2> QED
    BY <1>3, <2>4, <2>5, <2>7
<1> QED
  BY <1>4, <1>5

LEMMA ClustersWritten ==
  ASSUME IInv, NEW r \in Reasonings, Write(r)
  PROVE  /\ clusters' \in [Keys -> Row(Ids) \cup {Absent}]
         /\ \A k \in ActiveKeys(r) :
              /\ clusters'[k] = ScoreWritten(r, k) /\ clusters'[k] # Absent
              /\ IdOf(k)' = ClusterId(r, k)
         /\ \A k \in Keys \ ActiveKeys(r) :
              /\ clusters'[k] \in {clusters[k], Absent}
              /\ mind[r].began = commits => clusters'[k] = Absent
<1> USE DEF IInv
<1>1. WritesWell(r) /\ TypeOK
  BY WriteEffect DEF Types
<1>2. ActiveKeys(r) \subseteq Keys
  BY <1>1, ClusterIdType
<1>3. clusters' = [k \in Keys |->
         IF k \in ActiveKeys(r) THEN ScoreWritten(r, k)
         ELSE IF k \in Stale(r) THEN Absent ELSE clusters[k]]
  BY DEF Write
<1>4. ASSUME NEW k \in ActiveKeys(r)
      PROVE  /\ clusters'[k] = ScoreWritten(r, k) /\ clusters'[k] \in Row(Ids)
             /\ clusters'[k] # Absent /\ IdOf(k)' = ClusterId(r, k)
  <2>1. ScoreWritten(r, k) \in Row(Ids) /\ ScoreWritten(r, k).id = ClusterId(r, k)
    BY <1>1, ScoreWrittenType
  <2>2. clusters'[k] = ScoreWritten(r, k)
    BY <1>2, <1>3
  <2>3. clusters'[k] # Absent
    BY <2>1, <2>2, RowIsPresent
  <2> QED
    BY <2>1, <2>2, <2>3 DEF IdOf
<1>5. ASSUME NEW k \in Keys \ ActiveKeys(r)
      PROVE  /\ clusters'[k] \in {clusters[k], Absent}
             /\ mind[r].began = commits => clusters'[k] = Absent
  <2>1. clusters'[k] = IF k \in Stale(r) THEN Absent ELSE clusters[k]
    BY <1>3
  <2>2. mind[r].began = commits => mind[r].existing[k] = IdOf(k)
    BY <1>1 DEF WritesWell, SessionFits
  <2>3. IdOf(k) = Absent <=> clusters[k] = Absent
    BY <1>1, IdOfType
  <2> QED
    BY <2>1, <2>2, <2>3 DEF Stale
<1>6. \A k \in Keys : clusters[k] \in Row(Ids) \cup {Absent}
  BY <1>1 DEF TypeOK
<1>7. \A k \in Keys : clusters'[k] \in Row(Ids) \cup {Absent}
  BY <1>4, <1>5, <1>6
<1>8. clusters' \in [Keys -> Row(Ids) \cup {Absent}]
  BY <1>3, <1>7
<1> QED
  BY <1>4, <1>5, <1>8

LEMMA MembersWritten ==
  ASSUME IInv, NEW r \in Reasonings, Write(r)
  PROVE  /\ member' \in [Claims -> Ids \cup {Absent}]
         /\ mind[r].began = commits =>
              \A c \in Claims :
                member'[c] = IF c \in mind[r].active THEN ClusterId(r, KeyOf[c])
                             ELSE Absent
<1> USE DEF IInv
<1>1. WritesWell(r) /\ TypeOK
  BY WriteEffect DEF Types
<1>2. /\ member' = [c \in Claims |->
            IF MemberWritten(r, c) \in {IdOf(k) : k \in Stale(r)} THEN Absent
            ELSE MemberWritten(r, c)]
      /\ member \in [Claims -> Ids \cup {Absent}]
  BY <1>1 DEF Write, TypeOK
<1>3. ASSUME NEW c \in Claims, c \in mind[r].active
      PROVE  /\ KeyOf[c] \in ActiveKeys(r) /\ KeyOf[c] \in Keys
             /\ ClusterId(r, KeyOf[c]) \in Ids
             /\ ClusterId(r, KeyOf[c]) \in (0..(commits + 1)) \X {KeyOf[c]}
  BY <1>1, <1>3, ClusterIdType DEF ActiveKeys, Keys
<1>4. ASSUME NEW c \in Claims
      PROVE  MemberWritten(r, c) \in Ids \cup {Absent}
  BY <1>2, <1>3 DEF MemberWritten
<1>5. member' \in [Claims -> Ids \cup {Absent}]
  BY <1>2, <1>4
<1>6. ASSUME mind[r].began = commits, NEW c \in Claims
      PROVE  member'[c] = IF c \in mind[r].active THEN ClusterId(r, KeyOf[c])
                          ELSE Absent
  <2>1. mind[r].loaded = member
    BY <1>1, <1>6 DEF WritesWell, SessionFits
  <2>2. CASE c \notin mind[r].active
    <3>1. MemberWritten(r, c) = Absent
      BY <2>1, <2>2 DEF MemberWritten
    <3> QED
      BY <1>2, <2>2, <3>1
  <2>3. CASE c \in mind[r].active
    <3>1. MemberWritten(r, c) = ClusterId(r, KeyOf[c])
      BY <2>1, <2>3 DEF MemberWritten
    <3>2. \A k \in Stale(r) : k # KeyOf[c] /\ IdOf(k) \in (0..commits) \X {k}
      <4> SUFFICES ASSUME NEW k \in Stale(r)
                   PROVE  k # KeyOf[c] /\ IdOf(k) \in (0..commits) \X {k}
        OBVIOUS
      <4>1. k \in Keys /\ k \notin ActiveKeys(r) /\ IdOf(k) # Absent
        BY DEF Stale
      <4> QED
        BY <1>1, <1>3, <2>3, <4>1, IdOfType DEF OwnIds
    <3>3. ClusterId(r, KeyOf[c])[2] = KeyOf[c]
      BY <1>3, <2>3
    <3>4. \A k \in Stale(r) : IdOf(k)[2] = k
      BY <3>2
    <3>5. MemberWritten(r, c) \notin {IdOf(k) : k \in Stale(r)}
      BY <3>1, <3>2, <3>3, <3>4
    <3> QED
      BY <1>2, <2>3, <3>1, <3>5
  <2> QED
    BY <2>2, <2>3
<1> QED
  BY <1>5, <1>6

LEMMA WriteTypes ==
  ASSUME IInv, NEW r \in Reasonings, Write(r)
  PROVE  Types' /\ OwnIds'
<1> USE DEF IInv
<1>1. /\ WritesWell(r) /\ Touches(r) /\ pc'[r] = "done"
      /\ commits' = commits + 1 /\ clean' \in BOOLEAN /\ UNCHANGED <<status, reports>>
  BY WriteEffect
<1>2. commits \in Nat /\ TypeOK
  BY CommitsType DEF Types
<1>3. ASSUME NEW k \in Keys, clusters'[k] # Absent
      PROVE  IdOf(k)' \in (0..commits') \X {k} /\ IdOf(k)' = clusters'[k].id
  <2>1. IdOf(k)' = clusters'[k].id
    BY <1>3 DEF IdOf
  <2>2. CASE k \in ActiveKeys(r)
    BY <1>1, <1>2, <2>1, <2>2, ClustersWritten, ClusterIdType
  <2>3. CASE k \notin ActiveKeys(r)
    <3>1. clusters'[k] = clusters[k]
      BY <1>3, <2>3, ClustersWritten
    <3>2. clusters[k].id \in (0..commits) \X {k}
      BY <1>3, <3>1 DEF OwnIds
    <3>3. 0..commits \subseteq 0..commits'
      BY <1>1, <1>2
    <3> QED
      BY <2>1, <3>1, <3>2, <3>3
  <2> QED
    BY <2>2, <2>3
<1>4. OwnIds'
  BY <1>3 DEF OwnIds
<1>5. ASSUME NEW k \in Keys, NEW j \in Keys, k # j, IdOf(k)' = IdOf(j)'
      PROVE  IdOf(k)' = Absent
  <2>1. CASE clusters'[k] = Absent \/ clusters'[j] = Absent
    BY <1>5, <2>1 DEF IdOf
  <2>2. CASE clusters'[k] # Absent /\ clusters'[j] # Absent
    <3>1. IdOf(k)'[2] = k /\ IdOf(j)'[2] = j
      BY <1>3, <2>2
    <3> QED
      BY <1>5, <3>1
  <2> QED
    BY <2>1, <2>2
<1>6. commits' \in 0..Cardinality(Reasonings)
  BY <1>1 DEF WritesWell
<1>7. TypeOK'
  BY <1>1, <1>2, <1>5, <1>6, ClustersWritten, MembersWritten
     DEF TypeOK, Touches, IsFunctionOn
<1> QED
  BY <1>1, <1>4, <1>7, StepTypes, RequestsApart

LEMMA WriteFits ==
  ASSUME IInv, NEW r \in Reasonings, Write(r)
  PROVE  Fits'
<1> USE DEF IInv
<1>1. /\ WritesWell(r) /\ Done' = Done /\ UNCHANGED status
      /\ clean' = (mind[r].began = commits)
  BY WriteEffect
<1>2. TypeOK
  BY DEF Types
<1> SUFFICES ASSUME NEW k \in Keys, clusters'[k] # Absent
             PROVE  /\ clusters'[k].asOf \subseteq Done
                    /\ clean' => clusters'[k].basis = LinksOf(Members(k)')
                    /\ clean' /\ clusters'[k].asOf = Done =>
                         \A c \in Members(k)' : Active(c)
  BY <1>1 DEF Fits, LinksOf, Active
<1>3. CASE k \notin ActiveKeys(r)
  <2>1. clusters'[k] = clusters[k] /\ ~clean'
    BY <1>1, <1>3, ClustersWritten
  <2> QED
    BY <2>1 DEF Fits
<1>4. CASE k \in ActiveKeys(r)
  <2>1. /\ clusters'[k].asOf = mind[r].asOf
        /\ mind[r].began = commits => clusters'[k].basis = Basis(mind[r].active, k)
        /\ IdOf(k)' = ClusterId(r, k)
    BY <1>1, <1>2, <1>4, ClustersWritten, ScoreWrittenType
  <2>2. /\ mind[r].asOf \subseteq Done
        /\ mind[r].asOf = Done => mind[r].active = {c \in Claims : Active(c)}
        /\ mind[r].active \in SUBSET Claims
    BY <1>1 DEF WritesWell, SessionFits, Session
  <2>3. ASSUME mind[r].began = commits
        PROVE  Members(k)' = {c \in mind[r].active : KeyOf[c] = k}
    <3>1. ASSUME NEW c \in Claims
          PROVE  member'[c] = ClusterId(r, k) <=> c \in mind[r].active /\ KeyOf[c] = k
      <4>1. member'[c] = IF c \in mind[r].active THEN ClusterId(r, KeyOf[c])
                         ELSE Absent
        BY <2>3, MembersWritten
      <4>2. ClusterId(r, k) # Absent /\ ClusterId(r, k)[2] = k
        BY <1>1, <1>2, <1>4, ClusterIdType, IdTypes
      <4>3. c \in mind[r].active => ClusterId(r, KeyOf[c])[2] = KeyOf[c]
        BY <1>1, <1>2, ClusterIdType DEF ActiveKeys
      <4> QED
        BY <4>1, <4>2, <4>3
    <3> QED
      BY <2>1, <2>2, <3>1 DEF Members
  <2>4. mind[r].began = commits =>
          clusters'[k].basis = LinksOf(Members(k)')
    BY <2>1, <2>3 DEF Basis
  <2> QED
    BY <1>1, <2>1, <2>2, <2>3, <2>4
<1> QED
  BY <1>3, <1>4

LEMMA WriteKeeps ==
  ASSUME IInv, NEW r \in Reasonings, Write(r)
  PROVE  IInv'
<1> USE DEF IInv
<1>1. /\ WritesWell(r) /\ Touches(r) /\ pc'[r] = "done" /\ Done' = Done
      /\ commits' = commits + 1 /\ UNCHANGED <<status, reports>> /\ Counted'
  BY WriteEffect
<1>2. commits \in Nat
  BY CommitsType DEF Types
<1>3. /\ \A v \in Reviews : pc'[v] = pc[v] /\ mind'[v] = mind[v]
      /\ \A g \in Generators : pc'[g] = pc[g] /\ mind'[g] = mind[g]
      /\ \A x \in Reasonings \ {r} : pc'[x] = pc[x] /\ mind'[x] = mind[x]
  BY <1>1, RequestsApart DEF Touches
<1>4. Types' /\ OwnIds' /\ Fits'
  BY WriteTypes, WriteFits
<1>5. ReviewsKnow' /\ LastReviewDecides'
  BY <1>1, <1>3, OthersKnow
<1>6. ReasoningsKnow'
  <2> SUFFICES ASSUME NEW x \in Reasonings, pc'[x] \in Reading
               PROVE  /\ mind'[x] \in Session'
                      /\ mind'[x].asOf = Done' =>
                           mind'[x].active = {c \in Claims : Active(c)'}
                      /\ mind'[x].began # commits'
    BY DEF ReasoningsKnow, Reading
  <2>1. mind'[x] = mind[x] /\ pc[x] \in Reading
    BY <1>1, <1>3 DEF Reading
  <2>2. /\ mind[x] \in Session
        /\ mind[x].asOf = Done => mind[x].active = {c \in Claims : Active(c)}
    BY <2>1 DEF ReasoningsKnow
  <2>3. mind[x].began \in 0..commits
    BY <2>2 DEF Session
  <2>4. mind[x].began \in 0..commits' /\ mind[x].began # commits'
    BY <1>1, <1>2, <2>3
  <2>5. mind[x] \in Session'
    BY <1>1, <2>2, <2>4 DEF Session
  <2> QED
    BY <1>1, <2>1, <2>2, <2>4, <2>5 DEF Active
<1>7. GeneratorsKnow'
  <2>1. /\ GeneratorsKnow /\ commits' \in Nat /\ commits <= commits'
        /\ commits' # commits
    BY <1>1, <1>2 DEF GeneratorsKnow
  <2> QED
    BY <1>1, <1>2, <1>3, <2>1, GeneratorsIdle
<1> QED
  BY <1>1, <1>4, <1>5, <1>6, <1>7 DEF GeneratorsKnow

-----------------------------------------------------------------------------
(* The theorems                                                             *)

LEMMA StepKeeps == IInv /\ [Next]_vars => IInv'
<1> SUFFICES ASSUME IInv, [Next]_vars PROVE IInv'
  OBVIOUS
<1>1. CASE \E v \in Reviews : Review(v)
  BY <1>1, ReviewKeeps
<1>2. CASE \E r \in Reasonings : Reason(r)
  BY <1>2, ReadingKeeps, WriteKeeps DEF Reason
<1>3. CASE \E g \in Generators : Generate(g)
  BY <1>3, GenerateKeeps
<1>4. CASE UNCHANGED vars
  <2>1. /\ Done' = Done /\ Reasoned' = Reasoned
        /\ \A k \in Keys : IdOf(k)' = IdOf(k)
        /\ \A c \in Claims : Active(c)' = Active(c)
    BY <1>4 DEF vars, Done, Reasoned, IdOf, Active
  <2>2. Types' /\ Counted' /\ OwnIds'
    BY <1>4, <2>1 DEF vars, IInv, Types, TypeOK, Counted, OwnIds, IsFunctionOn
  <2>3. ReviewsKnow' /\ LastReviewDecides'
    BY <1>4, <2>1, OthersKnow DEF vars, IInv
  <2>4. ReasoningsKnow'
    BY <1>4, <2>1 DEF vars, IInv, ReasoningsKnow, Session
  <2>5. Fits'
    BY <1>4, <2>1 DEF vars, IInv, Fits, Members
  <2>6. commits \in Nat /\ commits' \in Nat /\ commits <= commits'
    BY <1>4, CommitsType DEF vars, IInv, Types
  <2>7. GeneratorsKnow'
    <3>1. UNCHANGED <<clusters, member, clean, status, reports, commits, pc, mind>>
      BY <1>4 DEF vars
    <3> QED
      BY <2>1, <2>6, <3>1, GeneratorsIdle DEF IInv, GeneratorsKnow
  <2> QED
    BY <2>2, <2>3, <2>4, <2>5, <2>7 DEF IInv, GeneratorsKnow
<1> QED
  BY <1>1, <1>2, <1>3, <1>4 DEF Next

(* For any number of requests, sessions know what is stored unless something *)
(* was committed since: the inductive invariant always holds.                *)
THEOREM SpecInv == Spec => []IInv
  BY InitInv, StepKeeps, PTL DEF Spec

(* Clusters, scores and memberships keep their types, and two clusters of a *)
(* run never share an identifier, whichever reviews, reasonings and report  *)
(* requests overlap.                                                        *)
THEOREM SpecTypeOK == Spec => []TypeOK
<1>1. IInv => TypeOK
  BY DEF IInv, Types
<1> QED
  BY <1>1, SpecInv, PTL

(* review_claim, last committer wins on one column: the review that began   *)
(* after all others of its claim were answered decides the status.          *)
THEOREM SpecLastReviewDecides == Spec => []LastReviewDecides
<1>1. IInv => LastReviewDecides
  BY DEF IInv
<1> QED
  BY <1>1, SpecInv, PTL

(* reason_over_run: the score that a reasoning without a concurrent one     *)
(* leaves on a cluster rests on evidence of every member and of no other    *)
(* claim.                                                                   *)
THEOREM SpecScoreCoversMembers == Spec => []ScoreCoversMembers
<1>1. ASSUME Fits PROVE ScoreCoversMembers
  <2> SUFFICES ASSUME clean, NEW k \in Keys, clusters[k] # Absent
               PROVE  {c \in Claims : member[c] = IdOf(k)}
                        = {Link[l].claim : l \in clusters[k].basis}
    BY DEF ScoreCoversMembers
  <2>1. clusters[k].basis = LinksOf(Members(k))
    BY <1>1 DEF Fits
  <2>2. {Link[l].claim : l \in LinksOf(Members(k))} = Members(k)
    BY ClaimsAssumption DEF LinksOf, Members
  <2> QED
    BY <2>1, <2>2 DEF Members
<1>2. IInv => ScoreCoversMembers
  BY <1>1 DEF IInv
<1> QED
  BY <1>2, SpecInv, PTL

(* generate_insight reads the evidence of a cluster after its score: a      *)
(* draft made with nothing committed in between cites what was scored.      *)
THEOREM SpecReportsCiteWhatWasScored == Spec => []ReportsCiteWhatWasScored
<1>1. ASSUME IInv PROVE ReportsCiteWhatWasScored
  <2> SUFFICES ASSUME NEW g \in Generators, mind[g] # Absent,
                      NEW d \in mind[g].drafts, d.same
               PROVE  d.evidence = {l \in d.basis : Link[l].stance \in Cited}
    BY DEF ReportsCiteWhatWasScored
  <2>1. pc[g] # "start"
    BY <1>1 DEF IInv, Generating
  <2> QED
    BY <1>1, <2>1 DEF IInv, DraftsFollowRows, DraftsOf
<1> QED
  BY <1>1, SpecInv, PTL

(* generate_insight behind uq_run_insight_fingerprint: no two requests      *)
(* create the same report, and one that begins after another was answered,  *)
(* with nothing committed in between, is given that report.                 *)
THEOREM SpecOneReportPerState == Spec => []OneReportPerState
<1>1. IInv => OneReportPerState
  BY DEF IInv
<1> QED
  BY <1>1, SpecInv, PTL
=============================================================================
