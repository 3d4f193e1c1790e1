-------------------------- MODULE ReasoningReports --------------------------
(***************************************************************************)
(* From reviewed claims to cited reports, for one analysis run:            *)
(*   backend/app/services/reasoning.py      reason_over_run                *)
(*   backend/app/services/insights.py       generate_insight               *)
(*   backend/app/domain/reporting.py                                       *)
(*   backend/app/api/routes/extraction.py   review_claim                   *)
(* over the pure parts Independence and Scoring.                           *)
(*                                                                         *)
(* Each request is a transaction at READ COMMITTED: every statement sees   *)
(* what is committed by then, rows once loaded keep their values in the    *)
(* session, and only attributes that changed since are written.  The write *)
(* phase of a transaction is one step here: its row locks order it against *)
(* the others, and constraints fail what no longer fits.                   *)
(***************************************************************************)
EXTENDS Independence, Scoring

CONSTANTS
  Claims,        \* claims of accepted extractions, in the order of creation
  KeyOf,         \* claim -> its cluster key
  Certainty,     \* claim -> its extraction confidence
  Links,         \* evidence links
  Link,          \* link -> [claim, doc, stance, quality]
  SignalsOf,     \* document -> its dependency signals
  Decisions,     \* what a review may be: [claim, action]
  Reviews, Reasonings, Generators,   \* requests
  Pool,          \* database connections: requests in progress at once
  Absent         \* no row, no value

ASSUME RequestsAssumption ==
  /\ Reviews \cap Reasonings = {}
  /\ Generators \cap (Reviews \cup Reasonings) = {}
  /\ IsFiniteSet(Reasonings)

(* An accepted claim has evidence (ExtractionRuns!Valid).                  *)
ASSUME ClaimsAssumption ==
  /\ Claims \subseteq Nat /\ Links \subseteq Nat
  /\ \A l \in Links : Link[l].claim \in Claims
  /\ \A c \in Claims : \E l \in Links : Link[l].claim = c
  /\ \A d \in Decisions : d.claim \in Claims

VARIABLES
  status,        \* claim -> its review status
  member,        \* claim -> the cluster it belongs to, or Absent
  clusters,      \* key -> Absent, or its cluster with its score
  reports,       \* fingerprints of the stored reports
  pc,            \* request -> where it is
  mind,          \* request -> what its session holds
  commits,       \* number of committed reasonings; also names new clusters
  clean          \* no reasoning committed while the last one ran

vars == <<status, member, clusters, reports, pc, mind, commits, clean>>

Keys == {KeyOf[c] : c \in Claims}
Requests == Reviews \cup Reasonings \cup Generators
Reportable == Labels \ {"weak"}
Cited == {"supports", "contradicts"}

(***************************************************************************)
(* Grouping and aggregation, for the claims that are active.               *)
(***************************************************************************)
LinksOf(claims) == {l \in Links : Link[l].claim \in claims}

(* assign_independence_groups over the documents of the active claims.     *)
SignalsRead(active) ==
  [d \in {Link[l].doc : l \in LinksOf(active)} |-> SignalsOf[d]]

(* Mutant: evidence of rejected claims is aggregated as well. *)
BasisWithRejected(active, k) == LinksOf({c \in Claims : KeyOf[c] = k})

Basis(active, k) == LinksOf({c \in active : KeyOf[c] = k})

Items(active, k) ==
  LET signals == SignalsRead(active)
  IN {[link |-> l, stance |-> Link[l].stance, quality |-> Link[l].quality,
       group |-> GroupOf(signals, Link[l].doc)] : l \in Basis(active, k)}

Scored(active, k, id, asOf) ==
  LET items == Items(active, k)
  IN [id |-> id, label |-> Label(items), confidence |-> Confidence(items),
      basis |-> Basis(active, k), asOf |-> asOf]

(* A row of claim_clusters with its score.                                 *)
Row(ids) ==
  [id : ids, label : Labels, confidence : 0..Whole, basis : SUBSET Links,
   asOf : SUBSET Reviews]

ASSUME AbsentAssumption ==
  Absent \notin Nat \X Keys /\ Absent \notin Row(Nat \X Keys)

(* A quality is a share of one; Most bounds the evidence of a cluster.      *)
ASSUME LinksAssumption ==
  /\ IsFiniteSet(Links)
  /\ \A l \in Links : Link[l].quality \in 0..Scale
  /\ \A k \in Keys :
       Cardinality({l \in Links : KeyOf[Link[l].claim] = k}) <= Most

(* Either nothing was reasoned yet, or once over all the claims.           *)
Init ==
  /\ status = [c \in Claims |-> "machine_extracted"]
  /\ \/ /\ member = [c \in Claims |-> Absent]
        /\ clusters = [k \in Keys |-> Absent]
     \/ /\ member = [c \in Claims |-> <<0, KeyOf[c]>>]
        /\ clusters = [k \in Keys |-> Scored(Claims, k, <<0, k>>, {})]
  /\ reports = {}
  /\ pc = [q \in Requests |-> "start"]
  /\ mind = [q \in Requests |-> Absent]
  /\ commits = 0
  /\ clean = TRUE

Goto(q, place) == pc' = [pc EXCEPT ![q] = place]
Keep(q, what) == mind' = [mind EXCEPT ![q] = what]

(* A request needs a connection from its first statement to its end.       *)
Ended == {"done", "error", "refused", "existing", "created"}
InProgress == {q \in Requests : pc[q] \notin Ended \cup {"start"}}
Starts(q) == pc[q] = "start" /\ Cardinality(InProgress) < Pool

Done == {v \in Reviews : pc[v] = "done"}

(***************************************************************************)
(* review_claim                                                            *)
(***************************************************************************)
ReviewLoad(v) ==
  /\ Starts(v)
  /\ \E d \in Decisions :
       Keep(v, [claim |-> d.claim, action |-> d.action,
                seen |-> status[d.claim], after |-> Done])
  /\ Goto(v, "commit")
  /\ UNCHANGED <<status, member, clusters, reports, commits, clean>>

(* Mutant: only a claim that nobody has decided yet takes the action. *)
FirstDecisionStands(v) ==
  IF mind[v].seen = "machine_extracted" THEN mind[v].action
  ELSE status[mind[v].claim]

(* A decision that equals the status that was loaded writes no status.     *)
StatusWritten(v) ==
  IF mind[v].action # mind[v].seen THEN mind[v].action
  ELSE status[mind[v].claim]

ReviewCommit(v) ==
  /\ pc[v] = "commit"
  /\ status' = [status EXCEPT ![mind[v].claim] = StatusWritten(v)]
  /\ Goto(v, "done")
  /\ UNCHANGED <<member, clusters, reports, mind, commits, clean>>

(***************************************************************************)
(* reason_over_run: the reads                                              *)
(***************************************************************************)
Active(c) == status[c] # "rejected"

(* The claims in force with their evidence and documents.                  *)
ReadRows(r) ==
  /\ Starts(r)
  /\ Keep(r, [active |-> {c \in Claims : Active(c)}, loaded |-> member,
              existing |-> [k \in Keys |-> Absent],
              scores |-> clusters, began |-> commits, asOf |-> Done])
  /\ Goto(r, "clusters")
  /\ UNCHANGED <<status, member, clusters, reports, commits, clean>>

IdOf(k) == IF clusters[k] = Absent THEN Absent ELSE clusters[k].id

ReadClusters(r) ==
  /\ pc[r] = "clusters"
  /\ Keep(r, [mind[r] EXCEPT !.existing = [k \in Keys |-> IdOf(k)]])
  /\ Goto(r, "claims")
  /\ UNCHANGED <<status, member, clusters, reports, commits, clean>>

(* Claims that the first statement has loaded already are not read again.  *)
ReadClaims(r) ==
  /\ pc[r] = "claims"
  /\ Keep(r, [mind[r] EXCEPT !.loaded =
                [c \in Claims |-> IF c \in mind[r].active THEN @[c]
                                  ELSE member[c]]])
  /\ Goto(r, "scores")
  /\ UNCHANGED <<status, member, clusters, reports, commits, clean>>

ReadScores(r) ==
  /\ pc[r] = "scores"
  /\ Keep(r, [mind[r] EXCEPT !.scores = clusters])
  /\ Goto(r, "write")
  /\ UNCHANGED <<status, member, clusters, reports, commits, clean>>

(***************************************************************************)
(* reason_over_run: the writes                                             *)
(***************************************************************************)
ActiveKeys(r) == {KeyOf[c] : c \in mind[r].active}

(* Mutant: the clusters that one reasoning inserts share an identifier. *)
SharedId(k) == <<commits + 1, CHOOSE j \in Keys : TRUE>>

NewId(k) == <<commits + 1, k>>
ClusterId(r, k) ==
  IF mind[r].existing[k] # Absent THEN mind[r].existing[k] ELSE NewId(k)

(* A cluster to insert is there already (uq_run_claim_cluster), or one to  *)
(* score is gone.                                                          *)
Clashes(r) == \E k \in ActiveKeys(r) : IdOf(k) # mind[r].existing[k]

(* A column is written if it differs from the one that was read.           *)
Column(new, read, now) == IF new # read THEN new ELSE now

ScoreWritten(r, k) ==
  LET new == Scored(mind[r].active, k, ClusterId(r, k), mind[r].asOf)
      read == mind[r].scores[k]
      now == clusters[k]
  IN IF mind[r].existing[k] = Absent THEN new
     ELSE [new EXCEPT
             !.label = Column(@, read.label, now.label),
             !.confidence = Column(@, read.confidence, now.confidence),
             !.basis = Column(@, read.basis, now.basis)]

(* Mutant: claims that have become inactive stay where they were. *)
InactiveStay(r, c) ==
  IF c \in mind[r].active /\ mind[r].loaded[c] # ClusterId(r, KeyOf[c])
  THEN ClusterId(r, KeyOf[c]) ELSE member[c]

(* Inactive claims leave their cluster, active ones enter that of their    *)
(* key; a claim whose loaded cluster is right already is not written.      *)
MemberWritten(r, c) ==
  IF c \notin mind[r].active
  THEN IF mind[r].loaded[c] # Absent THEN Absent ELSE member[c]
  ELSE IF mind[r].loaded[c] # ClusterId(r, KeyOf[c]) THEN ClusterId(r, KeyOf[c])
  ELSE member[c]

(* Clusters that were read and have no active claim are deleted, and their *)
(* remaining members with them set free.                                   *)
Stale(r) ==
  {k \in Keys \ ActiveKeys(r) :
     mind[r].existing[k] # Absent /\ mind[r].existing[k] = IdOf(k)}

Write(r) ==
  /\ pc[r] = "write"
  /\ ~Clashes(r)
  /\ clusters' = [k \in Keys |->
       IF k \in ActiveKeys(r) THEN ScoreWritten(r, k)
       ELSE IF k \in Stale(r) THEN Absent ELSE clusters[k]]
  /\ member' = [c \in Claims |->
       IF MemberWritten(r, c) \in {IdOf(k) : k \in Stale(r)} THEN Absent
       ELSE MemberWritten(r, c)]
  /\ commits' = commits + 1
  /\ clean' = (mind[r].began = commits)
  /\ Goto(r, "done") /\ Keep(r, Absent)
  /\ UNCHANGED <<status, reports>>

(* A constraint or a deadlock with another reasoning ends the transaction: *)
(* the response is a 500.                                                  *)
ReasoningFails(r) ==
  /\ pc[r] = "write"
  /\ Clashes(r) \/ \E s \in Reasonings \ {r} : pc[s] = "write"
  /\ Goto(r, "error") /\ Keep(r, Absent)
  /\ UNCHANGED <<status, member, clusters, reports, commits, clean>>

(***************************************************************************)
(* generate_insight                                                        *)
(***************************************************************************)
(* Scored clusters are read by one statement; without any the request is   *)
(* refused.                                                                *)
ReadScored(g) ==
  /\ Starts(g)
  /\ LET rows == {clusters[k] : k \in Keys} \ {Absent} IN
       /\ Keep(g, [todo |-> {row \in rows : row.label \in Reportable},
                   drafts |-> {}, clean |-> clean, began |-> commits,
                   seen |-> Done, last |-> <<commits, Done>>,
                   after |-> {h \in Generators : pc[h] \in {"created", "existing"}}])
       /\ Goto(g, IF rows = {} THEN "refused" ELSE "draft")
  /\ UNCHANGED <<status, member, clusters, reports, commits, clean>>

(* The evidence that a statement about the cluster may cite.               *)
Citable(id) ==
  {l \in Links : /\ member[Link[l].claim] = id
                 /\ Active(Link[l].claim)
                 /\ Link[l].stance \in Cited}

Stances(evidence) == {Link[l].stance : l \in evidence}

(* validate_statement_citations *)
MayBeStated(label, evidence) ==
  /\ "supports" \in Stances(evidence)
  /\ label = "disputed" => "contradicts" \in Stances(evidence)

Representative(evidence) ==
  LET claims == {Link[l].claim : l \in evidence}
  IN CHOOSE c \in claims : \A d \in claims :
       Certainty[c] > Certainty[d] \/ (Certainty[c] = Certainty[d] /\ c <= d)

(* The evidence of one cluster after the other is read, the clusters of    *)
(* greatest confidence first.                                              *)
BuildDraft(g) ==
  /\ pc[g] = "draft"
  /\ \E row \in mind[g].todo :
       /\ \A other \in mind[g].todo : other.confidence <= row.confidence
       /\ LET evidence == Citable(row.id)
              draft == [cluster |-> row.id, label |-> row.label,
                        confidence |-> row.confidence,
                        claim |-> Representative(evidence),
                        evidence |-> evidence, basis |-> row.basis,
                        same |-> /\ mind[g].clean /\ commits = mind[g].began
                                 /\ Done = row.asOf]
          IN Keep(g, [mind[g] EXCEPT
               !.todo = @ \ {row},
               !.drafts = IF MayBeStated(row.label, evidence)
                          THEN @ \cup {draft} ELSE @])
  /\ UNCHANGED <<status, member, clusters, reports, pc, commits, clean>>

(* report_fingerprint: what the report says and nothing else.              *)
Statement(draft) ==
  [cluster |-> draft.cluster, claim |-> draft.claim, label |-> draft.label,
   confidence |-> draft.confidence, evidence |-> draft.evidence]

Fingerprint(g) == {Statement(d) : d \in mind[g].drafts}

LookupReport(g) ==
  /\ pc[g] = "draft" /\ mind[g].todo = {}
  /\ Keep(g, [mind[g] EXCEPT !.last = <<commits, Done>>])
  /\ Goto(g, IF mind[g].drafts = {} THEN "refused"
             ELSE IF Fingerprint(g) \in reports THEN "existing" ELSE "insert")
  /\ UNCHANGED <<status, member, clusters, reports, commits, clean>>

(* Mutant: reports have no unique constraint. *)
ClusterGone(g) ==
  \E d \in mind[g].drafts : \A k \in Keys : IdOf(k) # d.cluster

(* uq_run_insight_fingerprint, or a statement whose cluster is gone.       *)
InsertRefused(g) ==
  \/ Fingerprint(g) \in reports
  \/ \E d \in mind[g].drafts : \A k \in Keys : IdOf(k) # d.cluster

InsertReport(g) ==
  /\ pc[g] = "insert"
  /\ IF InsertRefused(g) THEN Goto(g, "error") /\ UNCHANGED reports
     ELSE /\ reports' = reports \cup {Fingerprint(g)}
          /\ Goto(g, "created")
  /\ UNCHANGED <<status, member, clusters, mind, commits, clean>>

-----------------------------------------------------------------------------
Review(v) == ReviewLoad(v) \/ ReviewCommit(v)

Reason(r) ==
  \/ ReadRows(r) \/ ReadClusters(r) \/ ReadClaims(r)
  \/ ReadScores(r) \/ Write(r) \/ ReasoningFails(r)

Generate(g) ==
  ReadScored(g) \/ BuildDraft(g) \/ LookupReport(g) \/ InsertReport(g)

Next ==
  \/ \E v \in Reviews : Review(v)
  \/ \E r \in Reasonings : Reason(r)
  \/ \E g \in Generators : Generate(g)

Spec == Init /\ [][Next]_vars

-----------------------------------------------------------------------------
Ids == {<<n, k>> : n \in 0..Cardinality(Reasonings), k \in Keys}

(* Every variable has its type, and two clusters never share an identifier. *)
TypeOK ==
  /\ status \in [Claims -> {d.action : d \in Decisions} \cup {"machine_extracted"}]
  /\ member \in [Claims -> Ids \cup {Absent}]
  /\ clusters \in [Keys -> Row(Ids) \cup {Absent}]
  /\ \A k, j \in Keys : k # j /\ IdOf(k) = IdOf(j) => IdOf(k) = Absent
  /\ \A report \in reports : \A s \in report :
       s.label \in Reportable /\ s.evidence \subseteq Links
  /\ DOMAIN pc = Requests /\ DOMAIN mind = Requests
  /\ commits \in 0..Cardinality(Reasonings)
  /\ clean \in BOOLEAN

(* A review that began after every other review of its claim was answered   *)
(* decides the status of the claim: what the reviewers read last is what    *)
(* reasoning and reports go by.                                             *)
LastReviewDecides ==
  \A v \in Reviews :
    /\ pc[v] = "done"
    /\ \A w \in Reviews \ {v} :
         pc[w] = "done" /\ mind[w].claim = mind[v].claim => w \in mind[v].after
    => status[mind[v].claim] = mind[v].action

(* After a reasoning during which no other was committed, the members of    *)
(* every cluster are the claims whose evidence its score was computed from. *)
ScoreCoversMembers ==
  clean =>
    \A k \in Keys :
      clusters[k] # Absent =>
        {c \in Claims : member[c] = IdOf(k)}
          = {Link[l].claim : l \in clusters[k].basis}

(* A statement cites exactly the supporting and contradicting evidence that *)
(* its label was computed from, unless a review was committed since the     *)
(* reasoning read the claims, or reasonings ran into each other or into the *)
(* generation.                                                              *)
ReportsCiteWhatWasScored ==
  \A g \in Generators :
    mind[g] # Absent =>
      \A d \in mind[g].drafts :
        d.same => d.evidence = {l \in d.basis : Link[l].stance \in Cited}

(* Equal reports are stored once, however many requests generate them, and  *)
(* a request that begins after another was answered, with nothing committed *)
(* in between, is given the same report.                                    *)
OneReportPerState ==
  /\ \A g, h \in Generators :
       g # h /\ pc[g] = "created" /\ pc[h] = "created" =>
         Fingerprint(g) # Fingerprint(h)
  /\ \A g, h \in Generators :
       /\ pc[g] \in {"refused", "insert", "created", "error", "existing"}
       /\ h \in mind[g].after
       /\ mind[g].last = <<mind[h].began, mind[h].seen>>
       => pc[g] = "existing" /\ Fingerprint(g) = Fingerprint(h)
=============================================================================
