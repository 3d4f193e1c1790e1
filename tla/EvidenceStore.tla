---------------------------- MODULE EvidenceStore ----------------------------
(***************************************************************************)
(* The evidence store under concurrent transactions:                       *)
(*   backend/app/services/storage.py  capture_document,                    *)
(*     apply_publisher_family, record_provenance_link                      *)
(* called by the routes of backend/app/api/routes/storage.py and by the    *)
(* connector worker.                                                       *)
(*                                                                         *)
(* A transaction reads with plain SELECTs at READ COMMITTED, keeps what it *)
(* read in its session, and writes when it flushes and commits; a unique   *)
(* constraint makes the later of two equal inserts fail.  What it read may *)
(* be out of date by then.                                                 *)
(***************************************************************************)
EXTENDS FiniteSets

CONSTANTS
  Captures,      \* transactions that capture a document
  Links,         \* transactions that record a provenance link
  PageOf,        \* capture -> [run, url, content] with the URL as submitted
  SourceOf,      \* capture -> (domain, publisher, type) it declares
  FamilyOf,      \* capture -> the publisher family it declares, or Undeclared
  LinkPage,      \* link -> the stored page it belongs to
  LinkUrl,       \* link -> the upstream URL as submitted
  Canon,         \* URL -> canonicalize_url of it
  Fold,          \* family -> its casefold
  Undeclared,    \* a NULL publisher_family
  Absent         \* no row, or nothing read

Sources == {SourceOf[t] : t \in Captures}
Families == {FamilyOf[t] : t \in Captures} \ {Undeclared}

(* uq_document_capture: run, canonical URL, content hash.                  *)
Canonical(page) == [page EXCEPT !.url = Canon[@]]
Key(t) == Canonical(PageOf[t])
Keys == {Key(t) : t \in Captures}

ASSUME NamesAssumption ==
  /\ Undeclared # Absent
  /\ Absent \notin Families
  /\ Absent \notin Sources
  /\ Absent \notin Captures

ASSUME TransactionsAssumption == Captures \cap Links = {}

VARIABLES
  family,        \* source -> Absent, Undeclared, or its publisher_family
  documents,     \* key -> Absent, or the source of the stored document
  links,         \* stored links: [page, upstream]
  pc,            \* capture or link -> where its transaction is
  target,        \* capture -> the source it has loaded or will insert
  seen,          \* capture -> the family it read on that source, Absent: no row
  creator        \* key -> the capture that inserted the document

vars == <<family, documents, links, pc, target, seen, creator>>

Upstream(l) == [page |-> Canonical(LinkPage[l]), upstream |-> Canon[LinkUrl[l]]]

Places == {"start", "confirm", "source", "write", "insert", "error",
           "created", "duplicate", "conflict", "refused", "missing"}

Init ==
  /\ family = [s \in Sources |-> Absent]
  /\ documents = [k \in Keys |-> Absent]
  /\ links = {}
  /\ pc = [t \in Captures \cup Links |-> "start"]
  /\ target = [t \in Captures |-> Absent]
  /\ seen = [t \in Captures |-> Absent]
  /\ creator = [k \in Keys |-> Absent]

Goto(t, place) == pc' = [pc EXCEPT ![t] = place]

(***************************************************************************)
(* apply_publisher_family: a declaration is compared with, or fills in,    *)
(* the family that the session has read.                                   *)
(***************************************************************************)

Conflicts(t, f) ==
  FamilyOf[t] # Undeclared /\ f \in Families /\ Fold[FamilyOf[t]] # Fold[f]

(* Mutant: a declaration is written whatever the session has read. *)
LastDeclared(t) ==
  IF FamilyOf[t] # Undeclared THEN FamilyOf[t]
  ELSE IF seen[t] = Absent THEN Undeclared ELSE family[target[t]]

(* What the session writes: an attribute that it did not change is not     *)
(* part of the UPDATE.                                                     *)
FamilyWritten(t) ==
  IF FamilyOf[t] # Undeclared /\ seen[t] \in {Absent, Undeclared}
  THEN FamilyOf[t]
  ELSE IF seen[t] = Absent THEN Undeclared ELSE family[target[t]]

(* Mutant: the row is looked up, and what it says is not kept. *)
LoadForgotten(t, s) == UNCHANGED <<target, seen>>

Load(t, s) ==
  /\ target' = [target EXCEPT ![t] = s]
  /\ seen' = [seen EXCEPT ![t] = family[s]]

(***************************************************************************)
(* capture_document                                                        *)
(***************************************************************************)
(* Mutant: a document counts as found only under the declared source. *)
FoundUnderSource(t) == documents[Key(t)] = SourceOf[t]

Found(t) == documents[Key(t)] # Absent

DocumentFound(t) ==
  /\ pc[t] = "start"
  /\ Found(t)
  /\ LET s == documents[Key(t)] IN
       /\ Load(t, s)
       /\ Goto(t, IF Conflicts(t, family[s]) THEN "conflict" ELSE "confirm")
  /\ UNCHANGED <<family, documents, links, creator>>

(* The document is there already: only its source may change.              *)
Confirm(t) ==
  /\ pc[t] = "confirm"
  /\ family' = [family EXCEPT ![target[t]] = FamilyWritten(t)]
  /\ Goto(t, "duplicate")
  /\ UNCHANGED <<documents, links, target, seen, creator>>

DocumentMissing(t) ==
  /\ pc[t] = "start"
  /\ ~Found(t)
  /\ Goto(t, "source")
  /\ UNCHANGED <<family, documents, links, target, seen, creator>>

SourceLookup(t) ==
  /\ pc[t] = "source"
  /\ Load(t, SourceOf[t])
  /\ Goto(t, IF Conflicts(t, family[SourceOf[t]]) THEN "conflict" ELSE "write")
  /\ UNCHANGED <<family, documents, links, creator>>

(* Mutant: documents have no unique constraint. *)
SourceCollides(t) == seen[t] = Absent /\ family[target[t]] # Absent

(* uq_source_identity or uq_document_capture refuses an insert.            *)
Collides(t) ==
  \/ seen[t] = Absent /\ family[target[t]] # Absent
  \/ documents[Key(t)] # Absent

(* Source, document and passages are committed together.                   *)
Write(t) ==
  /\ pc[t] = "write"
  /\ ~Collides(t)
  /\ family' = [family EXCEPT ![target[t]] = FamilyWritten(t)]
  /\ documents' = [documents EXCEPT ![Key(t)] = target[t]]
  /\ creator' = [creator EXCEPT ![Key(t)] = t]
  /\ Goto(t, "created")
  /\ UNCHANGED <<links, target, seen>>

(* The IntegrityError reaches the caller: the response is a 500, or the    *)
(* worker process ends.                                                    *)
WriteFails(t) ==
  /\ pc[t] = "write"
  /\ Collides(t)
  /\ Goto(t, "error")
  /\ UNCHANGED <<family, documents, links, target, seen, creator>>

(* The client submits again, or the job is reclaimed.                      *)
Retry(t) ==
  /\ pc[t] = "error"
  /\ Goto(t, "start")
  /\ UNCHANGED <<family, documents, links, target, seen, creator>>

(***************************************************************************)
(* record_provenance_link                                                  *)
(***************************************************************************)
LinkUnknownDocument(l) ==
  /\ pc[l] = "start"
  /\ documents[Canonical(LinkPage[l])] = Absent
  /\ Goto(l, "missing")
  /\ UNCHANGED <<family, documents, links, target, seen, creator>>

LinkLookup(l) ==
  /\ pc[l] = "start"
  /\ documents[Canonical(LinkPage[l])] # Absent
  /\ LET link == Upstream(l) IN
       Goto(l, IF link.upstream = link.page.url THEN "refused"
               ELSE IF link \in links THEN "duplicate" ELSE "insert")
  /\ UNCHANGED <<family, documents, links, target, seen, creator>>

LinkInsert(l) ==
  /\ pc[l] = "insert"
  /\ IF Upstream(l) \in links
     THEN Goto(l, "error") /\ UNCHANGED links
     ELSE Goto(l, "created") /\ links' = links \cup {Upstream(l)}
  /\ UNCHANGED <<family, documents, target, seen, creator>>

Capture(t) ==
  \/ DocumentFound(t) \/ Confirm(t) \/ DocumentMissing(t)
  \/ SourceLookup(t) \/ Write(t) \/ WriteFails(t)

Link(l) == LinkUnknownDocument(l) \/ LinkLookup(l) \/ LinkInsert(l)

Next ==
  \/ \E t \in Captures : Capture(t)
  \/ \E t \in Captures \cup Links : Retry(t)
  \/ \E l \in Links : Link(l)

Spec == Init /\ [][Next]_vars

(* Transactions end and failed requests are sent again.                    *)
FairSpec ==
  /\ Spec
  /\ \A t \in Captures : WF_vars(Capture(t))
  /\ \A l \in Links : WF_vars(Link(l))
  /\ \A t \in Captures \cup Links : WF_vars(Retry(t))

-----------------------------------------------------------------------------
(* Every variable has its type, and a transaction that is going to write    *)
(* has its source at hand.                                                  *)
TypeOK ==
  /\ family \in [Sources -> Families \cup {Undeclared, Absent}]
  /\ documents \in [Keys -> Sources \cup {Absent}]
  /\ links \subseteq {Upstream(l) : l \in Links}
  /\ pc \in [Captures \cup Links -> Places]
  /\ target \in [Captures -> Sources \cup {Absent}]
  /\ seen \in [Captures -> Families \cup {Undeclared, Absent}]
  /\ creator \in [Keys -> Captures \cup {Absent}]
  /\ \A t \in Captures : pc[t] \in {"confirm", "write"} => target[t] # Absent

(* A capture that was told "created" or "duplicate" has its document in the *)
(* store under a source that exists; "created" is told to one capture of a  *)
(* document only, however many run at once.                                 *)
AnswersAreTrue ==
  \A t \in Captures :
    /\ pc[t] \in {"created", "duplicate"} =>
         documents[Key(t)] # Absent /\ family[documents[Key(t)]] # Absent
    /\ pc[t] = "created" => creator[Key(t)] = t

(* A declared family is replaced by one of another spelling class only when *)
(* the transaction that does so had read the source before the family was   *)
(* declared: a family that a capture has seen is never overwritten by it.   *)
FamilyYieldsOnlyToStaleReads ==
  [][\A s \in Sources :
       family[s] \in Families /\ family'[s] # family[s] =>
         \E t \in Captures :
           /\ pc[t] \in {"confirm", "write"} /\ pc'[t] # pc[t]
           /\ target[t] = s /\ seen[t] = Undeclared]_vars

(* A conflicting declaration never changes the family of a source.          *)
FamilyIsNeverReplaced ==
  [][\A s \in Sources :
       family[s] \in Families =>
         family'[s] \in Families /\ Fold[family'[s]] = Fold[family[s]]]_vars

(* Failures caused by races are not for ever: a capture or a link that is   *)
(* sent again whenever it fails ends in an answer.                          *)
RetriesConverge ==
  \A t \in Captures \cup Links :
    <>(pc[t] \in {"created", "duplicate", "conflict", "refused", "missing"})
=============================================================================
