--------------------------- MODULE ExtractionRuns ---------------------------
(***************************************************************************)
(* Extraction of entities and claims from stored documents:                *)
(*   backend/app/services/extraction.py         extract_document           *)
(*   backend/app/services/entity_resolution.py  resolve_entity             *)
(*   backend/app/domain/extraction.py           validate_provenance        *)
(* behind POST /documents/{id}/extract of api/routes/extraction.py.        *)
(*                                                                         *)
(* A request reads what was extracted before, awaits the model provider,   *)
(* and stores an accepted answer in one transaction that resolves the      *)
(* entities one by one.  Requests share the entity table at READ           *)
(* COMMITTED: an uncommitted row is invisible and locked, and what a       *)
(* session has loaded it does not read again.                              *)
(***************************************************************************)
EXTENDS Integers, FiniteSets, SequencesExt

CONSTANTS
  Requests,    \* extraction requests
  KeyOf,       \* request -> what the lookup compares: document, model, prompt
  Outputs,     \* key -> the answers that the provider may give
  Passages,    \* ordinals of the passages of a document
  Kinds,       \* entity types
  Names,       \* normalized names and aliases, ordered as the code sorts them
  Blank,       \* a name that normalizes to nothing
  Malformed,   \* an answer that is no extraction envelope
  Absent       \* no row, no value

ASSUME RequestsAssumption == IsFiniteSet(Requests)
ASSUME NamesAssumption == Names \subseteq Nat /\ Blank \notin Names
AliasLists == Seq(Names \cup {Blank})
ASSUME AbsentAssumption == Absent \notin AliasLists /\ Malformed # Absent

(* What ExtractionEnvelope lets through.                                   *)
ASSUME OutputsAssumption ==
  \A r \in Requests : \A out \in Outputs[KeyOf[r]] \ {Malformed} :
    /\ out.entities \in Seq(ToSet(out.entities))
    /\ out.claims \in Seq(ToSet(out.claims))
    /\ \A c \in ToSet(out.entities) :
         /\ c.type \in Kinds /\ c.name \in Names \cup {Blank}
         /\ c.aliases \in AliasLists

VARIABLES
  pc,          \* request -> where it is, or how it ended
  output,      \* request -> the accepted answer that it stores, or Absent
  aliases,     \* identity -> alias list of the committed row, or Absent
  claims,      \* committed claims with their evidence
  tx,          \* request -> its session and open transaction
  before       \* request -> requests accepted for its key when it began

vars == <<pc, output, aliases, claims, tx, before>>

Keys == {KeyOf[r] : r \in Requests}

(* uq_entity_identity.                                                     *)
Identities == [type : Kinds, name : Names]

Ends == {"repeat", "ambiguous", "unavailable", "invalid", "accepted", "error"}
Places == {"start", "provider", "resolve", "alias", "insert"} \cup Ends

(* A session: alias lists of the entities it has resolved and of their     *)
(* rows when it loaded them, a change that is not flushed yet, the rows    *)
(* that its transaction has locked, and the entity of each candidate.      *)
NoRow == [e \in Identities |-> Absent]
Closed == [view |-> NoRow, read |-> NoRow, dirty |-> {}, held |-> {},
           resolved |-> <<>>]

Init ==
  /\ pc = [r \in Requests |-> "start"]
  /\ output = [r \in Requests |-> Absent]
  /\ aliases = NoRow
  /\ claims = {}
  /\ tx = [r \in Requests |-> Closed]
  /\ before = [r \in Requests |-> {}]

Goto(r, place) == pc' = [pc EXCEPT ![r] = place]

(***************************************************************************)
(* validate_provenance, after the envelope has been parsed.                *)
(***************************************************************************)
(* Evidence of a stance other than irrelevant.                             *)
UsableEvidence(c) == \E e \in c.evidence : e.stance # "irrelevant"

Ids(out) == {out.entities[i].id : i \in DOMAIN out.entities}

(* Mutant: the errors of the parser are dropped. *)
ParserErrorsDropped(out) == out = Malformed

Valid(out) ==
  /\ out # Malformed
  /\ Cardinality(Ids(out)) = Len(out.entities)
  /\ \A i \in DOMAIN out.entities :
       /\ out.entities[i].name # Blank
       /\ \A m \in out.entities[i].mentions : m.passage \in Passages /\ m.exact
  /\ \A i \in DOMAIN out.claims :
       LET c == out.claims[i] IN
         /\ c.subject \in Ids(out) \cup {Absent}
         /\ \A e \in c.evidence : e.passage \in Passages
         /\ UsableEvidence(c)

(***************************************************************************)
(* extract_document up to the provider's answer                            *)
(***************************************************************************)
Accepted(k) == {r \in Requests : KeyOf[r] = k /\ pc[r] = "accepted"}

(* Mutant: earlier executions of the key are overlooked. *)
LookupForgets(r) ==
  /\ pc[r] = "start"
  /\ Goto(r, "provider")
  /\ before' = [before EXCEPT ![r] = Accepted(KeyOf[r])]
  /\ UNCHANGED <<output, aliases, claims, tx>>

(* scalar_one_or_none raises when it finds more than one row.              *)
Lookup(r) ==
  /\ pc[r] = "start"
  /\ LET previous == Accepted(KeyOf[r]) IN
       /\ before' = [before EXCEPT ![r] = previous]
       /\ Goto(r, CASE Cardinality(previous) = 0 -> "provider"
                    [] Cardinality(previous) = 1 -> "repeat"
                    [] OTHER -> "ambiguous")
  /\ UNCHANGED <<output, aliases, claims, tx>>

(* A timeout, a transport or HTTP error, a refusal, any exception of the   *)
(* provider: the execution is stored as unavailable.                       *)
ProviderFails(r) ==
  /\ pc[r] = "provider"
  /\ Goto(r, "unavailable")
  /\ UNCHANGED <<output, aliases, claims, tx, before>>

ProviderAnswers(r) ==
  /\ pc[r] = "provider"
  /\ \E out \in Outputs[KeyOf[r]] :
       IF Valid(out)
       THEN Goto(r, "resolve") /\ output' = [output EXCEPT ![r] = out]
       ELSE Goto(r, "invalid") /\ UNCHANGED output
  /\ UNCHANGED <<aliases, claims, tx, before>>

(***************************************************************************)
(* resolve_entity for one candidate after the other                        *)
(***************************************************************************)
HasCandidate(r) == Len(tx[r].resolved) < Len(output[r].entities)
Candidate(r) == output[r].entities[Len(tx[r].resolved) + 1]
Identity(c) == [type |-> c.type, name |-> c.name]

(* Rows that the session can see, and the alias lists it then holds.       *)
Visible(r) == {e \in Identities : aliases[e] # Absent \/ e \in tx[r].held}
Current(r, e) == IF tx[r].view[e] # Absent THEN tx[r].view[e] ELSE aliases[e]

(* The i-th of some names is the one with i of them up to it.              *)
Sorted(S) ==
  [i \in 1..Cardinality(S) |->
     CHOOSE a \in S : Cardinality({b \in S : b <= a}) = i]

(* Mutant: the aliases of the candidate replace those of the entity. *)
ReplacedAliases(existing, incoming) == Sorted(ToSet(incoming) \ {Blank})

(* merged_aliases: one spelling of each normalized alias, sorted.          *)
Merged(existing, incoming) ==
  Sorted((ToSet(existing) \cup ToSet(incoming)) \ {Blank})

(* The candidate is entity e; its row is updated at the next flush, if the *)
(* merged list differs from the one the session holds.                     *)
Take(r, e) ==
  LET merged == Merged(Current(r, e), Candidate(r).aliases) IN
    /\ tx' = [tx EXCEPT
         ![r].view[e] = merged,
         ![r].read[e] = IF tx[r].view[e] = Absent THEN aliases[e] ELSE @,
         ![r].dirty = IF merged # Current(r, e) THEN {e} ELSE {},
         ![r].resolved = Append(@, e)]
    /\ Goto(r, "resolve")

FindExact(r) ==
  /\ pc[r] = "resolve" /\ tx[r].dirty = {} /\ HasCandidate(r)
  /\ LET e == Identity(Candidate(r)) IN
       IF e \in Visible(r) THEN Take(r, e)
       ELSE Goto(r, "alias") /\ UNCHANGED tx
  /\ UNCHANGED <<output, aliases, claims, before>>

(* An alias decides only when a single entity of the type has it.          *)
FindAlias(r) ==
  /\ pc[r] = "alias"
  /\ LET c == Candidate(r)
         matches == {e \in Visible(r) :
                       e.type = c.type /\ c.name \in ToSet(Current(r, e))}
     IN IF Cardinality(matches) = 1 THEN \E e \in matches : Take(r, e)
        ELSE Goto(r, "insert") /\ UNCHANGED tx
  /\ UNCHANGED <<output, aliases, claims, before>>

Holders(r, e) == {s \in Requests \ {r} : e \in tx[s].held}

(* Mutant: the session is not rolled back: what it wrote so far is kept. *)
AbortKeepsRows(r) ==
  /\ aliases' = [e \in Identities |->
                   IF e \in tx[r].held THEN tx[r].view[e] ELSE aliases[e]]
  /\ tx' = [tx EXCEPT ![r] = Closed]
  /\ output' = [output EXCEPT ![r] = Absent]
  /\ Goto(r, "error")

(* The database refuses a statement: the response is a 500, the provider   *)
(* has been paid.                                                          *)
Abort(r) ==
  /\ tx' = [tx EXCEPT ![r] = Closed]
  /\ output' = [output EXCEPT ![r] = Absent]
  /\ Goto(r, "error")
  /\ UNCHANGED aliases

(* The insert of a name that another transaction is inserting waits for    *)
(* the end of that transaction, and fails if it commits.                   *)
Insert(r) ==
  /\ pc[r] = "insert"
  /\ LET e == Identity(Candidate(r)) IN
       /\ Holders(r, e) = {}
       /\ IF aliases[e] # Absent THEN Abort(r)
          ELSE /\ tx' = [tx EXCEPT ![r].view[e] = Candidate(r).aliases,
                                   ![r].held = @ \cup {e},
                                   ![r].resolved = Append(@, e)]
               /\ Goto(r, "resolve")
               /\ UNCHANGED <<output, aliases>>
  /\ UNCHANGED <<claims, before>>

(* The next query, flush or commit writes the changed alias list; a row    *)
(* that another transaction has written is waited for.                     *)
Flush(r) ==
  /\ pc[r] = "resolve"
  /\ \E e \in tx[r].dirty :
       /\ Holders(r, e) = {}
       /\ tx' = [tx EXCEPT ![r].dirty = {}, ![r].held = @ \cup {e}]
  /\ UNCHANGED <<pc, output, aliases, claims, before>>

(***************************************************************************)
(* Claims, evidence links, execution and entities are committed together.  *)
(***************************************************************************)
Subject(r, id) ==
  IF id = Absent THEN Absent
  ELSE LET i == CHOOSE j \in DOMAIN output[r].entities :
                  output[r].entities[j].id = id
       IN tx[r].resolved[i]

NewClaims(r) ==
  {[execution |-> r, index |-> i,
    subject |-> Subject(r, output[r].claims[i].subject),
    evidence |-> output[r].claims[i].evidence] : i \in DOMAIN output[r].claims}

Commit(r) ==
  /\ pc[r] = "resolve" /\ tx[r].dirty = {} /\ ~HasCandidate(r)
  /\ aliases' = [e \in Identities |->
                   IF e \in tx[r].held THEN tx[r].view[e] ELSE aliases[e]]
  /\ claims' = claims \cup NewClaims(r)
  /\ tx' = [tx EXCEPT ![r] = Closed]
  /\ Goto(r, "accepted")
  /\ UNCHANGED <<output, before>>

(***************************************************************************)
(* PostgreSQL ends a cycle of waiting transactions by aborting one.        *)
(***************************************************************************)
WaitsOn(r) ==
  IF pc[r] = "insert" THEN Holders(r, Identity(Candidate(r)))
  ELSE UNION {Holders(r, e) : e \in tx[r].dirty}

(* Mutant: no cycle is ever found. *)
NoVictim(r) == FALSE

InCycle(r) ==
  \E S \in SUBSET Requests :
    r \in S /\ S = UNION {WaitsOn(s) : s \in S}

Deadlocked(r) == InCycle(r) /\ Abort(r) /\ UNCHANGED <<claims, before>>

Step(r) ==
  \/ Lookup(r) \/ ProviderFails(r) \/ ProviderAnswers(r)
  \/ FindExact(r) \/ FindAlias(r) \/ Insert(r) \/ Flush(r) \/ Commit(r)
  \/ Deadlocked(r)

Next == \E r \in Requests : Step(r)

Spec == Init /\ [][Next]_vars

(* The provider answers or its timeout does; the database goes on.         *)
FairSpec == Spec /\ \A r \in Requests : WF_vars(Step(r))

-----------------------------------------------------------------------------
(* Every variable has its type.                                             *)
TypeOK ==
  /\ pc \in [Requests -> Places]
  /\ DOMAIN output = Requests
  /\ \A r \in Requests :
       output[r] \in {Absent} \cup (Outputs[KeyOf[r]] \ {Malformed})
  /\ aliases \in [Identities -> AliasLists \cup {Absent}]
  /\ \A c \in claims :
       c.execution \in Requests /\ c.subject \in Identities \cup {Absent}
  /\ tx \in [Requests ->
       [view : [Identities -> AliasLists \cup {Absent}],
        read : [Identities -> AliasLists \cup {Absent}],
        dirty : SUBSET Identities, held : SUBSET Identities,
        resolved : Seq(Identities)]]
  /\ before \in [Requests -> SUBSET Requests]

(* What readers see comes from accepted answers as a whole: a claim has     *)
(* usable evidence from passages of the document and, if it names a subject, *)
(* an entity that exists; an entity exists only if an accepted answer names *)
(* it.  Refused, failed and rolled back extractions leave nothing.          *)
OnlyAcceptedOutputIsVisible ==
  /\ \A c \in claims :
       /\ pc[c.execution] = "accepted"
       /\ \E e \in c.evidence : e.stance # "irrelevant"
       /\ \A e \in c.evidence : e.passage \in Passages
       /\ c.subject = Absent \/ aliases[c.subject] # Absent
  /\ \A r \in Requests :
       pc[r] = "accepted" =>
         Cardinality({c \in claims : c.execution = r}) = Len(output[r].claims)
  /\ \A e \in Identities :
       aliases[e] # Absent =>
         \E r \in Requests :
           /\ pc[r] = "accepted"
           /\ \E i \in DOMAIN output[r].entities :
                Identity(output[r].entities[i]) = e

(* Of two accepted executions of one key, each request had begun before the *)
(* other was accepted; only such a pair makes a later lookup fail.          *)
DuplicatesOverlap ==
  /\ \A s, t \in Requests :
       pc[s] = "accepted" /\ pc[t] = "accepted" /\ KeyOf[s] = KeyOf[t] =>
         s \notin before[t]
  /\ \A r \in Requests :
       pc[r] = "ambiguous" =>
         \E s, t \in before[r] :
           s # t /\ s \notin before[t] /\ t \notin before[s]

(* An alias of an entity that normalizes to something disappears only with  *)
(* the commit of a request that had loaded the entity before the alias was  *)
(* added to it.                                                             *)
AliasesYieldOnlyToStaleReads ==
  [][\A e \in Identities :
       aliases[e] # Absent =>
         \A a \in ToSet(aliases[e]) \ {Blank} :
           \/ aliases'[e] # Absent /\ a \in ToSet(aliases'[e])
           \/ \E r \in Requests :
                /\ pc[r] = "resolve" /\ pc'[r] = "accepted"
                /\ tx[r].read[e] # Absent /\ a \notin ToSet(tx[r].read[e])]_vars

(* Every request ends, whatever rows the others have locked.                *)
EveryRequestEnds == \A r \in Requests : <>(pc[r] \in Ends)
=============================================================================
