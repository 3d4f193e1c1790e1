------------------------ MODULE ExtractionRunsProofs ------------------------
(* Proofs about ExtractionRuns.                                             *)
EXTENDS ExtractionRuns, FiniteSetTheorems, TLAPS

(* A request that passed the lookup had found nothing.                      *)
Past == {"provider", "resolve", "alias", "insert", "accepted"}
FoundNothing == \A t \in Requests : pc[t] \in Past => before[t] = {}

(* What made a lookup ambiguous: two requests past a lookup that found      *)
(* nothing, which is not repeated.                                          *)
FirstLookup(s) == pc[s] # "start" /\ before[s] = {}
AmbiguousFound ==
  \A r \in Requests :
    pc[r] = "ambiguous" =>
      \E s, t \in before[r] : s # t /\ FirstLookup(s) /\ FirstLookup(t)

LookupType ==
  /\ pc \in [Requests -> Places]
  /\ before \in [Requests -> SUBSET Requests]

LInv == LookupType /\ FoundNothing /\ AmbiguousFound

LEMMA LookupInit == Init => LInv
  BY DEF Init, LInv, LookupType, FoundNothing, AmbiguousFound, Past, Places

LEMMA NoRequestBefore ==
  ASSUME NEW S \in SUBSET Requests, Cardinality(S) = 0
  PROVE  S = {}
<1>1. IsFiniteSet(S)
  BY RequestsAssumption, FS_Subset
<1> QED
  BY <1>1, FS_EmptySet

LEMMA TwoRequestsBefore ==
  ASSUME NEW S \in SUBSET Requests, Cardinality(S) # 0, Cardinality(S) # 1
  PROVE  \E s, t \in S : s # t
<1>1. IsFiniteSet(S)
  BY RequestsAssumption, FS_Subset
<1>2. PICK s \in S : TRUE
  BY <1>1, FS_EmptySet
<1>3. S # {s}
  BY FS_Singleton
<1> QED
  BY <1>2, <1>3

LEMMA LookupKeepsInv ==
  ASSUME LInv, NEW r \in Requests, Lookup(r)
  PROVE  LInv'
<1> DEFINE previous == Accepted(KeyOf[r])
<1> USE DEF LInv
<1>0. /\ pc[r] = "start" /\ previous \in SUBSET Requests
      /\ before' = [before EXCEPT ![r] = previous]
      /\ \/ Cardinality(previous) = 0 /\ pc' = [pc EXCEPT ![r] = "provider"]
         \/ Cardinality(previous) = 1 /\ pc' = [pc EXCEPT ![r] = "repeat"]
         \/ /\ Cardinality(previous) # 0 /\ Cardinality(previous) # 1
            /\ pc' = [pc EXCEPT ![r] = "ambiguous"]
  <2>1. pc[r] = "start" /\ before' = [before EXCEPT ![r] = previous]
    BY DEF Lookup
  <2>2. previous \in SUBSET Requests
    BY DEF Accepted
  <2>3. pc' = [pc EXCEPT ![r] = CASE Cardinality(previous) = 0 -> "provider"
                                 [] Cardinality(previous) = 1 -> "repeat"
                                 [] OTHER -> "ambiguous"]
    BY DEF Lookup, Goto
  <2> HIDE DEF previous
  <2>4. CASE Cardinality(previous) = 0
    BY <2>1, <2>2, <2>3, <2>4
  <2>5. CASE Cardinality(previous) = 1
    BY <2>1, <2>2, <2>3, <2>5
  <2>6. CASE Cardinality(previous) # 0 /\ Cardinality(previous) # 1
    BY <2>1, <2>2, <2>3, <2>6
  <2> QED
    BY <2>4, <2>5, <2>6
<1> HIDE DEF previous
<1>1. LookupType'
  BY <1>0 DEF LookupType, Places, Ends
<1>2. FoundNothing'
  BY <1>0, NoRequestBefore DEF FoundNothing, LookupType, Past
<1>3. \A s \in Requests : FirstLookup(s) => FirstLookup(s)'
  BY <1>0 DEF FirstLookup, LookupType
<1>4. \A s \in previous : FirstLookup(s)
  BY DEF previous, Accepted, FirstLookup, FoundNothing, Past
<1>5. AmbiguousFound'
  <2> SUFFICES ASSUME NEW q \in Requests, pc'[q] = "ambiguous"
               PROVE  \E s, t \in before'[q] :
                        s # t /\ FirstLookup(s)' /\ FirstLookup(t)'
    BY DEF AmbiguousFound
  <2>1. CASE q = r
    <3>1. /\ before'[q] = previous
          /\ Cardinality(previous) # 0 /\ Cardinality(previous) # 1
      BY <1>0, <2>1 DEF LookupType
    <3>2. PICK s, t \in previous : s # t
      BY <3>1, <1>0, TwoRequestsBefore
    <3> QED
      BY <3>1, <3>2, <1>0, <1>3, <1>4
  <2>2. CASE q # r
    <3>1. pc[q] = "ambiguous" /\ before'[q] = before[q]
      BY <1>0, <2>2 DEF LookupType
    <3>2. before[q] \subseteq Requests
      BY DEF LookupType
    <3> QED
      BY <3>1, <3>2, <1>3 DEF AmbiguousFound
  <2> QED
    BY <2>1, <2>2
<1> QED
  BY <1>1, <1>2, <1>5

(* No other step leads to the start, past the lookup from elsewhere, or to  *)
(* the ambiguous end.                                                       *)
Leads(r, q) ==
  /\ pc' = [pc EXCEPT ![r] = q]
  /\ q \in Places \ {"start", "ambiguous"}
  /\ q \in Past => pc[r] \in Past

LEMMA OtherMoves ==
  ASSUME NEW r \in Requests, LInv, Step(r), ~Lookup(r)
  PROVE  before' = before /\ (pc' = pc \/ \E q \in Places : Leads(r, q))
<1>0. \A q : Leads(r, q) => q \in Places
  BY DEF Leads
<1>1. CASE ProviderFails(r)
  <2>1. Leads(r, "unavailable")
    BY <1>1 DEF ProviderFails, Goto, Leads, Places, Ends, Past
  <2> QED
    BY <2>1, <1>0, <1>1 DEF ProviderFails
<1>2. CASE ProviderAnswers(r)
  <2>1. Leads(r, "resolve") \/ Leads(r, "invalid")
    BY <1>2 DEF ProviderAnswers, Goto, Leads, Places, Ends, Past
  <2> QED
    BY <2>1, <1>0, <1>2 DEF ProviderAnswers
<1>3. CASE FindExact(r)
  <2>1. Leads(r, "resolve") \/ Leads(r, "alias")
    BY <1>3 DEF FindExact, Take, Goto, Leads, Places, Ends, Past
  <2> QED
    BY <2>1, <1>0, <1>3 DEF FindExact
<1>4. CASE FindAlias(r)
  <2>1. Leads(r, "resolve") \/ Leads(r, "insert")
    BY <1>4 DEF FindAlias, Take, Goto, Leads, Places, Ends, Past
  <2> QED
    BY <2>1, <1>0, <1>4 DEF FindAlias
<1>5. CASE Insert(r)
  <2>1. Leads(r, "resolve") \/ Leads(r, "error")
    BY <1>5 DEF Insert, Abort, Goto, Leads, Places, Ends, Past
  <2> QED
    BY <2>1, <1>0, <1>5 DEF Insert
<1>6. CASE Flush(r)
  BY <1>6 DEF Flush
<1>7. CASE Commit(r)
  <2>1. Leads(r, "accepted")
    BY <1>7 DEF Commit, Goto, Leads, Places, Ends, Past
  <2> QED
    BY <2>1, <1>0, <1>7 DEF Commit
<1>8. CASE Deadlocked(r)
  <2>1. Leads(r, "error")
    BY <1>8 DEF Deadlocked, Abort, Goto, Leads, Places, Ends, Past
  <2> QED
    BY <2>1, <1>0, <1>8 DEF Deadlocked
<1> QED
  BY <1>1, <1>2, <1>3, <1>4, <1>5, <1>6, <1>7, <1>8 DEF Step

LEMMA OtherKeepsInv ==
  ASSUME LInv, NEW r \in Requests, Step(r), ~Lookup(r)
  PROVE  LInv'
<1>1. CASE pc' = pc
  BY <1>1, OtherMoves
     DEF LInv, LookupType, FoundNothing, AmbiguousFound, FirstLookup
<1>2. CASE pc' # pc
  <2>1. PICK q \in Places \ {"start", "ambiguous"} :
          /\ before' = before
          /\ pc' = [pc EXCEPT ![r] = q]
          /\ q \in Past => pc[r] \in Past
    BY <1>2, OtherMoves DEF Leads
  <2>2. LookupType'
    BY <2>1 DEF LInv, LookupType
  <2>3. FoundNothing'
    BY <2>1 DEF LInv, LookupType, FoundNothing
  <2>4. \A s \in Requests : FirstLookup(s) => FirstLookup(s)'
    BY <2>1 DEF LInv, LookupType, FirstLookup
  <2>5. \A s \in Requests : /\ before'[s] = before[s] /\ before[s] \subseteq Requests
                            /\ pc'[s] = "ambiguous" => pc[s] = "ambiguous"
    BY <2>1 DEF LInv, LookupType
  <2>6. AmbiguousFound'
    BY <2>4, <2>5 DEF LInv, AmbiguousFound
  <2> QED
    BY <2>2, <2>3, <2>6 DEF LInv
<1> QED
  BY <1>1, <1>2

LEMMA LookupInvariant == Spec => []LInv
<1>1. LInv /\ [Next]_vars => LInv'
  <2> SUFFICES ASSUME LInv, [Next]_vars PROVE LInv'
    OBVIOUS
  <2>1. CASE UNCHANGED vars
    BY <2>1 DEF vars, LInv, LookupType, FoundNothing, AmbiguousFound, FirstLookup
  <2>2. CASE Next
    BY <2>2, LookupKeepsInv, OtherKeepsInv DEF Next
  <2> QED
    BY <2>1, <2>2
<1> QED
  BY LookupInit, <1>1, PTL DEF Spec

(* For any number of concurrent requests: a second accepted execution of a  *)
(* key comes only from a request whose lookup preceded the first one's      *)
(* commit, and only such a pair makes later extractions fail.               *)
THEOREM DuplicatesOnlyOverlap == Spec => []DuplicatesOverlap
<1>1. LInv => DuplicatesOverlap
  <2> SUFFICES ASSUME LInv PROVE DuplicatesOverlap
    OBVIOUS
  <2>1. \A s, t \in Requests :
          pc[s] = "accepted" /\ pc[t] = "accepted" /\ KeyOf[s] = KeyOf[t] =>
            s \notin before[t]
    BY DEF LInv, FoundNothing, Past
  <2>2. ASSUME NEW r \in Requests, pc[r] = "ambiguous"
        PROVE  \E s, t \in before[r] :
                 s # t /\ s \notin before[t] /\ t \notin before[s]
    BY <2>2 DEF LInv, AmbiguousFound, FirstLookup
  <2> QED
    BY <2>1, <2>2 DEF DuplicatesOverlap
<1> QED
  BY LookupInvariant, <1>1, PTL

-----------------------------------------------------------------------------
(* Alias lists                                                              *)

LEMMA ElementsFinite ==
  ASSUME NEW T, NEW s \in Seq(T)
  PROVE  ToSet(s) \subseteq T /\ IsFiniteSet(ToSet(s))
<1>1. /\ s \in [1..Len(s) -> T] /\ Len(s) \in Nat /\ DOMAIN s = 1..Len(s)
      /\ ToSet(s) \subseteq T
  BY DEF ToSet
<1>2. s \in Surjection(1..Len(s), ToSet(s))
  BY <1>1 DEF Surjection, ToSet
<1>3. IsFiniteSet(1..Len(s))
  BY <1>1, FS_Interval
<1> QED
  BY <1>1, <1>2, <1>3, FS_Surjection

(* The names up to one tell its place, so each place has one name.          *)
LEMMA SortedNames ==
  ASSUME NEW S \in SUBSET Nat, IsFiniteSet(S)
  PROVE  Sorted(S) \in Seq(S) /\ ToSet(Sorted(S)) = S
<1> DEFINE n == Cardinality(S)
           UpTo(a) == {b \in S : b <= a}
           rank == [a \in S |-> Cardinality(UpTo(a))]
<1>1. n \in Nat
  BY FS_CardinalityType
<1>2. ASSUME NEW a \in S
      PROVE  IsFiniteSet(UpTo(a)) /\ rank[a] \in 1..n
  <2>1. /\ IsFiniteSet(UpTo(a)) /\ Cardinality(UpTo(a)) \in Nat
        /\ Cardinality(UpTo(a)) <= n
    BY FS_Subset, FS_CardinalityType
  <2>2. a \in UpTo(a)
    OBVIOUS
  <2>3. Cardinality(UpTo(a)) # 0
    BY <2>1, <2>2, FS_EmptySet
  <2> QED
    BY <1>1, <2>1, <2>3
<1>3. ASSUME NEW a \in S, NEW b \in S, rank[a] = rank[b]
      PROVE  a = b
  <2> SUFFICES ASSUME NEW x \in S, NEW y \in S, x < y, rank[x] = rank[y]
               PROVE  FALSE
    BY <1>3
  <2>0. /\ x \in Nat /\ y \in Nat /\ ~ y <= x /\ y <= y
        /\ \A c \in S : c \in Nat
    OBVIOUS
  <2>1. UpTo(x) \in SUBSET UpTo(y) /\ y \in UpTo(y) /\ y \notin UpTo(x)
    <3>1. \A c \in S : c <= x => c <= y
      BY <2>0
    <3> QED
      BY <2>0, <3>1
  <2>2. UpTo(x) # UpTo(y)
    BY <2>1
  <2>3. Cardinality(UpTo(x)) # Cardinality(UpTo(y))
    BY <1>2, <2>1, <2>2, FS_Subset
  <2> QED
    BY <2>3
<1>4. rank \in Injection(S, 1..n)
  BY <1>2, <1>3 DEF Injection, IsInjective
<1>5. IsFiniteSet(1..n) /\ Cardinality(1..n) = n
  BY <1>1, FS_Interval
<1>6. \A i \in 1..n : \E a \in S : rank[a] = i
  <2>1. rank \in Surjection(S, 1..n)
    BY <1>4, <1>5, FS_Injection
  <2> QED
    BY <2>1 DEF Surjection
<1>7. ASSUME NEW i \in 1..n
      PROVE  Sorted(S)[i] \in S /\ rank[Sorted(S)[i]] = i
  <2>1. \E a \in S : Cardinality(UpTo(a)) = i
    BY <1>6
  <2>2. Sorted(S)[i] = CHOOSE a \in S : Cardinality(UpTo(a)) = i
    BY DEF Sorted
  <2> QED
    BY <2>1, <2>2
<1>8. Sorted(S) \in [1..n -> S] /\ DOMAIN Sorted(S) = 1..n
  <2>1. Sorted(S) = [i \in 1..n |-> CHOOSE a \in S : Cardinality({b \in S : b <= a}) = i]
    BY DEF Sorted
  <2> QED
    BY <1>7, <2>1
<1>9. ASSUME NEW a \in S
      PROVE  a \in ToSet(Sorted(S))
  <2>1. rank[a] \in 1..n
    BY <1>2
  <2>2. Sorted(S)[rank[a]] = a
    BY <1>3, <1>7, <2>1
  <2> QED
    BY <1>8, <2>1, <2>2 DEF ToSet
<1> HIDE DEF n
<1>10. Sorted(S) \in Seq(S)
  BY <1>1, <1>8
<1> QED
  BY <1>9, <1>10, ElementsFinite

LEMMA MergedAliases ==
  ASSUME NEW s \in AliasLists, NEW t \in AliasLists
  PROVE  /\ Merged(s, t) \in AliasLists /\ Merged(s, t) # Absent
         /\ ToSet(Merged(s, t)) = (ToSet(s) \cup ToSet(t)) \ {Blank}
<1> DEFINE all == (ToSet(s) \cup ToSet(t)) \ {Blank}
<1>1. /\ ToSet(s) \subseteq Names \cup {Blank} /\ IsFiniteSet(ToSet(s))
      /\ ToSet(t) \subseteq Names \cup {Blank} /\ IsFiniteSet(ToSet(t))
  BY ElementsFinite DEF AliasLists
<1>2. all \in SUBSET Names /\ all \in SUBSET Nat
  BY <1>1, NamesAssumption
<1>3. IsFiniteSet(ToSet(s) \cup ToSet(t))
  BY <1>1, FS_Union
<1>4. IsFiniteSet(all)
  BY <1>3, FS_Subset
<1>5. Merged(s, t) = Sorted(all)
  BY DEF Merged
<1> HIDE DEF all
<1>6. Merged(s, t) \in Seq(all) /\ ToSet(Merged(s, t)) = all
  BY <1>2, <1>4, <1>5, SortedNames
<1>7. Merged(s, t) \in AliasLists
  <2>1. Merged(s, t) \in [1..Len(Merged(s, t)) -> all] /\ Len(Merged(s, t)) \in Nat
    BY <1>6
  <2>2. Merged(s, t) \in [1..Len(Merged(s, t)) -> Names \cup {Blank}]
    BY <1>2, <2>1
  <2> QED
    BY <2>1, <2>2 DEF AliasLists
<1> QED
  BY <1>6, <1>7, AbsentAssumption DEF all

-----------------------------------------------------------------------------
(* Sessions and what is stored: the inductive invariant                     *)

Open == {"resolve", "alias", "insert"}
Named(out) == {Identity(c) : c \in ToSet(out.entities)}

(* A row that a session holds or is about to write was either committed     *)
(* when the session loaded it, and then its names are kept, or it is the    *)
(* session's own and no other's.                                            *)
Loaded(r, e) ==
  /\ aliases[e] # Absent /\ tx[r].read[e] # Absent
  /\ ToSet(tx[r].read[e]) \ {Blank} \subseteq ToSet(tx[r].view[e])

Inserted(r, e) ==
  /\ aliases[e] = Absent /\ tx[r].read[e] = Absent
  /\ e \in tx[r].held /\ e \in Named(output[r])

SessionOf(r) ==
  /\ pc[r] \in Open \cup {"accepted"} =>
       output[r] \in Outputs[KeyOf[r]] \ {Malformed} /\ Valid(output[r])
  /\ pc[r] \notin Open => tx[r] = Closed
  /\ pc[r] \in {"alias", "insert"} => HasCandidate(r)
  /\ \A e \in ToSet(tx[r].resolved) \cup tx[r].held \cup tx[r].dirty :
       tx[r].view[e] # Absent
  /\ \A e \in Identities :
       IF tx[r].view[e] = Absent THEN tx[r].read[e] = Absent
       ELSE Loaded(r, e) \/ Inserted(r, e)

Exclusive == \A r, s \in Requests : r # s => tx[r].held \cap tx[s].held = {}

SInv ==
  /\ TypeOK /\ Exclusive /\ \A r \in Requests : SessionOf(r)
  /\ OnlyAcceptedOutputIsVisible

(* The type of a session.                                                   *)
Sessions ==
  [view : [Identities -> AliasLists \cup {Absent}],
   read : [Identities -> AliasLists \cup {Absent}],
   dirty : SUBSET Identities, held : SUBSET Identities, resolved : Seq(Identities)]

(* The candidate that a session has come to.                                *)
LEMMA CandidateType ==
  ASSUME NEW r \in Requests, SessionOf(r), tx[r].resolved \in Seq(Identities),
         pc[r] \in Open, HasCandidate(r)
  PROVE  /\ Identity(Candidate(r)) \in Identities
         /\ Identity(Candidate(r)) \in Named(output[r])
         /\ Candidate(r).aliases \in AliasLists /\ Candidate(r).aliases # Absent
<1> DEFINE out == output[r]
           n == Len(tx[r].resolved) + 1
<1>1. out \in Outputs[KeyOf[r]] \ {Malformed} /\ Valid(out)
  BY DEF SessionOf
<1>2. out.entities \in Seq(ToSet(out.entities))
  BY <1>1, OutputsAssumption
<1>3. DOMAIN out.entities = 1..Len(out.entities) /\ Len(out.entities) \in Nat
  BY <1>2
<1>4. n \in DOMAIN out.entities
  BY <1>3 DEF HasCandidate
<1>5. Candidate(r) = out.entities[n] /\ Candidate(r) \in ToSet(out.entities)
  BY <1>4 DEF Candidate, ToSet
<1>6. Candidate(r).name # Blank
  BY <1>1, <1>4, <1>5 DEF Valid
<1>7. /\ Candidate(r).type \in Kinds /\ Candidate(r).name \in Names
      /\ Candidate(r).aliases \in AliasLists
  BY <1>1, <1>5, <1>6, OutputsAssumption
<1> QED
  BY <1>5, <1>7, AbsentAssumption DEF Identity, Identities, Named

(* What another request's step leaves to a session.                         *)
LEMMA SessionKept ==
  ASSUME NEW r \in Requests, SessionOf(r),
         pc'[r] = pc[r], output'[r] = output[r], tx'[r] = tx[r],
         \A e \in Identities :
           /\ aliases[e] # Absent => aliases'[e] # Absent
           /\ e \in tx[r].held /\ aliases[e] = Absent => aliases'[e] = Absent
  PROVE  SessionOf(r)'
<1>1. ASSUME NEW e \in Identities, tx[r].view[e] # Absent
      PROVE  Loaded(r, e)' \/ Inserted(r, e)'
  BY <1>1 DEF SessionOf, Loaded, Inserted
<1>2. HasCandidate(r)' = HasCandidate(r)
  BY DEF HasCandidate
<1> QED
  BY <1>1, <1>2 DEF SessionOf

(* Nothing that readers see changes before a request is accepted.           *)
LEMMA VisibleKept ==
  ASSUME TypeOK, OnlyAcceptedOutputIsVisible, NEW r \in Requests,
         pc[r] # "accepted", pc'[r] # "accepted",
         \A s \in Requests \ {r} : pc'[s] = pc[s] /\ output'[s] = output[s],
         UNCHANGED <<aliases, claims>>
  PROVE  OnlyAcceptedOutputIsVisible'
<1>1. \A c \in claims : c.execution \in Requests \ {r}
  BY DEF TypeOK, OnlyAcceptedOutputIsVisible
<1>2. \A s \in Requests : pc'[s] = "accepted" =>
        s # r /\ pc[s] = "accepted" /\ output'[s] = output[s]
  OBVIOUS
<1>3. \A s \in Requests : pc[s] = "accepted" =>
        s # r /\ pc'[s] = "accepted" /\ output'[s] = output[s]
  OBVIOUS
<1> QED
  BY <1>1, <1>2, <1>3 DEF OnlyAcceptedOutputIsVisible, Identity

Touches(r) ==
  /\ DOMAIN output' = Requests /\ tx' = [s \in Requests |-> tx'[s]]
  /\ \A s \in Requests \ {r} :
       pc'[s] = pc[s] /\ output'[s] = output[s] /\ tx'[s] = tx[s]

LEMMA StepTouches ==
  ASSUME TypeOK, NEW r \in Requests, Step(r)
  PROVE  Touches(r)
<1>1. /\ DOMAIN pc = Requests /\ DOMAIN output = Requests
      /\ tx = [s \in Requests |-> tx[s]]
  BY DEF TypeOK
<1> USE DEF Goto, Touches
<1>2. CASE Lookup(r)
  BY <1>1, <1>2 DEF Lookup
<1>3. CASE ProviderFails(r)
  BY <1>1, <1>3 DEF ProviderFails
<1>4. CASE ProviderAnswers(r)
  BY <1>1, <1>4 DEF ProviderAnswers
<1>5. CASE FindExact(r)
  BY <1>1, <1>5 DEF FindExact, Take
<1>6. CASE FindAlias(r)
  BY <1>1, <1>6 DEF FindAlias, Take
<1>7. CASE Insert(r)
  BY <1>1, <1>7 DEF Insert, Abort
<1>8. CASE Flush(r)
  BY <1>1, <1>8 DEF Flush
<1>9. CASE Commit(r)
  BY <1>1, <1>9 DEF Commit
<1>10. CASE Deadlocked(r)
  BY <1>1, <1>10 DEF Deadlocked, Abort
<1> QED
  BY <1>2, <1>3, <1>4, <1>5, <1>6, <1>7, <1>8, <1>9, <1>10 DEF Step

(* What is left to show of a step.                                          *)
LEMMA StepPreserves ==
  ASSUME SInv, LookupType', NEW r \in Requests, Touches(r),
         tx'[r] \in Sessions,
         output'[r] \in {Absent} \cup (Outputs[KeyOf[r]] \ {Malformed}),
         aliases' \in [Identities -> AliasLists \cup {Absent}],
         \A c \in claims' :
           c.execution \in Requests /\ c.subject \in Identities \cup {Absent},
         SessionOf(r)',
         \A s \in Requests \ {r} : tx'[r].held \cap tx[s].held = {},
         \A e \in Identities : aliases[e] # Absent => aliases'[e] # Absent,
         \A s \in Requests \ {r} : \A e \in tx[s].held :
           aliases[e] = Absent => aliases'[e] = Absent,
         OnlyAcceptedOutputIsVisible'
  PROVE  SInv'
<1> USE DEF SInv
<1>1. tx \in [Requests -> Sessions]
  BY DEF TypeOK, Sessions
<1>2. \A s \in Requests : tx'[s] \in Sessions
  BY <1>1 DEF Touches
<1>3. tx' \in [Requests -> Sessions]
  BY <1>2 DEF Touches
<1>4. TypeOK'
  BY <1>3 DEF TypeOK, LookupType, Sessions, Touches
<1>5. Exclusive'
  <2>1. \A s \in Requests \ {r} : tx'[r].held \cap tx'[s].held = {}
    BY DEF Touches
  <2>2. \A s, t \in Requests \ {r} : s # t => tx'[s].held \cap tx'[t].held = {}
    BY DEF Touches, Exclusive
  <2> QED
    BY <2>1, <2>2 DEF Exclusive
<1>6. ASSUME NEW s \in Requests \ {r}
      PROVE  SessionOf(s)'
  BY SessionKept DEF Touches
<1> QED
  BY <1>4, <1>5, <1>6

(* Up to the provider's answer there is no session.                         *)
LEMMA EarlyStep ==
  ASSUME SInv, LookupType', NEW r \in Requests,
         Lookup(r) \/ ProviderFails(r) \/ ProviderAnswers(r)
  PROVE  SInv'
<1> USE DEF SInv
<1>1. Touches(r) /\ tx \in [Requests -> Sessions] /\ pc \in [Requests -> Places]
  BY StepTouches DEF Step, TypeOK, Sessions
<1>2. /\ pc[r] \in {"start", "provider"} /\ UNCHANGED <<aliases, claims, tx>>
      /\ \/ /\ pc'[r] \in Places \ (Open \cup {"accepted"})
            /\ output' = output
         \/ /\ pc'[r] = "resolve"
            /\ output'[r] \in Outputs[KeyOf[r]] \ {Malformed} /\ Valid(output'[r])
  <2>1. CASE Lookup(r)
    <3>1. /\ UNCHANGED <<output, aliases, claims, tx>> /\ pc[r] = "start"
          /\ pc' = [pc EXCEPT ![r] =
               CASE Cardinality(Accepted(KeyOf[r])) = 0 -> "provider"
                 [] Cardinality(Accepted(KeyOf[r])) = 1 -> "repeat"
                 [] OTHER -> "ambiguous"]
      BY <2>1 DEF Lookup, Goto
    <3>2. pc'[r] = CASE Cardinality(Accepted(KeyOf[r])) = 0 -> "provider"
                     [] Cardinality(Accepted(KeyOf[r])) = 1 -> "repeat"
                     [] OTHER -> "ambiguous"
      BY <1>1, <3>1
    <3>3. pc'[r] \in {"provider", "repeat", "ambiguous"}
      <4> HIDE DEF Accepted
      <4>1. CASE Cardinality(Accepted(KeyOf[r])) = 0
        BY <3>2, <4>1
      <4>2. CASE Cardinality(Accepted(KeyOf[r])) = 1
        BY <3>2, <4>2
      <4>3. CASE /\ Cardinality(Accepted(KeyOf[r])) # 0
                 /\ Cardinality(Accepted(KeyOf[r])) # 1
        BY <3>2, <4>3
      <4> QED
        BY <4>1, <4>2, <4>3
    <3> QED
      BY <3>1, <3>3 DEF Places, Ends, Open
  <2>2. CASE ProviderFails(r)
    BY <1>1, <2>2 DEF ProviderFails, Goto, Places, Ends, Open
  <2>3. CASE ProviderAnswers(r)
    <3>1. PICK out \in Outputs[KeyOf[r]] :
            IF Valid(out)
            THEN Goto(r, "resolve") /\ output' = [output EXCEPT ![r] = out]
            ELSE Goto(r, "invalid") /\ UNCHANGED output
      BY <2>3 DEF ProviderAnswers
    <3>2. CASE Valid(out)
      <4>1. out # Malformed
        BY <3>2 DEF Valid
      <4>2. output'[r] = out /\ pc'[r] = "resolve"
        BY <1>1, <3>1, <3>2 DEF Goto, TypeOK
      <4> QED
        BY <2>3, <3>2, <4>1, <4>2 DEF ProviderAnswers
    <3>3. CASE ~Valid(out)
      BY <1>1, <2>3, <3>1, <3>3 DEF ProviderAnswers, Goto, Places, Ends, Open
    <3> QED
      BY <3>2, <3>3
  <2> QED
    BY <2>1, <2>2, <2>3
<1>3. tx[r] = Closed
  BY <1>2 DEF SessionOf, Open
<1>4. SessionOf(r)'
  <2>1. tx'[r] = Closed
    BY <1>2, <1>3
  <2> QED
    BY <1>2, <2>1 DEF SessionOf, Closed, NoRow, Open, ToSet
<1>5. OnlyAcceptedOutputIsVisible'
  <2>1. /\ pc[r] # "accepted" /\ pc'[r] # "accepted"
        /\ \A s \in Requests \ {r} : pc'[s] = pc[s] /\ output'[s] = output[s]
    BY <1>1, <1>2 DEF Touches, Open
  <2> QED
    BY <1>2, <2>1, VisibleKept
<1>6. /\ tx'[r] \in Sessions
      /\ output'[r] \in {Absent} \cup (Outputs[KeyOf[r]] \ {Malformed})
      /\ aliases' \in [Identities -> AliasLists \cup {Absent}]
      /\ \A c \in claims' :
           c.execution \in Requests /\ c.subject \in Identities \cup {Absent}
      /\ \A s \in Requests \ {r} : tx'[r].held \cap tx[s].held = {}
  BY <1>1, <1>2 DEF TypeOK, Exclusive
<1> QED
  BY <1>1, <1>2, <1>4, <1>5, <1>6, StepPreserves

LEMMA AbortStep ==
  ASSUME SInv, LookupType', NEW r \in Requests, Abort(r), UNCHANGED claims,
         Touches(r), pc[r] \in Open
  PROVE  SInv'
<1> USE DEF SInv
<1>1. /\ tx'[r] = Closed /\ output'[r] = Absent /\ pc'[r] = "error"
      /\ UNCHANGED <<aliases, claims>>
  BY DEF Abort, Goto, TypeOK
<1>2. SessionOf(r)'
  BY <1>1 DEF SessionOf, Closed, NoRow, Open, ToSet
<1>3. OnlyAcceptedOutputIsVisible'
  <2>1. /\ pc[r] # "accepted" /\ pc'[r] # "accepted"
        /\ \A s \in Requests \ {r} : pc'[s] = pc[s] /\ output'[s] = output[s]
    BY <1>1 DEF Touches, Open
  <2> QED
    BY <1>1, <2>1, VisibleKept
<1>4. Closed \in Sessions
  <2>1. <<>> \in Seq(Identities)
    OBVIOUS
  <2> QED
    BY <2>1 DEF Closed, NoRow, Sessions
<1>5. /\ tx'[r] \in Sessions
      /\ output'[r] \in {Absent} \cup (Outputs[KeyOf[r]] \ {Malformed})
      /\ aliases' \in [Identities -> AliasLists \cup {Absent}]
      /\ \A c \in claims' :
           c.execution \in Requests /\ c.subject \in Identities \cup {Absent}
      /\ \A s \in Requests \ {r} : tx'[r].held \cap tx[s].held = {}
  BY <1>1, <1>4 DEF TypeOK, Closed
<1> QED
  BY <1>1, <1>2, <1>3, <1>5, StepPreserves

(* Only a session that holds rows can be waited for.                        *)
LEMMA DeadlockedStep ==
  ASSUME SInv, LookupType', NEW r \in Requests, Deadlocked(r)
  PROVE  SInv'
<1> USE DEF SInv
<1>1. Touches(r)
  BY StepTouches DEF Step
<1>2. PICK s \in Requests : r \in WaitsOn(s)
  BY DEF Deadlocked, InCycle
<1>3. tx[r].held # {}
  BY <1>2 DEF WaitsOn, Holders
<1>4. pc[r] \in Open
  BY <1>3 DEF SessionOf, Closed
<1> QED
  BY <1>1, <1>4, AbortStep DEF Deadlocked

-----------------------------------------------------------------------------
(* Resolving                                                                *)

LEMMA CurrentType ==
  ASSUME SInv, NEW r \in Requests, NEW e \in Visible(r)
  PROVE  /\ Current(r, e) \in AliasLists /\ Current(r, e) # Absent
         /\ e \in Identities
         /\ tx[r].view[e] = Absent => aliases[e] # Absent
<1>1. /\ tx[r].view \in [Identities -> AliasLists \cup {Absent}]
      /\ aliases \in [Identities -> AliasLists \cup {Absent}]
      /\ SessionOf(r) /\ e \in Identities
  BY DEF SInv, TypeOK, Visible
<1>2. tx[r].view[e] = Absent => aliases[e] # Absent
  BY <1>1 DEF Visible, SessionOf
<1> QED
  BY <1>1, <1>2, AbsentAssumption DEF Current

LEMMA TakeEffect ==
  ASSUME SInv, NEW r \in Requests, NEW e \in Visible(r), Take(r, e)
  PROVE  LET merged == Merged(Current(r, e), Candidate(r).aliases)
         IN /\ tx'[r] =
                 [view |-> [tx[r].view EXCEPT ![e] = merged],
                  read |-> [tx[r].read EXCEPT ![e] =
                              IF tx[r].view[e] = Absent THEN aliases[e] ELSE @],
                  dirty |-> IF merged # Current(r, e) THEN {e} ELSE {},
                  held |-> tx[r].held, resolved |-> Append(tx[r].resolved, e)]
            /\ pc'[r] = "resolve"
<1> DEFINE merged == Merged(Current(r, e), Candidate(r).aliases)
           unsaved == IF merged # Current(r, e) THEN {e} ELSE {}
<1>1. /\ tx \in [Requests -> Sessions] /\ pc \in [Requests -> Places]
      /\ e \in Identities
  BY DEF SInv, TypeOK, Sessions, Visible
<1>2. tx' = [tx EXCEPT
         ![r].view[e] = merged,
         ![r].read[e] = IF tx[r].view[e] = Absent THEN aliases[e] ELSE @,
         ![r].dirty = unsaved,
         ![r].resolved = Append(@, e)]
  BY DEF Take
<1>3. pc'[r] = "resolve"
  BY <1>1 DEF Take, Goto
<1> HIDE DEF merged, unsaved
<1>4. tx[r] \in Sessions
  BY <1>1
<1>5. tx'[r] =
        [[tx[r] EXCEPT !.view = [tx[r].view EXCEPT ![e] = merged],
                       !.read = [tx[r].read EXCEPT ![e] =
                           IF tx[r].view[e] = Absent THEN aliases[e] ELSE @]]
         EXCEPT !.dirty = unsaved, !.resolved = Append(tx[r].resolved, e)]
  BY <1>1, <1>2, <1>4 DEF Sessions
<1>6. tx'[r] =
        [view |-> [tx[r].view EXCEPT ![e] = merged],
         read |-> [tx[r].read EXCEPT ![e] =
                     IF tx[r].view[e] = Absent THEN aliases[e] ELSE @],
         dirty |-> unsaved, held |-> tx[r].held,
         resolved |-> Append(tx[r].resolved, e)]
  BY <1>4, <1>5 DEF Sessions
<1> QED
  BY <1>3, <1>6 DEF merged, unsaved

LEMMA ToSetAppend ==
  ASSUME NEW T, NEW s \in Seq(T), NEW x \in T
  PROVE  ToSet(Append(s, x)) = ToSet(s) \cup {x} /\ Append(s, x) \in Seq(T)
<1>1. /\ Len(s) \in Nat /\ DOMAIN s = 1..Len(s) /\ s \in [1..Len(s) -> T]
      /\ Append(s, x) \in Seq(T) /\ Len(Append(s, x)) = Len(s) + 1
  OBVIOUS
<1>2. /\ DOMAIN Append(s, x) = 1..(Len(s) + 1)
      /\ \A i \in 1..Len(s) : Append(s, x)[i] = s[i]
      /\ Append(s, x)[Len(s) + 1] = x
  OBVIOUS
<1>3. 1..(Len(s) + 1) = (1..Len(s)) \cup {Len(s) + 1}
  BY <1>1
<1>4. ToSet(Append(s, x)) = {Append(s, x)[i] : i \in (1..Len(s)) \cup {Len(s) + 1}}
  BY <1>2, <1>3 DEF ToSet
<1>5. ToSet(s) = {s[i] : i \in 1..Len(s)}
  BY <1>1 DEF ToSet
<1>6. ToSet(Append(s, x)) = ToSet(s) \cup {x}
  BY <1>2, <1>4, <1>5
<1> QED
  BY <1>1, <1>6

LEMMA TakeStep ==
  ASSUME SInv, LookupType', NEW r \in Requests, Touches(r),
         pc[r] \in {"resolve", "alias"}, HasCandidate(r), NEW e \in Visible(r),
         Take(r, e), UNCHANGED <<output, aliases, claims>>
  PROVE  SInv'
<1> DEFINE merged == Merged(Current(r, e), Candidate(r).aliases)
           unsaved == IF merged # Current(r, e) THEN {e} ELSE {}
<1> USE DEF SInv
<1>1. /\ tx[r] \in Sessions /\ SessionOf(r) /\ e \in Identities
      /\ tx[r].resolved \in Seq(Identities)
      /\ aliases \in [Identities -> AliasLists \cup {Absent}]
  BY DEF TypeOK, Sessions, Visible
<1>2. /\ merged \in AliasLists /\ merged # Absent
      /\ ToSet(merged) =
           (ToSet(Current(r, e)) \cup ToSet(Candidate(r).aliases)) \ {Blank}
  <2>1. Current(r, e) \in AliasLists /\ Candidate(r).aliases \in AliasLists
    BY <1>1, CurrentType, CandidateType DEF Open
  <2> QED
    BY <2>1, MergedAliases
<1>3. /\ tx'[r].view = [tx[r].view EXCEPT ![e] = merged]
      /\ tx'[r].read = [tx[r].read EXCEPT ![e] =
                          IF tx[r].view[e] = Absent THEN aliases[e] ELSE @]
      /\ tx'[r].dirty = unsaved /\ tx'[r].held = tx[r].held
      /\ tx'[r].resolved = Append(tx[r].resolved, e)
      /\ tx'[r] = [view |-> tx'[r].view, read |-> tx'[r].read, dirty |-> tx'[r].dirty,
                   held |-> tx'[r].held, resolved |-> tx'[r].resolved]
      /\ pc'[r] = "resolve"
  <2>1. /\ tx'[r] =
             [view |-> [tx[r].view EXCEPT ![e] = merged],
              read |-> [tx[r].read EXCEPT ![e] =
                          IF tx[r].view[e] = Absent THEN aliases[e] ELSE @],
              dirty |-> unsaved,
              held |-> tx[r].held, resolved |-> Append(tx[r].resolved, e)]
        /\ pc'[r] = "resolve"
    BY TakeEffect
  <2> HIDE DEF merged, unsaved
  <2> QED
    BY <2>1
<1>4. unsaved \subseteq {e}
  OBVIOUS
<1>5. ToSet(merged) \subseteq Names \cup {Blank} /\ Blank \notin ToSet(merged)
      /\ ToSet(Current(r, e)) \ {Blank} \subseteq ToSet(merged)
  BY <1>2, ElementsFinite DEF AliasLists
<1> HIDE DEF merged, unsaved
<1>6. /\ ToSet(tx'[r].resolved) = ToSet(tx[r].resolved) \cup {e}
      /\ tx'[r].resolved \in Seq(Identities)
  BY <1>1, <1>3, ToSetAppend
<1>7. /\ tx[r].view \in [Identities -> AliasLists \cup {Absent}]
      /\ tx[r].read \in [Identities -> AliasLists \cup {Absent}]
      /\ tx[r].held \in SUBSET Identities
  BY <1>1 DEF Sessions
<1>8. /\ tx'[r].view \in [Identities -> AliasLists \cup {Absent}]
      /\ tx'[r].read \in [Identities -> AliasLists \cup {Absent}]
  BY <1>1, <1>2, <1>3, <1>7
<1>9. tx'[r] \in Sessions
  BY <1>1, <1>3, <1>4, <1>6, <1>7, <1>8 DEF Sessions
<1>10. /\ tx'[r].view[e] = merged
       /\ \A x \in Identities \ {e} :
            tx'[r].view[x] = tx[r].view[x] /\ tx'[r].read[x] = tx[r].read[x]
       /\ tx'[r].read[e] = IF tx[r].view[e] = Absent THEN aliases[e] ELSE tx[r].read[e]
  BY <1>1, <1>3, <1>7
<1>11. ASSUME NEW x \in ToSet(tx'[r].resolved) \cup tx'[r].held \cup tx'[r].dirty
       PROVE  tx'[r].view[x] # Absent
  <2>1. CASE x = e
    BY <1>2, <1>10, <2>1
  <2>2. CASE x # e
    <3>1. x \in ToSet(tx[r].resolved) \cup tx[r].held
      BY <1>3, <1>4, <1>6, <2>2
    <3>2. x \in Identities
      BY <1>1, <1>7, <3>1, ElementsFinite
    <3> QED
      BY <1>1, <1>10, <2>2, <3>1, <3>2 DEF SessionOf
  <2> QED
    BY <2>1, <2>2
<1>12. ASSUME NEW x \in Identities, tx'[r].view[x] # Absent
       PROVE  Loaded(r, x)' \/ Inserted(r, x)'
  <2>1. CASE x # e
    BY <1>1, <1>3, <1>10, <1>12, <2>1 DEF SessionOf, Loaded, Inserted
  <2>2. CASE x = e /\ tx[r].view[e] = Absent
    <3>1. Current(r, e) = aliases[e] /\ aliases[e] # Absent
      BY <2>2, CurrentType DEF Current
    <3> QED
      BY <1>5, <1>10, <2>2, <3>1 DEF Loaded
  <2>3. CASE x = e /\ tx[r].view[e] # Absent
    <3>1. Current(r, e) = tx[r].view[e] /\ tx'[r].read[e] = tx[r].read[e]
      BY <1>10, <2>3 DEF Current
    <3>2. CASE Loaded(r, e)
      <4>1. ToSet(tx[r].read[e]) \ {Blank} \subseteq ToSet(tx[r].view[e])
        BY <3>2 DEF Loaded
      <4>2. ToSet(tx'[r].read[e]) \ {Blank} \subseteq ToSet(tx'[r].view[e])
        BY <1>5, <1>10, <3>1, <4>1
      <4> QED
        BY <2>3, <3>1, <3>2, <4>2 DEF Loaded
    <3>3. CASE Inserted(r, e)
      BY <1>3, <2>3, <3>1, <3>3 DEF Inserted
    <3> QED
      BY <1>1, <2>3, <3>2, <3>3 DEF SessionOf
  <2> QED
    BY <2>1, <2>2, <2>3
<1>13. SessionOf(r)'
  <2>1. ASSUME NEW x \in Identities, tx'[r].view[x] = Absent
        PROVE  tx'[r].read[x] = Absent
    BY <1>1, <1>2, <1>10, <2>1 DEF SessionOf
  <2> QED
    BY <1>1, <1>3, <1>11, <1>12, <2>1 DEF SessionOf, Open
<1>14. OnlyAcceptedOutputIsVisible'
  BY <1>3, VisibleKept DEF Touches
<1>15. /\ output'[r] \in {Absent} \cup (Outputs[KeyOf[r]] \ {Malformed})
       /\ aliases' \in [Identities -> AliasLists \cup {Absent}]
       /\ \A c \in claims' :
            c.execution \in Requests /\ c.subject \in Identities \cup {Absent}
       /\ \A s \in Requests \ {r} : tx'[r].held \cap tx[s].held = {}
  BY <1>3 DEF TypeOK, Exclusive
<1> QED
  BY <1>9, <1>13, <1>14, <1>15, StepPreserves

LEMMA NothingFoundStep ==
  ASSUME SInv, LookupType', NEW r \in Requests, Touches(r),
         pc[r] \in Open, pc'[r] \in Open, HasCandidate(r),
         UNCHANGED <<output, aliases, claims, tx>>
  PROVE  SInv'
<1> USE DEF SInv
<1>1. SessionOf(r)'
  <2>1. HasCandidate(r)'
    BY DEF HasCandidate
  <2>2. \A e \in Identities :
          Loaded(r, e)' = Loaded(r, e) /\ Inserted(r, e)' = Inserted(r, e)
    BY DEF Loaded, Inserted
  <2> QED
    BY <2>1, <2>2 DEF SessionOf, Open
<1>2. OnlyAcceptedOutputIsVisible'
  <2>1. pc[r] # "accepted" /\ pc'[r] # "accepted"
    BY DEF Open
  <2> QED
    BY <2>1, VisibleKept DEF Touches
<1>3. /\ tx'[r] \in Sessions
      /\ output'[r] \in {Absent} \cup (Outputs[KeyOf[r]] \ {Malformed})
      /\ aliases' \in [Identities -> AliasLists \cup {Absent}]
      /\ \A c \in claims' :
           c.execution \in Requests /\ c.subject \in Identities \cup {Absent}
      /\ \A s \in Requests \ {r} : tx'[r].held \cap tx[s].held = {}
  BY DEF TypeOK, Exclusive, Sessions
<1> QED
  BY <1>1, <1>2, <1>3, StepPreserves

LEMMA FindStep ==
  ASSUME SInv, LookupType', NEW r \in Requests, FindExact(r) \/ FindAlias(r)
  PROVE  SInv'
<1>1. Touches(r) /\ pc \in [Requests -> Places] /\ SessionOf(r)
  BY StepTouches DEF SInv, TypeOK, Step
<1>2. CASE FindExact(r)
  <2>1. /\ pc[r] = "resolve" /\ HasCandidate(r) /\ UNCHANGED <<output, aliases, claims>>
        /\ \/ \E e \in Visible(r) : Take(r, e)
           \/ Goto(r, "alias") /\ UNCHANGED tx
    BY <1>2 DEF FindExact
  <2>2. Goto(r, "alias") => pc'[r] = "alias"
    BY <1>1 DEF Goto
  <2> QED
    BY <1>1, <2>1, <2>2, TakeStep, NothingFoundStep DEF Open
<1>3. CASE FindAlias(r)
  <2>1. /\ pc[r] = "alias" /\ UNCHANGED <<output, aliases, claims>>
        /\ \/ \E e \in Visible(r) : Take(r, e)
           \/ Goto(r, "insert") /\ UNCHANGED tx
    BY <1>3 DEF FindAlias
  <2>2. HasCandidate(r)
    BY <1>1, <2>1 DEF SessionOf
  <2>3. Goto(r, "insert") => pc'[r] = "insert"
    BY <1>1 DEF Goto
  <2> QED
    BY <1>1, <2>1, <2>2, <2>3, TakeStep, NothingFoundStep DEF Open
<1> QED
  BY <1>2, <1>3

LEMMA FlushStep ==
  ASSUME SInv, LookupType', NEW r \in Requests, Flush(r)
  PROVE  SInv'
<1> USE DEF SInv
<1>1. Touches(r) /\ SessionOf(r) /\ tx \in [Requests -> Sessions]
  BY StepTouches DEF TypeOK, Step, Sessions
<1>2. PICK e \in tx[r].dirty :
        /\ Holders(r, e) = {}
        /\ tx' = [tx EXCEPT ![r].dirty = {}, ![r].held = @ \cup {e}]
  BY DEF Flush
<1>3. /\ tx[r] \in Sessions /\ pc[r] = "resolve"
      /\ UNCHANGED <<pc, output, aliases, claims>>
  BY <1>1 DEF Flush
<1>4. tx'[r] = [tx[r] EXCEPT !.dirty = {}, !.held = tx[r].held \cup {e}]
  BY <1>1, <1>2, <1>3 DEF Sessions
<1>5. /\ tx'[r].view = tx[r].view /\ tx'[r].read = tx[r].read
      /\ tx'[r].dirty = {} /\ tx'[r].held = tx[r].held \cup {e}
      /\ tx'[r].resolved = tx[r].resolved /\ tx'[r] \in Sessions
  <2>1. tx[r].held \cup {e} \in SUBSET Identities
    BY <1>2, <1>3 DEF Sessions
  <2>2. tx'[r] = [view |-> tx[r].view, read |-> tx[r].read, dirty |-> {},
                  held |-> tx[r].held \cup {e}, resolved |-> tx[r].resolved]
    BY <1>3, <1>4 DEF Sessions
  <2> QED
    BY <1>3, <2>1, <2>2 DEF Sessions
<1>6. SessionOf(r)'
  <2>1. \A x \in Identities : /\ Loaded(r, x) => Loaded(r, x)'
                              /\ Inserted(r, x) => Inserted(r, x)'
    BY <1>3, <1>5 DEF Loaded, Inserted
  <2> QED
    BY <1>1, <1>2, <1>3, <1>5, <2>1 DEF SessionOf, Open
<1>7. OnlyAcceptedOutputIsVisible'
  BY <1>1, <1>3, VisibleKept DEF Touches
<1>8. /\ output'[r] \in {Absent} \cup (Outputs[KeyOf[r]] \ {Malformed})
      /\ aliases' \in [Identities -> AliasLists \cup {Absent}]
      /\ \A c \in claims' :
           c.execution \in Requests /\ c.subject \in Identities \cup {Absent}
      /\ \A s \in Requests \ {r} : tx'[r].held \cap tx[s].held = {}
  BY <1>2, <1>3, <1>5 DEF TypeOK, Exclusive, Holders
<1> QED
  BY <1>1, <1>3, <1>5, <1>6, <1>7, <1>8, StepPreserves

(* A new row, which its session alone can see.                              *)
LEMMA NewRowStep ==
  ASSUME SInv, LookupType', NEW r \in Requests, Touches(r),
         pc[r] = "insert", NEW e \in Identities, NEW list \in AliasLists,
         list # Absent, e \in Named(output[r]), aliases[e] = Absent,
         Holders(r, e) = {},
         tx'[r] = [view |-> [tx[r].view EXCEPT ![e] = list], read |-> tx[r].read,
                   dirty |-> tx[r].dirty, held |-> tx[r].held \cup {e},
                   resolved |-> Append(tx[r].resolved, e)],
         pc'[r] = "resolve", UNCHANGED <<output, aliases, claims>>
  PROVE  SInv'
<1> USE DEF SInv
<1>1. /\ SessionOf(r) /\ tx \in [Requests -> Sessions]
      /\ pc \in [Requests -> Places]
  BY DEF TypeOK, Sessions
<1>2. tx[r] \in Sessions
  BY <1>1
<1>3. /\ tx'[r].view = [tx[r].view EXCEPT ![e] = list] /\ tx'[r].read = tx[r].read
      /\ tx'[r].dirty = tx[r].dirty /\ tx'[r].held = tx[r].held \cup {e}
      /\ tx'[r].resolved = Append(tx[r].resolved, e)
      /\ tx'[r] = [view |-> tx'[r].view, read |-> tx'[r].read,
                   dirty |-> tx'[r].dirty, held |-> tx'[r].held,
                   resolved |-> tx'[r].resolved]
  OBVIOUS
<1>4. /\ tx[r].view \in [Identities -> AliasLists \cup {Absent}]
      /\ tx[r].read \in [Identities -> AliasLists \cup {Absent}]
      /\ tx[r].held \in SUBSET Identities /\ tx[r].dirty \in SUBSET Identities
      /\ tx[r].resolved \in Seq(Identities)
  BY <1>2 DEF Sessions
<1>5. /\ ToSet(tx'[r].resolved) = ToSet(tx[r].resolved) \cup {e}
      /\ tx'[r].resolved \in Seq(Identities)
      /\ ToSet(tx[r].resolved) \subseteq Identities
  BY <1>3, <1>4, ToSetAppend, ElementsFinite
<1>6. /\ tx'[r].view[e] = list
      /\ \A x \in Identities \ {e} : tx'[r].view[x] = tx[r].view[x]
      /\ tx'[r].view \in [Identities -> AliasLists \cup {Absent}]
  BY <1>3, <1>4
<1>7. tx'[r] \in Sessions
  BY <1>3, <1>4, <1>5, <1>6 DEF Sessions
<1>8. tx[r].read[e] = Absent
  BY <1>1 DEF SessionOf, Loaded, Inserted
<1>9. Inserted(r, e)'
  BY <1>1, <1>3, <1>8 DEF Inserted
<1>10. \A x \in Identities \ {e} : /\ Loaded(r, x) => Loaded(r, x)'
                                   /\ Inserted(r, x) => Inserted(r, x)'
  BY <1>1, <1>3, <1>6 DEF Loaded, Inserted
<1>11. ASSUME NEW x \in ToSet(tx'[r].resolved) \cup tx'[r].held \cup tx'[r].dirty
       PROVE  tx'[r].view[x] # Absent
  <2>1. CASE x = e
    BY <1>6, <2>1
  <2>2. CASE x # e
    <3>1. /\ x \in ToSet(tx[r].resolved) \cup tx[r].held \cup tx[r].dirty
          /\ x \in Identities
      BY <1>3, <1>4, <1>5, <2>2
    <3> QED
      BY <1>1, <1>6, <2>2, <3>1 DEF SessionOf
  <2> QED
    BY <2>1, <2>2
<1>12. SessionOf(r)'
  <2>1. ASSUME NEW x \in Identities
        PROVE  IF tx'[r].view[x] = Absent THEN tx'[r].read[x] = Absent
               ELSE Loaded(r, x)' \/ Inserted(r, x)'
    <3>1. CASE x = e
      BY <1>6, <1>9, <3>1
    <3>2. CASE x # e
      BY <1>1, <1>3, <1>6, <1>10, <3>2 DEF SessionOf
    <3> QED
      BY <3>1, <3>2
  <2> QED
    BY <1>1, <1>2, <1>11, <2>1 DEF SessionOf, Open
<1>13. OnlyAcceptedOutputIsVisible'
  BY <1>1, <1>2, VisibleKept DEF Touches
<1>14. /\ output'[r] \in {Absent} \cup (Outputs[KeyOf[r]] \ {Malformed})
       /\ aliases' \in [Identities -> AliasLists \cup {Absent}]
       /\ \A c \in claims' :
            c.execution \in Requests /\ c.subject \in Identities \cup {Absent}
       /\ \A s \in Requests \ {r} : tx'[r].held \cap tx[s].held = {}
  BY <1>1, <1>3 DEF TypeOK, Exclusive, Holders
<1> QED
  BY <1>1, <1>7, <1>12, <1>13, <1>14, StepPreserves

LEMMA InsertStep ==
  ASSUME SInv, LookupType', NEW r \in Requests, Insert(r)
  PROVE  SInv'
<1> DEFINE e == Identity(Candidate(r))
           list == Candidate(r).aliases
<1> USE DEF SInv
<1>1. /\ Touches(r) /\ SessionOf(r) /\ tx \in [Requests -> Sessions]
      /\ pc \in [Requests -> Places] /\ pc[r] = "insert" /\ HasCandidate(r)
  BY StepTouches DEF TypeOK, Step, Sessions, Insert, SessionOf
<1>2. e \in Identities /\ e \in Named(output[r]) /\ list \in AliasLists /\ list # Absent
  BY <1>1, CandidateType DEF Open, Sessions
<1>3. Holders(r, e) = {} /\ UNCHANGED <<claims, before>>
  BY DEF Insert
<1>4. CASE aliases[e] # Absent
  BY <1>1, <1>4, AbortStep DEF Insert, Open
<1>5. CASE aliases[e] = Absent
  <2>1. /\ tx' = [tx EXCEPT ![r].view[e] = list, ![r].held = @ \cup {e},
                            ![r].resolved = Append(@, e)]
        /\ Goto(r, "resolve") /\ UNCHANGED <<output, aliases>>
    BY <1>5 DEF Insert
  <2> HIDE DEF e, list
  <2>2. pc'[r] = "resolve" /\ tx[r] \in Sessions
    BY <1>1, <2>1 DEF Goto
  <2>3. tx'[r] = [tx[r] EXCEPT !.view = [tx[r].view EXCEPT ![e] = list],
                               !.held = tx[r].held \cup {e},
                               !.resolved = Append(tx[r].resolved, e)]
    BY <1>1, <2>1, <2>2 DEF Sessions
  <2>4. tx'[r] = [view |-> [tx[r].view EXCEPT ![e] = list], read |-> tx[r].read,
                  dirty |-> tx[r].dirty, held |-> tx[r].held \cup {e},
                  resolved |-> Append(tx[r].resolved, e)]
    BY <2>2, <2>3 DEF Sessions
  <2> QED
    BY <1>1, <1>2, <1>3, <1>5, <2>1, <2>2, <2>4, NewRowStep
<1> QED
  BY <1>4, <1>5

-----------------------------------------------------------------------------
(* The commit                                                               *)

LEMMA NewClaimsCounted ==
  ASSUME NEW r \in Requests, output[r] \in Outputs[KeyOf[r]] \ {Malformed}
  PROVE  Cardinality(NewClaims(r)) = Len(output[r].claims)
<1> DEFINE n == Len(output[r].claims)
           claim(i) == [execution |-> r, index |-> i,
                        subject |-> Subject(r, output[r].claims[i].subject),
                        evidence |-> output[r].claims[i].evidence]
           f == [i \in 1..n |-> claim(i)]
<1>1. output[r].claims \in Seq(ToSet(output[r].claims))
  BY OutputsAssumption
<1>2. n \in Nat /\ DOMAIN output[r].claims = 1..n
  BY <1>1
<1>3. NewClaims(r) = {claim(i) : i \in 1..n}
  BY <1>2 DEF NewClaims
<1>4. \A i \in 1..n : claim(i).index = i
  OBVIOUS
<1> HIDE DEF claim
<1>5. f \in Bijection(1..n, NewClaims(r))
  <2>1. f \in [1..n -> NewClaims(r)]
    BY <1>3
  <2>2. \A i, j \in 1..n : f[i] = f[j] => i = j
    BY <1>4
  <2>3. \A c \in NewClaims(r) : \E i \in 1..n : f[i] = c
    BY <1>3
  <2> QED
    BY <2>1, <2>2, <2>3 DEF Bijection, Injection, Surjection, IsInjective
<1> QED
  BY <1>2, <1>5, FS_CountingElements DEF ExistsBijection

(* The subject of a claim is an entity that the session resolved.           *)
LEMMA SubjectResolved ==
  ASSUME NEW r \in Requests, SessionOf(r), pc[r] = "resolve", ~HasCandidate(r),
         tx[r].resolved \in Seq(Identities),
         NEW i \in DOMAIN output[r].claims
  PROVE  Subject(r, output[r].claims[i].subject) \in {Absent} \cup ToSet(tx[r].resolved)
<1> DEFINE out == output[r]
           id == out.claims[i].subject
<1>1. out \in Outputs[KeyOf[r]] \ {Malformed} /\ Valid(out)
  BY DEF SessionOf, Open
<1>2. id \in Ids(out) \cup {Absent}
  BY <1>1 DEF Valid
<1>3. CASE id = Absent
  BY <1>3 DEF Subject
<1>4. CASE id # Absent
  <2> DEFINE at == CHOOSE j \in DOMAIN out.entities : out.entities[j].id = id
  <2>1. \E j \in DOMAIN out.entities : out.entities[j].id = id
    BY <1>2, <1>4 DEF Ids
  <2>2. at \in DOMAIN out.entities
    BY <2>1
  <2>3. Subject(r, id) = tx[r].resolved[at]
    BY <1>4 DEF Subject
  <2> HIDE DEF at
  <2>4. DOMAIN out.entities = 1..Len(out.entities) /\ Len(out.entities) \in Nat
    BY <1>1, OutputsAssumption
  <2>5. /\ Len(tx[r].resolved) \in Nat
        /\ DOMAIN tx[r].resolved = 1..Len(tx[r].resolved)
    OBVIOUS
  <2>6. Len(out.entities) <= Len(tx[r].resolved)
    BY <2>4, <2>5 DEF HasCandidate
  <2>7. at \in DOMAIN tx[r].resolved
    BY <2>2, <2>4, <2>5, <2>6
  <2> QED
    BY <2>3, <2>7 DEF ToSet
<1> QED
  BY <1>3, <1>4

(* What a commit does to the rows: those it held appear, none disappears.   *)
LEMMA CommitEffect ==
  ASSUME SInv, NEW r \in Requests, Commit(r)
  PROVE  /\ Touches(r) /\ tx'[r] = Closed /\ output' = output
         /\ pc[r] = "resolve" /\ pc'[r] = "accepted"
         /\ claims' = claims \cup NewClaims(r)
         /\ \A e \in Identities :
              aliases'[e] = IF e \in tx[r].held THEN tx[r].view[e] ELSE aliases[e]
         /\ aliases' \in [Identities -> AliasLists \cup {Absent}]
         /\ \A e \in Identities :
              aliases[e] # Absent \/ e \in tx[r].held => aliases'[e] # Absent
<1> USE DEF SInv
<1>1. /\ Touches(r) /\ SessionOf(r) /\ tx[r] \in Sessions
      /\ aliases \in [Identities -> AliasLists \cup {Absent}]
  BY StepTouches DEF TypeOK, Step, Sessions
<1>2. /\ tx'[r] = Closed /\ output' = output
      /\ pc[r] = "resolve" /\ pc'[r] = "accepted"
      /\ claims' = claims \cup NewClaims(r)
  BY DEF Commit, Goto, TypeOK
<1>3. aliases' = [e \in Identities |->
                    IF e \in tx[r].held THEN tx[r].view[e] ELSE aliases[e]]
  BY DEF Commit
<1>4. tx[r].view \in [Identities -> AliasLists \cup {Absent}]
  BY <1>1 DEF Sessions
<1>5. aliases' \in [Identities -> AliasLists \cup {Absent}]
  BY <1>1, <1>3, <1>4
<1>6. \A e \in tx[r].held : tx[r].view[e] # Absent
  BY <1>1 DEF SessionOf
<1> QED
  BY <1>1, <1>2, <1>3, <1>5, <1>6

LEMMA CommitVisible ==
  ASSUME SInv, NEW r \in Requests, Commit(r)
  PROVE  OnlyAcceptedOutputIsVisible'
<1> USE DEF SInv
<1>1. /\ Touches(r) /\ output' = output
      /\ pc[r] = "resolve" /\ pc'[r] = "accepted"
      /\ claims' = claims \cup NewClaims(r)
      /\ \A e \in Identities :
           /\ aliases'[e] = IF e \in tx[r].held THEN tx[r].view[e] ELSE aliases[e]
           /\ aliases[e] # Absent \/ e \in tx[r].held => aliases'[e] # Absent
  BY CommitEffect
<1>2. /\ SessionOf(r) /\ tx[r].resolved \in Seq(Identities)
      /\ output[r] \in Outputs[KeyOf[r]] \ {Malformed} /\ Valid(output[r])
  BY <1>1 DEF TypeOK, SessionOf, Open
<1>3. \A s \in Requests : pc[s] = "accepted" => pc'[s] = "accepted" /\ s # r
  BY <1>1 DEF Touches
<1>4. \A e \in ToSet(tx[r].resolved) : e \in Identities /\ aliases'[e] # Absent
  <2> SUFFICES ASSUME NEW e \in ToSet(tx[r].resolved)
               PROVE  e \in Identities /\ aliases'[e] # Absent
    OBVIOUS
  <2>1. e \in Identities
    BY <1>2, ElementsFinite
  <2>2. tx[r].view[e] # Absent
    BY <1>2 DEF SessionOf
  <2>3. aliases[e] # Absent \/ e \in tx[r].held
    BY <1>2, <2>1, <2>2 DEF SessionOf, Loaded, Inserted
  <2> QED
    BY <1>1, <2>1, <2>3
<1>5. ASSUME NEW c \in claims'
      PROVE  /\ pc'[c.execution] = "accepted"
             /\ \E e \in c.evidence : e.stance # "irrelevant"
             /\ \A e \in c.evidence : e.passage \in Passages
             /\ c.subject = Absent \/ aliases'[c.subject] # Absent
  <2>1. CASE c \in claims
    <3>1. /\ c.execution \in Requests /\ pc[c.execution] = "accepted"
          /\ c.subject \in Identities \cup {Absent}
          /\ \E e \in c.evidence : e.stance # "irrelevant"
          /\ \A e \in c.evidence : e.passage \in Passages
          /\ c.subject = Absent \/ aliases[c.subject] # Absent
      BY <2>1 DEF TypeOK, OnlyAcceptedOutputIsVisible
    <3>2. c.subject = Absent \/ aliases'[c.subject] # Absent
      BY <1>1, <3>1
    <3> QED
      BY <1>3, <3>1, <3>2
  <2>2. CASE c \in NewClaims(r)
    <3>1. PICK i \in DOMAIN output[r].claims :
            c = [execution |-> r, index |-> i,
                 subject |-> Subject(r, output[r].claims[i].subject),
                 evidence |-> output[r].claims[i].evidence]
      BY <2>2 DEF NewClaims
    <3>2. /\ UsableEvidence(output[r].claims[i])
          /\ \A e \in output[r].claims[i].evidence : e.passage \in Passages
      BY <1>2 DEF Valid
    <3>3. c.subject \in {Absent} \cup ToSet(tx[r].resolved)
      BY <1>1, <1>2, <3>1, SubjectResolved DEF Commit
    <3> QED
      BY <1>1, <1>4, <3>1, <3>2, <3>3 DEF UsableEvidence
  <2> QED
    BY <1>1, <2>1, <2>2
<1>6. ASSUME NEW s \in Requests, pc'[s] = "accepted"
      PROVE  Cardinality({c \in claims' : c.execution = s}) = Len(output'[s].claims)
  <2>1. CASE s = r
    <3>1. \A c \in claims : c.execution # r
      BY <1>1 DEF OnlyAcceptedOutputIsVisible
    <3>2. \A c \in NewClaims(r) : c.execution = r
      BY DEF NewClaims
    <3>3. {c \in claims' : c.execution = r} = NewClaims(r)
      BY <1>1, <3>1, <3>2
    <3> QED
      BY <1>1, <1>2, <2>1, <3>3, NewClaimsCounted
  <2>2. CASE s # r
    <3>1. pc[s] = "accepted"
      BY <1>1, <1>6, <2>2 DEF Touches
    <3>2. \A c \in NewClaims(r) : c.execution # s
      BY <2>2 DEF NewClaims
    <3>3. {c \in claims' : c.execution = s} = {c \in claims : c.execution = s}
      BY <1>1, <3>2
    <3> QED
      BY <1>1, <3>1, <3>3 DEF OnlyAcceptedOutputIsVisible
  <2> QED
    BY <2>1, <2>2
<1>7. ASSUME NEW e \in Identities, aliases'[e] # Absent
      PROVE  \E s \in Requests :
               /\ pc'[s] = "accepted"
               /\ \E i \in DOMAIN output'[s].entities :
                    Identity(output'[s].entities[i]) = e
  <2>1. CASE aliases[e] # Absent
    BY <1>1, <1>3, <2>1 DEF OnlyAcceptedOutputIsVisible
  <2>2. CASE aliases[e] = Absent
    <3>1. e \in tx[r].held /\ tx[r].view[e] # Absent
      BY <1>1, <1>7, <2>2
    <3>2. e \in Named(output[r])
      BY <1>2, <2>2, <3>1 DEF SessionOf, Loaded, Inserted
    <3> QED
      BY <1>1, <3>2 DEF Named, ToSet
  <2> QED
    BY <2>1, <2>2
<1> QED
  BY <1>5, <1>6, <1>7 DEF OnlyAcceptedOutputIsVisible, Identity

LEMMA CommitStep ==
  ASSUME SInv, LookupType', NEW r \in Requests, Commit(r)
  PROVE  SInv'
<1> USE DEF SInv
<1>1. /\ Touches(r) /\ tx'[r] = Closed /\ output' = output
      /\ pc[r] = "resolve" /\ pc'[r] = "accepted"
      /\ claims' = claims \cup NewClaims(r)
      /\ aliases' \in [Identities -> AliasLists \cup {Absent}]
      /\ \A e \in Identities :
           /\ aliases'[e] = IF e \in tx[r].held THEN tx[r].view[e] ELSE aliases[e]
           /\ aliases[e] # Absent => aliases'[e] # Absent
  BY CommitEffect
<1>2. /\ SessionOf(r) /\ tx[r].resolved \in Seq(Identities)
      /\ output[r] \in Outputs[KeyOf[r]] \ {Malformed} /\ Valid(output[r])
  BY <1>1 DEF TypeOK, SessionOf, Open
<1>3. SessionOf(r)'
  BY <1>1, <1>2 DEF SessionOf, Closed, NoRow, Open, ToSet
<1>4. Closed \in Sessions /\ Closed.held = {}
  <2>1. <<>> \in Seq(Identities)
    OBVIOUS
  <2> QED
    BY <2>1 DEF Closed, NoRow, Sessions
<1>5. \A c \in claims' :
        c.execution \in Requests /\ c.subject \in Identities \cup {Absent}
  <2>1. \A c \in NewClaims(r) :
          c.execution = r /\ c.subject \in {Absent} \cup ToSet(tx[r].resolved)
    BY <1>1, <1>2, SubjectResolved DEF NewClaims, Commit
  <2> QED
    BY <1>1, <1>2, <2>1, ElementsFinite DEF TypeOK
<1>6. \A s \in Requests \ {r} : \A e \in tx[s].held :
        aliases[e] = Absent => aliases'[e] = Absent
  <2> SUFFICES ASSUME NEW s \in Requests \ {r}, NEW e \in tx[s].held,
                      aliases[e] = Absent
               PROVE  aliases'[e] = Absent
    OBVIOUS
  <2>1. e \notin tx[r].held
    BY DEF Exclusive
  <2>2. e \in Identities
    BY DEF TypeOK
  <2> QED
    BY <1>1, <2>1, <2>2
<1>7. /\ tx'[r] \in Sessions
      /\ output'[r] \in {Absent} \cup (Outputs[KeyOf[r]] \ {Malformed})
      /\ \A s \in Requests \ {r} : tx'[r].held \cap tx[s].held = {}
  BY <1>1, <1>2, <1>4
<1> QED
  BY <1>1, <1>3, <1>5, <1>6, <1>7, CommitVisible, StepPreserves

-----------------------------------------------------------------------------
(* The theorems                                                             *)

LEMMA SessionsInit == Init => SInv
<1> SUFFICES ASSUME Init PROVE SInv
  OBVIOUS
<1>1. <<>> \in Seq(Identities) /\ NoRow \in [Identities -> AliasLists \cup {Absent}]
  BY DEF NoRow
<1>2. TypeOK
  BY <1>1 DEF Init, TypeOK, Closed, Places
<1>3. Exclusive
  BY DEF Init, Exclusive, Closed
<1>4. \A r \in Requests : SessionOf(r)
  BY DEF Init, SessionOf, Closed, NoRow, Open, ToSet
<1>5. OnlyAcceptedOutputIsVisible
  BY DEF Init, OnlyAcceptedOutputIsVisible, NoRow
<1> QED
  BY <1>2, <1>3, <1>4, <1>5 DEF SInv

LEMMA SessionsNext == SInv /\ LInv /\ [Next]_vars => SInv'
<1> SUFFICES ASSUME SInv, LInv, [Next]_vars PROVE SInv'
  OBVIOUS
<1>1. CASE UNCHANGED vars
  <2>1. UNCHANGED pc /\ UNCHANGED output /\ UNCHANGED aliases
        /\ UNCHANGED claims /\ UNCHANGED tx /\ UNCHANGED before
    BY <1>1 DEF vars
  <2>2. TypeOK' = TypeOK /\ Exclusive' = Exclusive
    BY <2>1 DEF TypeOK, Exclusive
  <2>3. \A r \in Requests : SessionOf(r)' = SessionOf(r)
    BY <2>1 DEF SessionOf, Loaded, Inserted, HasCandidate
  <2>4. OnlyAcceptedOutputIsVisible' = OnlyAcceptedOutputIsVisible
    BY <2>1 DEF OnlyAcceptedOutputIsVisible
  <2> QED
    BY <2>2, <2>3, <2>4 DEF SInv
<1>2. ASSUME NEW r \in Requests, Step(r) PROVE SInv'
  <2>1. LookupType'
    BY <1>2, LookupKeepsInv, OtherKeepsInv DEF LInv
  <2> QED
    BY <1>2, <2>1, EarlyStep, FindStep, InsertStep, FlushStep, CommitStep,
       DeadlockedStep DEF Step
<1> QED
  BY <1>1, <1>2 DEF Next

(* For every set of requests, answers and names, the sessions are what the  *)
(* rows and the accepted answers make of them, row locks are exclusive, and *)
(* what readers see comes from accepted answers.                            *)
THEOREM SessionsInvariant == Spec => []SInv
  BY SessionsInit, SessionsNext, LookupInvariant, PTL DEF Spec

(* Every variable keeps its type: what merged_aliases returns is an alias   *)
(* list, and every resolved entity has an identity.                         *)
THEOREM ExtractionTypes == Spec => []TypeOK
<1>1. SInv => TypeOK
  BY DEF SInv
<1> QED
  BY SessionsInvariant, <1>1, PTL

(* However requests interleave, deadlock and fail, extract_document leaves  *)
(* only what accepted answers said, each as a whole.                        *)
THEOREM OnlyAcceptedVisible == Spec => []OnlyAcceptedOutputIsVisible
<1>1. SInv => OnlyAcceptedOutputIsVisible
  BY DEF SInv
<1> QED
  BY SessionsInvariant, <1>1, PTL

(* Only a commit writes alias lists.                                        *)
LEMMA OthersKeepAliases ==
  ASSUME NEW r \in Requests, Step(r), ~Commit(r)
  PROVE  aliases' = aliases
<1>1. Lookup(r) => aliases' = aliases
  BY DEF Lookup
<1>2. ProviderFails(r) \/ ProviderAnswers(r) => aliases' = aliases
  BY DEF ProviderFails, ProviderAnswers
<1>3. FindExact(r) \/ FindAlias(r) \/ Flush(r) => aliases' = aliases
  BY DEF FindExact, FindAlias, Flush
<1>4. Insert(r) => aliases' = aliases
  BY DEF Insert, Abort
<1>5. Deadlocked(r) => aliases' = aliases
  BY DEF Deadlocked, Abort
<1> QED
  BY <1>1, <1>2, <1>3, <1>4, <1>5 DEF Step

(* A commit drops only aliases that its session had not loaded.             *)
LEMMA CommitYields ==
  ASSUME SInv, NEW r \in Requests, Commit(r),
         NEW e \in Identities, aliases[e] # Absent,
         NEW a \in ToSet(aliases[e]) \ {Blank}
  PROVE  \/ aliases'[e] # Absent /\ a \in ToSet(aliases'[e])
         \/ /\ pc[r] = "resolve" /\ pc'[r] = "accepted"
            /\ tx[r].read[e] # Absent /\ a \notin ToSet(tx[r].read[e])
<1>1. /\ pc[r] = "resolve" /\ pc'[r] = "accepted"
      /\ aliases'[e] = IF e \in tx[r].held THEN tx[r].view[e] ELSE aliases[e]
      /\ aliases'[e] # Absent
  BY CommitEffect
<1>2. CASE e \in tx[r].held
  <2>1. Loaded(r, e)
    BY <1>2 DEF SInv, SessionOf, Inserted
  <2>2. a \in ToSet(tx[r].read[e]) => a \in ToSet(tx[r].view[e])
    BY <2>1 DEF Loaded
  <2> QED
    BY <1>1, <1>2, <2>1, <2>2 DEF Loaded
<1>3. CASE e \notin tx[r].held
  BY <1>1, <1>3
<1> QED
  BY <1>2, <1>3

(* However many requests resolve the same entities, an alias is lost only   *)
(* to a session that had loaded the entity without it: merged_aliases never *)
(* drops what resolve_entity has read.                                      *)
THEOREM AliasesYield == Spec => AliasesYieldOnlyToStaleReads
<1> DEFINE Yields ==
      \A e \in Identities :
        aliases[e] # Absent =>
          \A a \in ToSet(aliases[e]) \ {Blank} :
            \/ aliases'[e] # Absent /\ a \in ToSet(aliases'[e])
            \/ \E r \in Requests :
                 /\ pc[r] = "resolve" /\ pc'[r] = "accepted"
                 /\ tx[r].read[e] # Absent /\ a \notin ToSet(tx[r].read[e])
<1>1. ASSUME SInv, NEW r \in Requests, Step(r) PROVE Yields
  <2>1. CASE Commit(r)
    BY <1>1, <2>1, CommitYields
  <2>2. CASE ~Commit(r)
    BY <1>1, <2>2, OthersKeepAliases
  <2> QED
    BY <2>1, <2>2
<1>2. SInv /\ [Next]_vars => [Yields]_vars
  BY <1>1 DEF Next
<1> QED
  BY SessionsInvariant, <1>2, PTL DEF Spec, AliasesYieldOnlyToStaleReads
=============================================================================
