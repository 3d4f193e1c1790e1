------------------------ MODULE BenchmarkLedgerProofs ------------------------
(***************************************************************************)
(* Proofs about BenchmarkLedger: for every number of cases, texts, tabs,   *)
(* commands and records, what counts as approved was approved by someone   *)
(* who saw it, only commands and broken lines make the ledger unreadable,  *)
(* manifests overlook no decision, and the lock is never left behind.      *)
(***************************************************************************)
EXTENDS BenchmarkLedger, TLAPS

(***************************************************************************)
(* Types.                                                                  *)
(***************************************************************************)
Golds == [Cases -> Texts \cup {Malformed, None}]
Items == [case : Cases, text : Texts,
          state : {"pending", "stale", "approved", "rejected"}]
Drafts == [gold : Golds, recorded : Nat]

Queued == [at : {"queued"}, case : Cases, seen : Texts, decision : Decisions]
Entered == [at : {"entered"}, case : Cases, seen : Texts, decision : Decisions,
            gold : Golds]
StampedOnes == [at : {"stamped"}, case : Cases, seen : Texts \cup {None},
                text : Texts, decision : Decisions, time : Times]
Checked == [at : {"checked"}, case : Cases, seen : Texts \cup {None},
            text : Texts, decision : Decisions, time : Times, after : Nat]

Records == [case : Cases, seen : Texts \cup {None}, text : Texts,
            decision : Decisions, time : Times, after : Nat, by : Writers,
            remains : Remains]

TypeOK ==
  /\ gold \in Golds
  /\ ledger \in Seq(Records)
  /\ lock \in Tabs \cup {None}
  /\ writer \in [Writers -> {Idle} \cup Queued \cup Entered \cup StampedOnes \cup Checked]
  /\ asked \in [Tabs -> Golds \cup {None}]
  /\ queue \in [Tabs -> (SUBSET Items) \cup {None}]
  /\ view \in [Tabs -> SUBSET Items]
  /\ draft \in Drafts \cup {None}
  /\ manifest \in Drafts \cup {None}

(***************************************************************************)
(* The inductive invariant.                                                *)
(***************************************************************************)
Inside == {"entered", "stamped", "checked"}

(* A request that reads or writes under the lock holds it.                  *)
Locked == \A t \in Tabs : writer[t].at \in Inside => lock = t

(* What a tab decides about is what the tab was shown.                      *)
Bound ==
  /\ \A t \in Tabs :
       writer[t].at \in {"stamped", "checked"} => writer[t].seen = writer[t].text
  /\ \A i \in 1..Len(ledger) : ledger[i].by \in Tabs => ledger[i].seen = ledger[i].text

(* A queue on its way says what the ledger said.                            *)
QueuesAreTrue ==
  \A t \in Tabs :
    queue[t] # None =>
      \A item \in queue[t] :
        item.state = "approved" => AnyApproval(item.case, item.text)

(* The record that a writer has checked fits the ledger as it was then, and *)
(* a tab has been overtaken by commands only.                               *)
ChecksHold ==
  \A w \in Writers :
    writer[w].at = "checked" =>
      /\ writer[w].after <= Len(ledger)
      /\ writer[w].after > 0 => ledger[writer[w].after].time <= writer[w].time
      /\ w \in Tabs =>
           \A j \in (writer[w].after + 1)..Len(ledger) : ledger[j].by \in Clis

(* Neighbours are in order, or a command raced.                             *)
OrderedOrRaced ==
  \A i \in 2..Len(ledger) :
    \/ ledger[i - 1].time <= ledger[i].time
    \/ Overtaken(i) /\ {ledger[i - 1].by, ledger[i].by} \cap Clis # {}

(* Manifests count records that exist.                                      *)
DraftsAreOld ==
  /\ draft # None => draft.recorded <= Len(ledger)
  /\ manifest # None => manifest.recorded <= Len(ledger)

IInv ==
  /\ TypeOK /\ Locked /\ LockIsInUse /\ Bound /\ QueuesAreTrue
  /\ ApprovedMeansSeen /\ ChecksHold /\ OrderedOrRaced /\ DraftsAreOld
  /\ ManifestHonoursRefusals

(***************************************************************************)
(* Typing.                                                                 *)
(***************************************************************************)
LEMMA Stages ==
  ASSUME TypeOK, NEW w \in Writers
  PROVE  /\ writer[w].at = "queued" => writer[w] \in Queued
         /\ writer[w].at = "entered" => writer[w] \in Entered
         /\ writer[w].at = "stamped" => writer[w] \in StampedOnes
         /\ writer[w].at = "checked" => writer[w] \in Checked
         /\ writer[w].at \in {"idle", "queued"} \cup Inside
  BY DEF TypeOK, Idle, Queued, Entered, StampedOnes, Checked, Inside

LEMMA RecordsAreTyped ==
  ASSUME TypeOK, NEW w \in Writers, writer[w].at = "checked", NEW remains \in Remains
  PROVE  Record(w, remains) \in Records
  <1>1. writer[w] \in Checked
    BY Stages
  <1> QED  BY <1>1 DEF Checked, Records, Record

LEMMA QueuesAreTyped ==
  ASSUME NEW g \in Golds, Valid(g)
  PROVE  Queue(g) \in SUBSET Items
  <1> SUFFICES ASSUME NEW c \in Known(g)
               PROVE  Item(c, g[c], State(c, g[c])) \in Items
    BY DEF Queue
  <1>1. c \in Cases /\ g[c] \in Texts
    BY DEF Known, Golds, Valid
  <1>2. State(c, g[c]) \in {"pending", "stale", "approved", "rejected"}
    BY DEF State
  <1> QED  BY <1>1, <1>2 DEF Item, Items

LEMMA DecidedIsTyped ==
  ASSUME TypeOK, NEW w \in Writers, writer[w].at = "checked", NEW items \in SUBSET Items
  PROVE  Decided(items, w) \in SUBSET Items
  <1>1. writer[w].text \in Texts /\ writer[w].decision \in {"approved", "rejected"}
    BY Stages DEF Checked, Decisions
  <1> SUFFICES ASSUME NEW item \in items
               PROVE  (IF item.case = writer[w].case
                       THEN Item(item.case, writer[w].text, writer[w].decision)
                       ELSE item) \in Items
    BY DEF Decided
  <1> QED  BY <1>1 DEF Item, Items

LEMMA InitTyped == Init => TypeOK
  <1> SUFFICES ASSUME Init PROVE TypeOK
    OBVIOUS
  <1>1. gold \in Golds /\ ledger \in Seq(Records)
    BY DEF Init, Golds
  <1>2. view \in [Tabs -> SUBSET Items]
    BY DEF Init, Item, Items
  <1>3. writer \in [Writers -> {Idle}]
    BY DEF Init
  <1> QED  BY <1>1, <1>2, <1>3 DEF Init, TypeOK

LEMMA LeavingIsTyped ==
  ASSUME TypeOK, NEW w \in Writers, Leave(w)
  PROVE  /\ lock' \in Tabs \cup {None}
         /\ writer' \in [Writers -> {Idle} \cup Queued \cup Entered \cup StampedOnes \cup Checked]
  BY DEF TypeOK, Leave

LEMMA AppendIsTyped ==
  ASSUME TypeOK, NEW w \in Writers, writer[w].at = "checked",
         NEW remains \in Remains, Left(w, remains)
  PROVE  ledger' \in Seq(Records)
  <1>1. Record(w, remains) \in Records
    BY RecordsAreTyped
  <1> QED  BY <1>1 DEF TypeOK, Left

LEMMA StepTyped ==
  ASSUME TypeOK, [Next]_vars
  PROVE  TypeOK'
  <1>1. ASSUME NEW t \in Tabs, Ask(t) PROVE TypeOK'
    BY <1>1 DEF Ask, TypeOK, selection
  <1>2. ASSUME NEW t \in Tabs, Answer(t) PROVE TypeOK'
    <2>1. asked[t] \in Golds
      BY <1>2 DEF Answer, TypeOK
    <2>2. (IF Loads(asked[t]) THEN Queue(asked[t]) ELSE {}) \in SUBSET Items
      BY <2>1, QueuesAreTyped DEF Loads
    <2> QED  BY <1>2, <2>2 DEF Answer, TypeOK, selection
  <1>3. ASSUME NEW t \in Tabs, Show(t) PROVE TypeOK'
    BY <1>3 DEF Show, TypeOK, selection
  <1>4. ASSUME NEW t \in Tabs, Submit(t) PROVE TypeOK'
    <2>1. PICK item \in view[t], d \in Decisions :
            writer' = [writer EXCEPT ![t] =
              [at |-> "queued", case |-> item.case, seen |-> item.text, decision |-> d]]
      BY <1>4 DEF Submit
    <2>2. item \in Items
      BY DEF TypeOK
    <2>3. [at |-> "queued", case |-> item.case, seen |-> item.text, decision |-> d] \in Queued
      BY <2>2 DEF Items, Queued
    <2> QED  BY <1>4, <2>1, <2>3 DEF Submit, TypeOK, pages, selection
  <1>5. ASSUME NEW t \in Tabs, Enter(t) PROVE TypeOK'
    <2>1. writer[t] \in Queued
      BY <1>5, Stages DEF Enter, Writers
    <2>2. [at |-> "entered", case |-> writer[t].case, seen |-> writer[t].seen,
           decision |-> writer[t].decision, gold |-> gold] \in Entered
      BY <2>1 DEF Queued, Entered, TypeOK
    <2> QED  BY <1>5, <2>2 DEF Enter, TypeOK, pages, selection
  <1>6. ASSUME NEW t \in Tabs, Decide(t) PROVE TypeOK'
    <2>1. CASE ~MayDecide(t) /\ Refuse(t)
      BY <1>6, <2>1, LeavingIsTyped DEF Decide, Refuse, TypeOK, selection, Writers
    <2>2. ASSUME MayDecide(t), UNCHANGED <<ledger, lock, view>>, NEW time \in Times,
                 writer' = [writer EXCEPT ![t] =
                   Stamped(@.case, @.seen, @.gold[@.case], @.decision, time)]
          PROVE  TypeOK'
      <3>1. writer[t] \in Entered
        BY <1>6, Stages DEF Decide, Writers
      <3>2. writer[t].gold[writer[t].case] = writer[t].seen
        BY <2>2 DEF MayDecide
      <3>3. Stamped(writer[t].case, writer[t].seen, writer[t].gold[writer[t].case],
                    writer[t].decision, time) \in StampedOnes
        BY <3>1, <3>2 DEF Entered, StampedOnes, Stamped
      <3> QED  BY <1>6, <2>2, <3>3 DEF Decide, TypeOK, selection
    <2> QED  BY <1>6, <2>1, <2>2 DEF Decide
  <1>7. ASSUME NEW w \in Clis, Command(w) PROVE TypeOK'
    <2>1. PICK c \in Cases, text \in Texts, d \in Decisions, time \in Times :
            writer' = [writer EXCEPT ![w] = Stamped(c, None, text, d, time)]
      BY <1>7 DEF Command
    <2>2. Stamped(c, None, text, d, time) \in StampedOnes
      BY DEF Stamped, StampedOnes
    <2> QED  BY <1>7, <2>1, <2>2 DEF Command, TypeOK, pages, selection
  <1>8. ASSUME NEW w \in Writers, Check(w) PROVE TypeOK'
    <2>1. CASE Refuse(w)
      BY <1>8, <2>1, LeavingIsTyped DEF Check, Refuse, TypeOK, selection
    <2>2. ASSUME UNCHANGED <<ledger, lock, view>>,
                 writer' = [writer EXCEPT ![w] =
                   [at |-> "checked", case |-> @.case, seen |-> @.seen, text |-> @.text,
                    decision |-> @.decision, time |-> @.time, after |-> Len(ledger)]]
          PROVE  TypeOK'
      <3>1. writer[w] \in StampedOnes /\ Len(ledger) \in Nat
        BY <1>8, Stages DEF Check, TypeOK
      <3>2. [at |-> "checked", case |-> writer[w].case, seen |-> writer[w].seen,
             text |-> writer[w].text, decision |-> writer[w].decision,
             time |-> writer[w].time, after |-> Len(ledger)] \in Checked
        BY <3>1 DEF StampedOnes, Checked
      <3> QED  BY <1>8, <2>2, <3>2 DEF Check, TypeOK, selection
    <2> QED  BY <1>8, <2>1, <2>2 DEF Check
  <1>9. ASSUME NEW w \in Writers, Write(w) PROVE TypeOK'
    <2>1. ledger' \in Seq(Records)
      BY <1>9, AppendIsTyped DEF Write, Remains
    <2>2. view' \in [Tabs -> SUBSET Items]
      <3>1. CASE w \in Tabs /\ view' = [view EXCEPT ![w] = Decided(@, w)]
        <4>1. Decided(view[w], w) \in SUBSET Items
          BY <1>9, <3>1, DecidedIsTyped DEF Write, TypeOK
        <4> QED  BY <3>1, <4>1 DEF TypeOK
      <3> QED  BY <1>9, <3>1 DEF Write, TypeOK
    <2> QED  BY <1>9, <2>1, <2>2, LeavingIsTyped DEF Write, TypeOK, selection
  <1>10. ASSUME NEW w \in Writers, WriteFails(w) PROVE TypeOK'
    <2>1. ledger' \in Seq(Records)
      BY <1>10, AppendIsTyped DEF WriteFails, TypeOK
    <2> QED  BY <1>10, <2>1, LeavingIsTyped DEF WriteFails, TypeOK, pages, selection
  <1>11. CASE ServerDies
    <2>1. ledger' \in Seq(Records)
      BY <1>11, AppendIsTyped DEF ServerDies, TypeOK, Writers
    <2> QED  BY <1>11, <2>1 DEF ServerDies, TypeOK, selection
  <1>12. CASE OpenManifest
    BY <1>12 DEF OpenManifest, TypeOK, Drafts, pages
  <1>13. CASE WriteManifest
    BY <1>13 DEF WriteManifest, TypeOK, pages
  <1>14. CASE Edit
    BY <1>14 DEF Edit, TypeOK, Golds, pages, selection
  <1>15. CASE UNCHANGED vars
    BY <1>15 DEF vars, TypeOK, pages, selection
  <1> QED
    BY <1>1, <1>2, <1>3, <1>4, <1>5, <1>6, <1>7, <1>8, <1>9, <1>10, <1>11, <1>12,
       <1>13, <1>14, <1>15 DEF Next, Proceed

(***************************************************************************)
(* The lock.                                                               *)
(***************************************************************************)
LEMMA LeavingUnlocks ==
  ASSUME TypeOK, Locked, LockIsInUse, NEW w \in Writers, Leave(w)
  PROVE  Locked' /\ LockIsInUse'
  BY WritersAssumption DEF TypeOK, Locked, LockIsInUse, Leave, Idle, Inside

LEMMA StepLocks ==
  ASSUME TypeOK, Locked, LockIsInUse, [Next]_vars
  PROVE  Locked' /\ LockIsInUse'
  <1>1. CASE UNCHANGED <<writer, lock>>
    BY <1>1 DEF Locked, LockIsInUse
  <1>2. ASSUME NEW w \in Writers, Leave(w) PROVE Locked' /\ LockIsInUse'
    BY <1>2, LeavingUnlocks
  <1>3. ASSUME NEW t \in Tabs, Submit(t) PROVE Locked' /\ LockIsInUse'
    BY <1>3 DEF Submit, TypeOK, Locked, LockIsInUse, Idle, Inside, Writers
  <1>4. ASSUME NEW t \in Tabs, Enter(t) PROVE Locked' /\ LockIsInUse'
    BY <1>4, WritersAssumption DEF Enter, Free, TypeOK, Locked, LockIsInUse, Inside, Writers
  <1>5. ASSUME NEW t \in Tabs, Decide(t), ~Leave(t) PROVE Locked' /\ LockIsInUse'
    BY <1>5 DEF Decide, Refuse, Stamped, TypeOK, Locked, LockIsInUse, Inside, Writers
  <1>6. ASSUME NEW w \in Clis, Command(w) PROVE Locked' /\ LockIsInUse'
    BY <1>6, WritersAssumption DEF Command, TypeOK, Locked, LockIsInUse, Inside, Writers
  <1>7. ASSUME NEW w \in Writers, Check(w), ~Leave(w) PROVE Locked' /\ LockIsInUse'
    <2>1. /\ writer[w].at = "stamped" /\ UNCHANGED lock
          /\ writer' = [writer EXCEPT ![w] =
               [at |-> "checked", case |-> @.case, seen |-> @.seen, text |-> @.text,
                decision |-> @.decision, time |-> @.time, after |-> Len(ledger)]]
      BY <1>7 DEF Check, Refuse
    <2>2. writer'[w].at = "checked" /\ \A v \in Writers \ {w} : writer'[v] = writer[v]
      BY <2>1 DEF TypeOK
    <2> QED  BY <2>1, <2>2 DEF TypeOK, Locked, LockIsInUse, Inside, Writers
  <1>8. CASE ServerDies
    BY <1>8 DEF ServerDies, Locked, LockIsInUse, Idle, Inside, Writers
  <1>9. ASSUME NEW w \in Writers, Write(w) \/ WriteFails(w) PROVE Leave(w)
    BY <1>9 DEF Write, WriteFails
  <1> QED
    BY <1>1, <1>2, <1>3, <1>4, <1>5, <1>6, <1>7, <1>8, <1>9
    DEF Next, Proceed, vars, Ask, Answer, Show, OpenManifest, WriteManifest, Edit, Writers

(***************************************************************************)
(* The ledger only grows.                                                  *)
(***************************************************************************)
(* The writer of a record is done with it.                                  *)
Appends ==
  \E w \in Writers, remains \in Remains :
    writer[w].at = "checked" /\ Left(w, remains) /\ writer'[w] = Idle

LEMMA StepAppends ==
  ASSUME TypeOK, [Next]_vars
  PROVE  UNCHANGED ledger \/ Appends
  <1>1. ASSUME NEW w \in Writers, Write(w) PROVE Appends
    BY <1>1 DEF Write, Leave, TypeOK, Appends, Remains
  <1>2. ASSUME NEW w \in Writers, WriteFails(w) PROVE UNCHANGED ledger \/ Appends
    BY <1>2 DEF WriteFails, Leave, TypeOK, Appends
  <1>3. CASE ServerDies
    BY <1>3 DEF ServerDies, TypeOK, Appends, Writers
  <1>4. ASSUME NEW w \in Writers, Check(w) PROVE UNCHANGED ledger
    BY <1>4 DEF Check, Refuse
  <1>5. ASSUME NEW t \in Tabs, Decide(t) PROVE UNCHANGED ledger
    BY <1>5 DEF Decide, Refuse
  <1> QED
    BY <1>1, <1>2, <1>3, <1>4, <1>5
    DEF Next, Proceed, vars, Ask, Answer, Show, Submit, Enter, Command, OpenManifest,
        WriteManifest, Edit

LEMMA Grown ==
  ASSUME TypeOK, NEW w \in Writers, NEW remains \in Remains, writer[w].at = "checked",
         Left(w, remains)
  PROVE  /\ Len(ledger) \in Nat /\ Len(ledger') = Len(ledger) + 1
         /\ \A i \in 1..Len(ledger) : ledger'[i] = ledger[i] /\ ledger[i] \in Records
         /\ ledger'[Len(ledger) + 1] = Record(w, remains)
         /\ Record(w, remains) \in Records
  <1>1. Record(w, remains) \in Records
    BY RecordsAreTyped
  <1> QED  BY <1>1 DEF TypeOK, Left

LEMMA Kept ==
  ASSUME TypeOK, [Next]_vars
  PROVE  /\ Len(ledger) \in Nat /\ Len(ledger') \in Nat /\ Len(ledger) <= Len(ledger')
         /\ \A i \in 1..Len(ledger) : ledger'[i] = ledger[i]
  <1>1. CASE UNCHANGED ledger
    BY <1>1 DEF TypeOK
  <1>2. CASE Appends
    BY <1>2, Grown DEF Appends
  <1> QED  BY <1>1, <1>2, StepAppends

LEMMA ApprovalsStay ==
  ASSUME TypeOK, [Next]_vars, NEW c, NEW text, AnyApproval(c, text)
  PROVE  AnyApproval(c, text)'
  BY Kept DEF AnyApproval

(***************************************************************************)
(* What writers hold.                                                      *)
(***************************************************************************)
Stamps(v) ==
  /\ writer'[v].at = "stamped"
  /\ v \in Tabs => writer'[v].seen = writer'[v].text

Checks(v) ==
  /\ writer[v].at = "stamped" /\ writer'[v].at = "checked"
  /\ writer'[v].seen = writer[v].seen /\ writer'[v].text = writer[v].text
  /\ writer'[v].time = writer[v].time /\ writer'[v].after = Len(ledger)
  /\ InOrder(v) /\ UNCHANGED ledger

LEMMA StepWriters ==
  ASSUME TypeOK, [Next]_vars, NEW v \in Writers
  PROVE  \/ writer'[v] = writer[v]
         \/ writer'[v].at \in {"idle", "queued", "entered"}
         \/ Stamps(v) \/ Checks(v)
  <1> DEFINE Goal == \/ writer'[v] = writer[v]
                     \/ writer'[v].at \in {"idle", "queued", "entered"}
                     \/ Stamps(v) \/ Checks(v)
  <1> SUFFICES Goal
    OBVIOUS
  <1>1. ASSUME NEW w \in Writers, Leave(w) PROVE Goal
    BY <1>1 DEF Leave, TypeOK, Idle
  <1>2. ASSUME NEW t \in Tabs, Submit(t) PROVE Goal
    BY <1>2 DEF Submit, TypeOK
  <1>3. ASSUME NEW t \in Tabs, Enter(t) PROVE Goal
    BY <1>3 DEF Enter, TypeOK
  <1>4. ASSUME NEW t \in Tabs, Decide(t), ~Leave(t) PROVE Goal
    BY <1>4 DEF Decide, Refuse, MayDecide, Stamped, TypeOK, Stamps
  <1>5. ASSUME NEW w \in Clis, Command(w) PROVE Goal
    BY <1>5, WritersAssumption DEF Command, Stamped, TypeOK, Stamps
  <1>6. ASSUME NEW w \in Writers, Check(w), ~Leave(w) PROVE Goal
    <2>1. /\ writer[w].at = "stamped" /\ UNCHANGED ledger /\ InOrder(w)
          /\ writer' = [writer EXCEPT ![w] =
               [at |-> "checked", case |-> @.case, seen |-> @.seen, text |-> @.text,
                decision |-> @.decision, time |-> @.time, after |-> Len(ledger)]]
      BY <1>6 DEF Check, Refuse
    <2> QED  BY <2>1 DEF TypeOK, Checks
  <1>7. CASE ServerDies
    BY <1>7 DEF ServerDies, Idle
  <1>8. CASE UNCHANGED writer
    BY <1>8
  <1>9. ASSUME NEW w \in Writers, Write(w) \/ WriteFails(w) PROVE Leave(w)
    BY <1>9 DEF Write, WriteFails
  <1> HIDE DEF Goal
  <1> QED
    BY <1>1, <1>2, <1>3, <1>4, <1>5, <1>6, <1>7, <1>8, <1>9
    DEF Next, Proceed, vars, Ask, Answer, Show, OpenManifest, WriteManifest, Edit, Writers

LEMMA StepBinds ==
  ASSUME TypeOK, Bound, [Next]_vars
  PROVE  Bound'
  <1>1. ASSUME NEW t \in Tabs, writer'[t].at \in {"stamped", "checked"}
        PROVE  writer'[t].seen = writer'[t].text
    <2>1. t \in Writers
      BY DEF Writers
    <2> QED  BY <1>1, <2>1, StepWriters DEF Bound, Stamps, Checks
  <1>2. CASE UNCHANGED ledger
    BY <1>1, <1>2 DEF Bound
  <1>3. CASE Appends
    <2> SUFFICES ASSUME NEW i \in 1..Len(ledger'), ledger'[i].by \in Tabs
                 PROVE  ledger'[i].seen = ledger'[i].text
      BY <1>1 DEF Bound
    <2>1. PICK w \in Writers, remains \in Remains :
            writer[w].at = "checked" /\ Left(w, remains)
      BY <1>3 DEF Appends
    <2>2. CASE i = Len(ledger) + 1
      <3>1. ledger'[i] = Record(w, remains)
        BY <2>1, <2>2, Grown
      <3> QED  BY <2>1, <3>1 DEF Bound, Record
    <2> QED  BY <2>1, <2>2, Grown DEF Bound
  <1> QED  BY <1>2, <1>3, StepAppends

LEMMA StepChecks ==
  ASSUME TypeOK, Locked, ChecksHold, [Next]_vars
  PROVE  ChecksHold'
  <1> SUFFICES ASSUME NEW v \in Writers, writer'[v].at = "checked"
               PROVE  /\ writer'[v].after <= Len(ledger')
                      /\ writer'[v].after > 0 =>
                           ledger'[writer'[v].after].time <= writer'[v].time
                      /\ v \in Tabs =>
                           \A j \in (writer'[v].after + 1)..Len(ledger') :
                             ledger'[j].by \in Clis
    BY DEF ChecksHold
  <1>1. writer'[v] = writer[v] \/ Checks(v)
    BY StepWriters DEF Stamps
  <1>2. CASE Checks(v)
    BY <1>2 DEF Checks, InOrder, TypeOK
  <1>3. CASE writer'[v] = writer[v] /\ UNCHANGED ledger
    BY <1>3 DEF ChecksHold
  <1>4. CASE writer'[v] = writer[v] /\ Appends
    <2>1. PICK w \in Writers, remains \in Remains :
            writer[w].at = "checked" /\ Left(w, remains) /\ writer'[w] = Idle
      BY <1>4 DEF Appends
    <2>2. writer[v] \in Checked
      BY <1>4, Stages
    <2>3. writer[v].after \in Nat
      BY <2>2 DEF Checked
    <2>4. v \in Tabs => w \in Clis
      <3> SUFFICES ASSUME v \in Tabs, w \in Tabs PROVE FALSE
        BY DEF Writers
      <3>1. v = w
        BY <1>4, <2>1 DEF Locked, Inside
      <3> QED  BY <1>4, <2>1, <3>1 DEF Idle
    <2>5. ledger'[Len(ledger) + 1].by = w
      <3>1. ledger'[Len(ledger) + 1] = Record(w, remains)
        BY <2>1, Grown
      <3> QED  BY <3>1 DEF Record
    <2> QED  BY <1>4, <2>1, <2>3, <2>4, <2>5, Grown DEF ChecksHold
  <1> QED  BY <1>1, <1>2, <1>3, <1>4, StepAppends

LEMMA StepOrders ==
  ASSUME TypeOK, ChecksHold, OrderedOrRaced, [Next]_vars
  PROVE  OrderedOrRaced'
  <1>1. CASE UNCHANGED ledger
    BY <1>1 DEF OrderedOrRaced, Overtaken
  <1>2. CASE Appends
    <2>1. PICK w \in Writers, remains \in Remains :
            writer[w].at = "checked" /\ Left(w, remains)
      BY <1>2 DEF Appends
    <2> DEFINE n == Len(ledger)
    <2>2. n \in Nat /\ Len(ledger') = n + 1 /\ \A i \in 1..n : ledger'[i] = ledger[i]
      BY <2>1, Grown
    <2>3. /\ ledger'[n + 1].time = writer[w].time
          /\ ledger'[n + 1].after = writer[w].after
          /\ ledger'[n + 1].by = w
      <3>1. ledger'[n + 1] = Record(w, remains)
        BY <2>1, Grown
      <3> QED  BY <3>1 DEF Record
    <2>4. writer[w].after \in Nat /\ writer[w].after <= n
      <3>1. writer[w] \in Checked
        BY <2>1, Stages
      <3> QED  BY <2>1, <3>1 DEF Checked, ChecksHold
    <2> SUFFICES ASSUME NEW i \in 2..Len(ledger')
                 PROVE  \/ ledger'[i - 1].time <= ledger'[i].time
                        \/ /\ ledger'[i].after < i - 1
                           /\ {ledger'[i - 1].by, ledger'[i].by} \cap Clis # {}
      BY DEF OrderedOrRaced, Overtaken
    <2>5. CASE i \in 2..n
      BY <2>2, <2>5 DEF OrderedOrRaced, Overtaken
    <2>6. CASE i = n + 1 /\ writer[w].after = n
      BY <2>1, <2>2, <2>3, <2>6 DEF ChecksHold
    <2>7. CASE i = n + 1 /\ writer[w].after < n
      <3>1. w \in Clis \/ ledger[n].by \in Clis
        BY <2>1, <2>2, <2>4, <2>7 DEF ChecksHold, Writers
      <3> QED  BY <2>2, <2>3, <2>7, <3>1
    <2> QED  BY <2>2, <2>4, <2>5, <2>6, <2>7
  <1> QED  BY <1>1, <1>2, StepAppends

(***************************************************************************)
(* Approvals.                                                              *)
(***************************************************************************)
LEMMA ApprovedWasSeen ==
  ASSUME Bound, NEW c, NEW text, Approved(c, text)
  PROVE  AnyApproval(c, text)
  BY DEF Bound, Approved, Decides, Latest, AnyApproval

LEMMA StepQueues ==
  ASSUME TypeOK, Bound, QueuesAreTrue, [Next]_vars
  PROVE  QueuesAreTrue'
  <1> SUFFICES ASSUME NEW t \in Tabs, queue'[t] # None, NEW item \in queue'[t],
                      item.state = "approved"
               PROVE  AnyApproval(item.case, item.text)'
    BY DEF QueuesAreTrue
  <1>1. CASE queue'[t] = queue[t]
    BY <1>1, ApprovalsStay DEF QueuesAreTrue
  <1>2. CASE queue'[t] # queue[t] /\ Answer(t)
    <2>1. queue'[t] = Queue(asked[t]) \/ queue'[t] = {}
      BY <1>2 DEF Answer, TypeOK
    <2>2. PICK c \in Known(asked[t]) :
            item = Item(c, asked[t][c], State(c, asked[t][c]))
      BY <2>1 DEF Queue
    <2>3. Approved(item.case, item.text)
      BY <2>2 DEF Item, State
    <2> QED  BY <2>3, ApprovedWasSeen, ApprovalsStay
  <1>3. queue'[t] = queue[t] \/ Answer(t)
    <2>1. ASSUME NEW u \in Tabs, Answer(u) PROVE queue'[t] = queue[t] \/ Answer(t)
      BY <2>1 DEF Answer, TypeOK
    <2>2. ASSUME NEW u \in Tabs, Show(u) PROVE queue'[t] = queue[t]
      BY <2>2 DEF Show, TypeOK
    <2> QED
      BY <2>1, <2>2
      DEF Next, Proceed, vars, pages, Ask, Submit, Enter, Decide, Command, Check, Write,
          WriteFails, ServerDies, OpenManifest, WriteManifest, Edit
  <1> QED  BY <1>1, <1>2, <1>3

LEMMA ViewsAreTrue ==
  ASSUME TypeOK, Bound, QueuesAreTrue, ApprovedMeansSeen, [Next]_vars,
         NEW t \in Tabs, NEW item \in view'[t], item.state = "approved"
  PROVE  AnyApproval(item.case, item.text)'
  <1>1. CASE view'[t] = view[t]
    BY <1>1, ApprovalsStay DEF ApprovedMeansSeen
  <1>2. CASE Show(t)
    <2>1. queue[t] # None /\ view'[t] = queue[t]
      BY <1>2 DEF Show, TypeOK
    <2> QED  BY <2>1, ApprovalsStay DEF QueuesAreTrue
  <1>3. CASE Write(t) /\ view' = [view EXCEPT ![t] = Decided(@, t)]
    <2>1. view'[t] = Decided(view[t], t)
      BY <1>3 DEF TypeOK
    <2>2. PICK old \in view[t] :
            item = IF old.case = writer[t].case
                   THEN Item(old.case, writer[t].text, writer[t].decision) ELSE old
      BY <2>1 DEF Decided
    <2>3. CASE item = old
      BY <2>3, ApprovalsStay DEF ApprovedMeansSeen
    <2>4. CASE item = Item(writer[t].case, writer[t].text, writer[t].decision)
      <3>1. PICK remains \in Remains : writer[t].at = "checked" /\ Left(t, remains)
        BY <1>3 DEF Write, Remains
      <3>2. /\ Len(ledger) \in Nat /\ Len(ledger') = Len(ledger) + 1
            /\ ledger'[Len(ledger) + 1] = Record(t, remains)
        BY <3>1, Grown DEF Writers
      <3>3. writer[t].seen = writer[t].text
        BY <3>1 DEF Bound
      <3>4. /\ item.case = writer[t].case /\ item.text = writer[t].text
            /\ writer[t].decision = "approved"
        BY <2>4 DEF Item
      <3> QED  BY <3>2, <3>3, <3>4 DEF AnyApproval, Record
    <2> QED  BY <2>2, <2>3, <2>4
  <1>4. \/ view'[t] = view[t] \/ Show(t)
        \/ Write(t) /\ view' = [view EXCEPT ![t] = Decided(@, t)]
    <2>1. ASSUME NEW u \in Tabs, Show(u) PROVE view'[t] = view[t] \/ Show(t)
      BY <2>1 DEF Show, TypeOK
    <2>2. ASSUME NEW w \in Writers, Write(w)
          PROVE  \/ view'[t] = view[t]
                 \/ Write(t) /\ view' = [view EXCEPT ![t] = Decided(@, t)]
      BY <2>2 DEF Write, TypeOK
    <2>3. ASSUME NEW w \in Writers, Check(w) PROVE view'[t] = view[t]
      BY <2>3 DEF Check, Refuse
    <2>4. ASSUME NEW u \in Tabs, Decide(u) PROVE view'[t] = view[t]
      BY <2>4 DEF Decide, Refuse
    <2> QED
      BY <2>1, <2>2, <2>3, <2>4
      DEF Next, Proceed, vars, pages, Ask, Answer, Submit, Enter, Command, WriteFails,
          ServerDies, OpenManifest, WriteManifest, Edit
  <1> QED  BY <1>1, <1>2, <1>3, <1>4

(***************************************************************************)
(* The manifest.                                                           *)
(***************************************************************************)
LEMMA StepManifests ==
  ASSUME [Next]_vars
  PROVE  \/ UNCHANGED <<draft, manifest>>
         \/ draft' = None /\ UNCHANGED manifest
         \/ OpenManifest
         \/ /\ draft # None /\ Selectable(draft.gold) /\ UNCHANGED ledger
            /\ manifest' = draft /\ draft' = None
  <1>1. ASSUME NEW w \in Writers, Proceed(w) PROVE UNCHANGED <<draft, manifest>>
    BY <1>1 DEF Proceed, Enter, Decide, Check, Write, WriteFails, selection
  <1> QED
    BY <1>1
    DEF Next, vars, selection, Ask, Answer, Show, Submit, Command, ServerDies,
        WriteManifest, Edit

LEMMA StepDrafts ==
  ASSUME TypeOK, DraftsAreOld, [Next]_vars
  PROVE  DraftsAreOld'
  <1>1. Len(ledger) \in Nat /\ Len(ledger') \in Nat /\ Len(ledger) <= Len(ledger')
    BY Kept
  <1>2. /\ draft # None => draft.recorded \in Nat
        /\ manifest # None => manifest.recorded \in Nat
    BY DEF TypeOK, Drafts
  <1>3. CASE OpenManifest
    BY <1>1, <1>3 DEF OpenManifest, DraftsAreOld
  <1> QED  BY <1>1, <1>2, <1>3, StepManifests DEF DraftsAreOld

LEMMA StepHonours ==
  ASSUME TypeOK, DraftsAreOld, ManifestHonoursRefusals, [Next]_vars
  PROVE  ManifestHonoursRefusals'
  <1>1. CASE UNCHANGED manifest
    <2> SUFFICES ASSUME manifest # None, NEW c \in Known(manifest.gold)
                 PROVE  \E i \in 1..Len(ledger') :
                          /\ ledger'[i].case = c /\ ledger'[i].decision = "approved"
                          /\ \A j \in (i + 1)..manifest.recorded : ledger'[j].case # c
      BY <1>1 DEF ManifestHonoursRefusals, Known
    <2>1. PICK i \in 1..Len(ledger) :
            /\ ledger[i].case = c /\ ledger[i].decision = "approved"
            /\ \A j \in (i + 1)..manifest.recorded : ledger[j].case # c
      BY DEF ManifestHonoursRefusals
    <2>2. manifest.recorded \in Nat /\ manifest.recorded <= Len(ledger)
      BY DEF TypeOK, Drafts, DraftsAreOld
    <2> QED  BY <2>1, <2>2, Kept
  <1>2. CASE /\ draft # None /\ Selectable(draft.gold) /\ UNCHANGED ledger
             /\ manifest' = draft
    <2> SUFFICES ASSUME NEW c \in Known(draft.gold)
                 PROVE  \E i \in 1..Len(ledger) :
                          /\ ledger[i].case = c /\ ledger[i].decision = "approved"
                          /\ \A j \in (i + 1)..draft.recorded : ledger[j].case # c
      BY <1>2 DEF ManifestHonoursRefusals, Known
    <2>1. PICK i \in 1..Len(ledger) : Latest(c, i) /\ ledger[i].decision = "approved"
      BY <1>2 DEF Selectable, Approved, Decides
    <2>2. draft.recorded \in Nat /\ draft.recorded <= Len(ledger)
      BY <1>2 DEF TypeOK, Drafts, DraftsAreOld
    <2>3. Len(ledger) \in Nat
      BY DEF TypeOK
    <2> QED  BY <2>1, <2>2, <2>3 DEF Latest
  <1> QED  BY <1>1, <1>2, StepManifests DEF OpenManifest

LEMMA ManifestWasSeen ==
  ASSUME TypeOK, Bound, ApprovedMeansSeen, [Next]_vars,
         manifest' # None, NEW c \in Known(manifest'.gold), NEW text,
         text = manifest'.gold[c]
  PROVE  AnyApproval(c, text)'
  <1>1. CASE UNCHANGED manifest
    <2>1. AnyApproval(c, text)
      BY <1>1 DEF ApprovedMeansSeen
    <2> QED  BY <2>1, ApprovalsStay
  <1>2. CASE draft # None /\ Selectable(draft.gold) /\ manifest' = draft
    <2>1. Approved(c, text)
      BY <1>2 DEF Selectable
    <2> QED  BY <2>1, ApprovedWasSeen, ApprovalsStay
  <1> QED  BY <1>1, <1>2, StepManifests DEF OpenManifest

LEMMA StepApprovals ==
  ASSUME TypeOK, Bound, QueuesAreTrue, ApprovedMeansSeen, [Next]_vars
  PROVE  ApprovedMeansSeen'
  <1>1. ASSUME NEW t \in Tabs, NEW item \in view'[t], item.state = "approved"
        PROVE  \E i \in 1..Len(ledger') :
                 /\ ledger'[i].case = item.case /\ ledger'[i].text = item.text
                 /\ ledger'[i].decision = "approved"
                 /\ ledger'[i].by \in Tabs => ledger'[i].seen = item.text
    BY <1>1, ViewsAreTrue DEF AnyApproval
  <1>2. ASSUME manifest' # None, NEW c \in Known(manifest'.gold)
        PROVE  \E i \in 1..Len(ledger') :
                 /\ ledger'[i].case = c /\ ledger'[i].text = manifest'.gold[c]
                 /\ ledger'[i].decision = "approved"
                 /\ ledger'[i].by \in Tabs => ledger'[i].seen = manifest'.gold[c]
    BY <1>2, ManifestWasSeen DEF AnyApproval
  <1> QED  BY <1>1, <1>2 DEF ApprovedMeansSeen, AnyApproval, Known

(***************************************************************************)
(* The theorems.                                                           *)
(***************************************************************************)
LEMMA InitInvariant == Init => IInv
  <1> SUFFICES ASSUME Init PROVE IInv
    OBVIOUS
  <1>1. TypeOK
    BY InitTyped
  <1>2. Locked /\ LockIsInUse /\ Bound /\ ChecksHold /\ OrderedOrRaced
    BY DEF Init, Idle, Inside, Locked, LockIsInUse, Bound, ChecksHold, OrderedOrRaced,
           Writers
  <1>3. QueuesAreTrue /\ DraftsAreOld /\ ManifestHonoursRefusals
    BY DEF Init, QueuesAreTrue, DraftsAreOld, ManifestHonoursRefusals
  <1>4. ApprovedMeansSeen
    BY DEF Init, Item, ApprovedMeansSeen
  <1> QED  BY <1>1, <1>2, <1>3, <1>4 DEF IInv

LEMMA StepInvariant == IInv /\ [Next]_vars => IInv'
  <1> SUFFICES ASSUME IInv, [Next]_vars PROVE IInv'
    OBVIOUS
  <1>1. /\ TypeOK /\ Locked /\ LockIsInUse /\ Bound /\ QueuesAreTrue
        /\ ApprovedMeansSeen /\ ChecksHold /\ OrderedOrRaced /\ DraftsAreOld
        /\ ManifestHonoursRefusals
    BY DEF IInv
  <1>2. TypeOK' /\ Locked' /\ LockIsInUse' /\ Bound'
    BY <1>1, StepTyped, StepLocks, StepBinds
  <1>3. QueuesAreTrue' /\ ApprovedMeansSeen'
    BY <1>1, StepQueues, StepApprovals
  <1>4. ChecksHold' /\ OrderedOrRaced'
    BY <1>1, StepChecks, StepOrders
  <1>5. DraftsAreOld' /\ ManifestHonoursRefusals'
    BY <1>1, StepDrafts, StepHonours
  <1> QED  BY <1>2, <1>3, <1>4, <1>5 DEF IInv

(* The strengthening of the four properties holds in every reachable state. *)
THEOREM Invariant == Spec => []IInv
  <1> QED  BY InitInvariant, StepInvariant, PTL DEF Spec

(* Gold files, records, requests, queues and pages always hold what the     *)
(* types of the code say.                                                   *)
THEOREM Typed == Spec => []TypeOK
  <1>1. IInv => TypeOK
    BY DEF IInv
  <1> QED  BY <1>1, Invariant, PTL

(* However late queues arrive and however gold files are edited, what a     *)
(* page or a manifest shows as approved was approved in that very text, in  *)
(* the workspace by someone who was shown it (submit_decision).             *)
THEOREM ApprovalsWereSeen == Spec => []ApprovedMeansSeen
  <1>1. IInv => ApprovedMeansSeen
    BY DEF IInv
  <1> QED  BY <1>1, Invariant, PTL

(* A manifest overlooks no refusal that was in the ledger when the command  *)
(* that builds it began (build_selection_manifest).                         *)
THEOREM ManifestsHonour == Spec => []ManifestHonoursRefusals
  <1>1. IInv => ManifestHonoursRefusals
    BY DEF IInv
  <1> QED  BY <1>1, Invariant, PTL

(* The write lock of the workspace is held by none but a request that is    *)
(* still at work (submit_decision).                                         *)
THEOREM LockIsReleased == Spec => []LockIsInUse
  <1>1. IInv => LockIsInUse
    BY DEF IInv
  <1> QED  BY <1>1, Invariant, PTL

LEMMA OrderedIsReadable ==
  ASSUME TypeOK, OrderedOrRaced
  PROVE  LedgerStaysReadable
  <1> SUFFICES ASSUME \A i \in 1..Len(ledger) : ledger[i].remains = "line",
                      \A i \in 2..Len(ledger) :
                        ~(Overtaken(i) /\ {ledger[i - 1].by, ledger[i].by} \cap Clis # {})
               PROVE  Readable
    BY DEF LedgerStaysReadable
  <1>1. \A i \in 1..Len(ledger) : Legible(i)
    BY DEF TypeOK, Legible, Ended
  <1>2. Chronological
    BY DEF OrderedOrRaced, Chronological
  <1> QED  BY <1>1, <1>2 DEF Readable

(* No interleaving of requests, and no clock that is set back, makes a      *)
(* ledger unreadable: it takes a broken line or a review command that races *)
(* another writer (append_review_record under the lock of the workspace).   *)
THEOREM LedgerReadable == Spec => []LedgerStaysReadable
  <1>1. IInv => LedgerStaysReadable
    BY OrderedIsReadable DEF IInv
  <1> QED  BY <1>1, Invariant, PTL
=============================================================================
