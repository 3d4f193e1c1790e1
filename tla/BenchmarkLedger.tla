--------------------------- MODULE BenchmarkLedger ---------------------------
(***************************************************************************)
(* The append-only ledger of benchmark reviews and all who touch it:       *)
(*   backend/app/services/evaluation_review.py   the workspace of the API  *)
(*   backend/app/evaluation/review.py            load, append, apply       *)
(*   backend/app/evaluation/review_cli.py        the same without its lock *)
(*   backend/app/evaluation/dataset.py, dataset_cli.py  the manifest       *)
(*   frontend/src/ReviewWorkspace.tsx            what a reviewer looks at  *)
(*                                                                         *)
(* Gold files are edited by hand at any time, the clock of the host may be *)
(* set back, an append may be cut short, and the API process may die.      *)
(* A text stands for all that gold_case_fingerprint covers.                *)
(***************************************************************************)
EXTENDS Naturals, Sequences, FiniteSets

CONSTANTS
  Cases, Texts,  \* gold cases, and the versions a case may have
  Tabs,          \* browser tabs, each with at most one submission under way
  Clis,          \* runs of the review command
  Times,         \* what the clock of the host may read, in any order
  MinimumCases,  \* MINIMUM_SELECTION_CASES
  MaxSent, MaxEdits, MaxLoads,  \* bounds: decisions, edits of gold files, page loads
  Malformed,     \* a version that the model of gold cases refuses
  None           \* nobody, nothing, no such case

ASSUME WritersAssumption == Tabs \cap Clis = {} /\ None \notin Tabs \cup Clis
ASSUME TimesAssumption == Times \subseteq Nat /\ Times # {}
ASSUME TextsAssumption == None \notin Texts /\ Malformed \notin Texts \cup {None}

VARIABLES
  gold,      \* case -> its text in the gold files, Malformed or None
  ledger,    \* the records ever written to the file, in order
  lock,      \* holder of the write lock of the workspace, or None
  writer,    \* submission or command -> where it is and what it holds
  asked,     \* tab -> the gold cases its queue request has read, or None
  queue,     \* tab -> the queue on its way to the tab, or None
  view,      \* tab -> the queue it shows
  draft,     \* what a manifest command has read, or None
  manifest,  \* the manifest written last, or None
  sent, edits, loads

vars == <<gold, ledger, lock, writer, asked, queue, view, draft, manifest,
          sent, edits, loads>>
pages == <<asked, queue, view, loads>>
selection == <<draft, manifest>>

Writers == Tabs \cup Clis

(* "rejected" stands for changes_requested too: neither approves.           *)
Decisions == {"approved", "rejected"}

(* What an append leaves in the file: its line; its line without the line   *)
(* end; a part of it; or a line that splitlines() takes for several, for    *)
(* the notes held a line separator that JSON does not escape.               *)
Remains == {"line", "unended", "part", "split"}

Idle == [at |-> "idle"]

(***************************************************************************)
(* Reading the files.                                                      *)
(***************************************************************************)
(* One case that fails validation, and no gold file can be loaded.          *)
Valid(g) == \A c \in Cases : g[c] # Malformed

Known(g) == {c \in Cases : g[c] # None}

Ended(i) == ledger[i].remains \in {"line", "split"}

(* A record parses when it is alone on its line.                            *)
Legible(i) ==
  /\ ledger[i].remains \in {"line", "unended"}
  /\ i > 1 => Ended(i - 1)
  /\ i < Len(ledger) => Ended(i)

Chronological ==
  \A i \in 2..Len(ledger) : ledger[i - 1].time <= ledger[i].time

(* load_review_records: one bad line, and nothing is loaded.                *)
Readable == (\A i \in 1..Len(ledger) : Legible(i)) /\ Chronological

(* _load: a record of a case that the gold files no longer hold is refused. *)
Loads(g) ==
  /\ Valid(g) /\ Readable
  /\ \A i \in 1..Len(ledger) : ledger[i].case \in Known(g)

Latest(c, i) ==
  /\ ledger[i].case = c
  /\ \A j \in (i + 1)..Len(ledger) : ledger[j].case # c

(* The latest record of the case decides, and is about this very text.      *)
Decides(c, text, decision) ==
  \E i \in 1..Len(ledger) :
    Latest(c, i) /\ ledger[i].text = text /\ ledger[i].decision = decision

(* Mutant: an approval counts, whatever was decided after it.               *)
ApprovedOnce(c, text) ==
  \E i \in 1..Len(ledger) :
    ledger[i].case = c /\ ledger[i].decision = "approved" /\ ledger[i].text = text

Approved(c, text) == Decides(c, text, "approved")

State(c, text) ==
  CASE Approved(c, text) -> "approved"
    [] Decides(c, text, "rejected") -> "rejected"
    [] \A i \in 1..Len(ledger) : ledger[i].case # c -> "pending"
    [] OTHER -> "stale"

Item(c, text, state) == [case |-> c, text |-> text, state |-> state]

Queue(g) == {Item(c, g[c], State(c, g[c])) : c \in Known(g)}

(***************************************************************************)
(* The page of a reviewer.                                                 *)
(***************************************************************************)
Ask(t) ==
  /\ asked[t] = None /\ queue[t] = None /\ loads < MaxLoads
  /\ loads' = loads + 1
  /\ asked' = [asked EXCEPT ![t] = gold]
  /\ UNCHANGED <<gold, ledger, lock, writer, queue, view, selection, sent, edits>>

(* The gold files are read before the ledger, with no lock.                 *)
Answer(t) ==
  /\ asked[t] # None
  /\ queue' = [queue EXCEPT ![t] = IF Loads(asked[t]) THEN Queue(asked[t]) ELSE {}]
  /\ asked' = [asked EXCEPT ![t] = None]
  /\ UNCHANGED <<gold, ledger, lock, writer, view, loads, selection, sent, edits>>

(* Queues replace the view whenever they arrive, decided since or not.      *)
Show(t) ==
  /\ queue[t] # None
  /\ view' = [view EXCEPT ![t] = queue[t]]
  /\ queue' = [queue EXCEPT ![t] = None]
  /\ UNCHANGED <<gold, ledger, lock, writer, asked, loads, selection, sent, edits>>

(***************************************************************************)
(* A submission.  Approvals without a complete checklist and reviewers     *)
(* with a reserved name are refused before the workspace is asked.         *)
(***************************************************************************)
Submit(t) ==
  /\ writer[t] = Idle /\ sent < MaxSent
  /\ sent' = sent + 1
  /\ \E item \in view[t], d \in Decisions :
       writer' = [writer EXCEPT ![t] =
         [at |-> "queued", case |-> item.case, seen |-> item.text, decision |-> d]]
  /\ UNCHANGED <<gold, ledger, lock, pages, selection, edits>>

(* Mutant: each request makes a workspace, with a lock of its own.          *)
LockPerRequest == TRUE

Free == lock = None

(* The lock is taken, and the gold files are read.                          *)
Enter(t) ==
  /\ writer[t].at = "queued"
  /\ Free
  /\ lock' = t
  /\ writer' = [writer EXCEPT ![t] =
       [at |-> "entered", case |-> @.case, seen |-> @.seen, decision |-> @.decision,
        gold |-> gold]]
  /\ UNCHANGED <<gold, ledger, pages, selection, sent, edits>>

(* Mutant: the lock is released at the end of submit_decision only.         *)
LeaveLocked(w) ==
  /\ writer' = [writer EXCEPT ![w] = Idle]
  /\ UNCHANGED lock

(* Whatever is raised, the lock is released.                                *)
Leave(w) ==
  /\ writer' = [writer EXCEPT ![w] = Idle]
  /\ lock' = IF lock = w THEN None ELSE lock

Refuse(w) == Leave(w) /\ UNCHANGED <<ledger, view>>

(* Mutant: the fingerprint of the request is not compared.                  *)
MayDecideBlindly(t) ==
  /\ Loads(writer[t].gold)
  /\ writer[t].gold[writer[t].case] # None

(* get_case, and the comparison of fingerprints.                            *)
MayDecide(t) ==
  /\ Loads(writer[t].gold)
  /\ writer[t].gold[writer[t].case] = writer[t].seen

(* create_review_record: bound to the case that was loaded, and timed.      *)
Stamped(case, seen, text, decision, time) ==
  [at |-> "stamped", case |-> case, seen |-> seen, text |-> text,
   decision |-> decision, time |-> time]

Decide(t) ==
  /\ writer[t].at = "entered"
  /\ \/ /\ MayDecide(t)
        /\ \E time \in Times : writer' = [writer EXCEPT ![t] =
             Stamped(@.case, @.seen, @.gold[@.case], @.decision, time)]
        /\ UNCHANGED <<ledger, lock, view>>
     \/ ~MayDecide(t) /\ Refuse(t)
  /\ UNCHANGED <<gold, asked, queue, loads, selection, sent, edits>>

(* The review command loads the one file it is given, which may hold any    *)
(* version of a case, known to the workspace or not, and stamps its record, *)
(* with no lock and no fingerprint: nobody knows what its user has seen.    *)
Command(w) ==
  /\ writer[w] = Idle /\ sent < MaxSent
  /\ sent' = sent + 1
  /\ \E c \in Cases, text \in Texts, d \in Decisions, time \in Times :
       writer' = [writer EXCEPT ![w] = Stamped(c, None, text, d, time)]
  /\ UNCHANGED <<gold, ledger, lock, pages, selection, edits>>

(***************************************************************************)
(* append_review_record, of both.                                          *)
(***************************************************************************)
InOrder(w) == Len(ledger) > 0 => ledger[Len(ledger)].time <= writer[w].time

Check(w) ==
  /\ writer[w].at = "stamped"
  /\ \/ /\ Readable /\ InOrder(w)
        /\ writer' = [writer EXCEPT ![w] =
             [at |-> "checked", case |-> @.case, seen |-> @.seen, text |-> @.text,
              decision |-> @.decision, time |-> @.time, after |-> Len(ledger)]]
        /\ UNCHANGED <<ledger, lock, view>>
     \/ ~(Readable /\ InOrder(w)) /\ Refuse(w)
  /\ UNCHANGED <<gold, asked, queue, loads, selection, sent, edits>>

Record(w, remains) ==
  [case |-> writer[w].case, seen |-> writer[w].seen, text |-> writer[w].text,
   decision |-> writer[w].decision, time |-> writer[w].time,
   after |-> writer[w].after, by |-> w, remains |-> remains]

Left(w, remains) == ledger' = Append(ledger, Record(w, remains))

Decided(items, w) ==
  {IF item.case = writer[w].case
   THEN Item(item.case, writer[w].text, writer[w].decision) ELSE item : item \in items}

(* The record is written, flushed and synced; the answer reaches the tab,   *)
(* or is lost.                                                              *)
Write(w) ==
  /\ writer[w].at = "checked"
  /\ \E remains \in {"line", "split"} : Left(w, remains)
  /\ \/ w \in Tabs /\ view' = [view EXCEPT ![w] = Decided(@, w)]
     \/ UNCHANGED view
  /\ Leave(w)
  /\ UNCHANGED <<gold, asked, queue, loads, selection, sent, edits>>

(* Opening, writing or syncing fails, after any part of the record was      *)
(* written: the failure is answered.  A command may die here as well.       *)
WriteFails(w) ==
  /\ writer[w].at = "checked"
  /\ UNCHANGED ledger \/ \E remains \in Remains : Left(w, remains)
  /\ Leave(w)
  /\ UNCHANGED <<gold, pages, selection, sent, edits>>

(* The API process dies with all its requests, and its lock.                *)
ServerDies ==
  /\ \E t \in Tabs : writer[t] # Idle
  /\ \/ UNCHANGED ledger
     \/ \E t \in Tabs, remains \in Remains :
          writer[t].at = "checked" /\ Left(t, remains)
  /\ writer' = [w \in Writers |-> IF w \in Tabs THEN Idle ELSE writer[w]]
  /\ lock' = None
  /\ asked' = [t \in Tabs |-> None]
  /\ UNCHANGED <<gold, queue, view, loads, selection, sent, edits>>

(***************************************************************************)
(* The manifest of a selection dataset.                                    *)
(***************************************************************************)
OpenManifest ==
  /\ draft = None /\ manifest = None
  /\ draft' = [gold |-> gold, recorded |-> Len(ledger)]
  /\ UNCHANGED <<gold, ledger, lock, writer, pages, manifest, sent, edits>>

(* apply_latest_reviews and build_selection_manifest.                       *)
Selectable(g) ==
  /\ Loads(g)
  /\ Cardinality(Known(g)) >= MinimumCases
  /\ \A c \in Known(g) : Approved(c, g[c])

(* Whether the cases cover enough is left open, and so are their splits.    *)
WriteManifest ==
  /\ draft # None
  /\ \/ Selectable(draft.gold) /\ manifest' = draft
     \/ UNCHANGED manifest
  /\ draft' = None
  /\ UNCHANGED <<gold, ledger, lock, writer, pages, sent, edits>>

(***************************************************************************)
(* The world.                                                              *)
(***************************************************************************)
Edit ==
  /\ edits < MaxEdits
  /\ edits' = edits + 1
  /\ \E c \in Cases, text \in Texts \cup {Malformed, None} :
       gold[c] # text /\ gold' = [gold EXCEPT ![c] = text]
  /\ UNCHANGED <<ledger, lock, writer, pages, selection, sent>>

(* The tabs have loaded the queue of a ledger that is still empty.          *)
Init ==
  /\ gold \in [Cases -> Texts]
  /\ ledger = <<>>
  /\ lock = None
  /\ writer = [w \in Writers |-> Idle]
  /\ asked = [t \in Tabs |-> None]
  /\ queue = [t \in Tabs |-> None]
  /\ view = [t \in Tabs |-> {Item(c, gold[c], "pending") : c \in Cases}]
  /\ draft = None /\ manifest = None
  /\ sent = 0 /\ edits = 0 /\ loads = 0

Proceed(w) ==
  \/ w \in Tabs /\ (Enter(w) \/ Decide(w))
  \/ Check(w) \/ Write(w) \/ WriteFails(w)

Next ==
  \/ \E t \in Tabs : Ask(t) \/ Answer(t) \/ Show(t) \/ Submit(t)
  \/ \E w \in Clis : Command(w)
  \/ \E w \in Writers : Proceed(w)
  \/ ServerDies \/ OpenManifest \/ WriteManifest \/ Edit

Spec == Init /\ [][Next]_vars

(***************************************************************************)
(* Properties.                                                             *)
(***************************************************************************)
AnyApproval(c, text) ==
  \E i \in 1..Len(ledger) :
    /\ ledger[i].case = c /\ ledger[i].text = text /\ ledger[i].decision = "approved"
    /\ ledger[i].by \in Tabs => ledger[i].seen = text

(* A case that a page shows as approved, or a manifest assigns, was         *)
(* approved by someone in exactly that text, and if it was approved in the  *)
(* workspace, by someone who was shown exactly that text: however late      *)
(* queues and decisions arrive and however often the gold files are edited  *)
(* (submit_decision, _snapshot, build_selection_manifest).                  *)
ApprovedMeansSeen ==
  /\ \A t \in Tabs : \A item \in view[t] :
       item.state = "approved" => AnyApproval(item.case, item.text)
  /\ manifest # None =>
       \A c \in Known(manifest.gold) : AnyApproval(c, manifest.gold[c])

(* Two neighbours of which the later was checked before the earlier was     *)
(* there.                                                                   *)
Overtaken(i) == ledger[i].after < i - 1

(* The ledger can be loaded unless an append was cut short or held a line   *)
(* separator, or a review command raced another writer: requests of the     *)
(* workspace never make it unreadable between them, and setting the clock   *)
(* back does not either (append_review_record under the write lock).        *)
LedgerStaysReadable ==
  \/ Readable
  \/ \E i \in 1..Len(ledger) : ledger[i].remains # "line"
  \/ \E i \in 2..Len(ledger) :
       Overtaken(i) /\ {ledger[i - 1].by, ledger[i].by} \cap Clis # {}

(* A manifest overlooks no decision: the cases it assigns were not refused  *)
(* by a later decision that was in the ledger when the command started      *)
(* (apply_latest_reviews, build_selection_manifest).                        *)
ManifestHonoursRefusals ==
  manifest # None =>
    \A c \in Known(manifest.gold) : \E i \in 1..Len(ledger) :
      /\ ledger[i].case = c /\ ledger[i].decision = "approved"
      /\ \A j \in (i + 1)..manifest.recorded : ledger[j].case # c

(* A submission never waits for nobody: as long as the lock is taken, its   *)
(* holder is a request that is still reading or writing, whatever was       *)
(* refused, failed or died before (submit_decision).                        *)
LockIsInUse ==
  lock # None => lock \in Tabs /\ writer[lock].at \in {"entered", "stamped", "checked"}
=============================================================================
