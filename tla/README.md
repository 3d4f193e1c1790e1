# Neuro_Bus: a verification project in TLA+

Neuro_Bus collects public pages as evidence, extracts claims from them with a model, reasons over
the claims of several sources and writes cited reports. This directory holds TLA+ models of its
concurrent core, the TLC runs that check them, and TLAPS proofs about them. Paths below are relative
to `src/backend/app/` unless they say otherwise.

## 1. Inventory

| Component | Code | State it keeps | Operations |
|---|---|---|---|
| Connector job queue | `services/connector_jobs.py`, `core/models.py` | rows of `connector_jobs` (status, lease owner and expiry, document), state of the run | claim, reclaim, finish |
| Connector worker | `workers/connector.py` | the job it executes, its outcome and document; lost when the process ends | poll, collect, capture, report |
| Job submission | `services/connector_jobs.py`, `api/routes/connectors.py` | idempotency hash and request hash of each row | create, or recall a job by its key |
| Evidence storage | `services/storage.py`, `api/routes/storage.py`, `domain/provenance.py` | sources with a publisher family, documents, passages, provenance links | capture, link, project/question/run inserts |
| Web connector | `services/web_connector.py` | phase and attempt of each collection, robots rules | collect: robots, attempts, backoff, parse |
| Host rate limiter | `services/web_connector.py` | per host a lock and the time of the last request, per process | wait |
| Source fetcher, policy | `providers/http_source.py`, `domain/source_policy.py` | current hop and visited URLs of a fetch | fetch with redirects, under a timeout |
| PDF parser | `services/pdf_parser.py` | none | parse in a thread, with a time limit |
| Extraction | `services/extraction.py`, `domain/extraction.py`, `services/entity_resolution.py`, `api/routes/extraction.py` | model executions, entities, claims, evidence links, claim reviews | extract, resolve an entity, review a claim |
| Model providers | `providers/openai_responses.py` | none | one awaited request |
| Reasoning | `services/reasoning.py`, `domain/independence.py`, `domain/scoring.py` | clusters and scores of a run, its metrics | rebuild clusters, score |
| Insight reports | `services/insights.py`, `domain/reporting.py` | insights, statements, citations | generate (idempotent by fingerprint), export |
| Benchmark review | `evaluation/review.py`, `services/evaluation_review.py`, `evaluation/review_cli.py` | an append-only ledger file | list, submit a decision, append from the CLI |
| Benchmark evaluation | `evaluation/` (the rest) | files | batch metrics |
| Application shell | `main.py`, `core/`, `services/readiness.py` | settings, one engine | wiring, health |
| Frontend | `src/frontend/src/` | the loaded report, the review queue | load, refresh, submit a decision |

**How they interact.** The API, the workers and the CLI share nothing but the database and, for
the benchmark, one file. The API commits a queued job and answers; a worker claims it in one
transaction, collects outside any transaction, captures the page in a second transaction and
records the outcome in a third. Captures of workers and of the API meet in the tables of the
evidence store. Inside one process the collections share the rate limiter. Extraction, reasoning
and reports are requests of the API that read what the earlier ones committed.

**What is hard, and what makes each part correct.**

* *Queue and worker*: leases that expire under a live worker, a worker that dies between its two
  commits, a late answer after a reclaim, rows selected without locks. Correct means: a job is
  settled at most once, by the owner of its lease, with evidence of its own; a lease that has not
  expired is respected; an abandoned job is settled in the end.
* *Submission*: two requests with one key, lost responses, an insert that the database refuses.
  Correct means: as if each request were decided in one step, and every repeat is told of the job of
  its key. The code falls short of the last for requests that race (section 4).
* *Evidence store*: decisions on rows that were read earlier, inserts that meet a unique
  constraint. Correct means: answers are true, a declared publisher family stays, retries converge.
* *Connector and limiter*: tasks that wait for one host while their timeouts run, redirects and
  retries that leave what was verified, crawl delays. Correct means: requests are spaced, robots
  rules hold on every hop, every collection ends within a known time.
* *Extraction*: a provider awaited for a minute between lookup and insert, entities that several
  transactions insert or merge in any order. Correct means: readers see whole accepted answers or
  nothing, duplicates and lost aliases need requests that overlap, every request ends.
* *Grouping and scoring*: a union-find that meets documents and signals in any order, thresholds.
  Correct means: groups are the connected components, and dependence never adds strength.
* *Reasoning and reports*: clusters rebuilt while claims are reviewed and reports are generated.
  Correct means: labels follow from the citations shown; one report per fingerprint.
* *Ledger*: writers in several processes, a torn line, a clock that goes back, pages that load
  late. Correct means: what was appended stays loadable, and a decision counts only for the text it
  was made about.

`PROJECT.json` lists every component with its status and every hazard at the line where it bites.

## 2. Modules

| Module | Models | State ↔ code |
|---|---|---|
| `JobBoard` | what a client that polls a job may rely on (abstract) | `verdict`, `evidence`, `store` |
| `ConnectorQueue` | queue rows, worker processes and the captures they commit; implements `JobBoard` | `status`, `lease_owner`, `lease_left`, `document_id` are columns; `run_state` is `analysis_runs.state`; `documents` the table; `pc`, `held`, `lag`, `outcome`, `document`, `source_seen` the local state of a worker |
| `IdempotentSubmission` | submission decided in one step (abstract) | `jobs`, `decision` |
| `JobSubmission` | `create_connector_job`, one task per request; implements `IdempotentSubmission` | `jobs` are committed rows, `decision` what the task will answer, `heard` is history: who had ended when a request looked its key up |
| `EvidenceStore` | `capture_document`, `apply_publisher_family`, `record_provenance_link` as transactions | `family`, `documents`, `links` are tables; `target`, `seen` what a session has read |
| `WebConnector` | `collect`, `HostRateLimiter.wait`, `SafeSourceFetcher.fetch` for several tasks of a process | `lock`, `since` are the limiter; `phase`, `fetch`, `nap`, `attempt`, `rules`, `outcome` the tasks |
| `ExtractionRuns` | `extract_document`, `validate_provenance`, `resolve_entity` as transactions around an awaited provider | `aliases` are the rows of `entities`, `claims` claims with their evidence links, `pc` also the status of the `model_executions` row; `tx` a session: loaded rows, pending change, locks |
| `Independence`, `Scoring` | what `assign_independence_groups` promises, and `aggregate_cluster`; operators only | |
| `EvidenceScoring` | the union-find of `assign_independence_groups` step by step, then one aggregation; checked against `Independence` | `parents`, `owners` as in the code; `todo` what its loops have left |
| `ReasoningReports` | `review_claim`, `reason_over_run`, `generate_insight` of one run, over `Independence` and `Scoring` | `status`, `member` are columns of `claims`, `clusters` the clusters with their scores, `reports` the fingerprints of `insights`; `mind` a session |
| `BenchmarkLedger` | workspace, review command, ledger file, manifest command, and the review page of the frontend | `ledger` is the file, `gold` the gold files, `lock` the `_write_lock`; `writer` a submission or command; `asked`, `queue`, `view` the page |
| `MC*` | instances for TLC | |
| `*Proofs` | theorems with TLAPS proofs, one module per component; `ReasoningReportsProofs` extends `EvidenceScoringProofs` | |

An action is a stretch of code between two awaits at which another process, thread or task can get
in, or one commit: `ClaimSelect` is the SELECT of `claim_connector_job`, `ClaimUpdate` its UPDATE,
the change of the run and the commit, `Finish` the guarded terminal UPDATE. Reads of a transaction
are steps of their own where what they saw can be out of date when it commits. An exception that
nothing handles ends the process (`CaptureRejected`, `CaptureCollision`) or the request
(`JobSubmission!InsertRefused`, `WriteFails`, `Abort`). The modules compose where the code does: `ReasoningReports` and `EvidenceScoring` extend the
same `Independence` and `Scoring`, so what one run shows of a score is what the other cites.

**The database.** Transactions run at READ COMMITTED, PostgreSQL's default, which the code does not
change. A statement sees what is committed when it starts; SQLAlchemy keeps the attributes of a row
that a session has loaded and writes only attributes that differ from them, and a rollback expires
them, `expire_on_commit=False` or not; an `AsyncSession` cannot load an expired attribute when it is
merely read (`MissingGreenlet`). `create_connector_job` is the one place that reads a row after a
rollback: its line 61 raises, and lines 62-66 are never reached. Hence `tx.read` and
`tx.view` in `ExtractionRuns` and `Column`, `StatusWritten`, `MemberWritten` in `ReasoningReports`:
a write that equals the stale value is no write. In `ExtractionRuns` uncommitted rows are locked, a
second insert of one identity waits and then fails, and of a cycle of waiting transactions one is
aborted (`Deadlocked`); these three are PostgreSQL's part and marked external in `map`.

**Abstractions.** A URL, a page, a family, a key, a payload are model values. Time is relative:
only the differences that the code compares are kept (`lease_expires_at - now`, the age of
`claimed_at`, the age of the last request to a host). A timer goes off when it is due. In
`ConnectorQueue` a job has one page, the one its collection ends at, and a page has one source;
whether a declared family conflicts there is left open, `EvidenceStore` says when it does. A
collected page is one of `Contents`; `Unstorable` are those that `DocumentCapture` or the database
rejects, for example for a title of over 500 characters. In `WebConnector` the policy's checks of
addresses and the text of a URL are the set `Forbidden`, a robots file is what it allows and its
delay, and a response is any of those that the code tells apart. In `ExtractionRuns` names and aliases
are numbers in the order of their normalized spelling, an answer is a record of entities and claims
that may break each rule of `validate_provenance`, and a provider's failure is one action whatever its
cause. `Scoring` computes in exact fractions where the code uses floating point; the quality of an
item is given. In `ReasoningReports` the write phase of a transaction is one step, because its row
locks order it against the others; what no longer fits then fails (`Clashes`, `InsertRefused`). In
`BenchmarkLedger` a text stands for all that a fingerprint covers, decisions are "approved" or
"rejected" (which stands for "changes_requested" too), every stamp may read any time, `Malformed` is a
gold case that `GoldCase` refuses, all cases are from public sources (synthetic ones cannot be
reviewed), and an append leaves its line, its line without an end, a part of it, or a line that
`splitlines()` takes for several.

## 3. Runs

| Run | Specification and instance | What it shows |
|---|---|---|
| `queue_race` | `Spec`; 3 jobs for one page (one of them a legacy row), 3 identities, 1 or 2 processes, row locks, 1 kill | rows, runs and reports stay consistent under every interleaving of claims, expiries, late answers, captures and the kill; `ImplementsBoard` |
| `queue_live` | `FairSpec`; 2 jobs with pages of their own, no row locks, 1 or 2 processes, executions end before leases when there are 2 | a row that two workers selected goes to one, exclusive execution, no stray document without a kill, every job settles |
| `queue_poison` | `FairSpec`; one process, no kill, a page that cannot be stored | **violation** of `EveryJobSettles` |
| `submission` | a request, its retry, a reuse of the key, another run, no key; any of them lost | answers agree on one job, failing takes a race (`RepeatsFindTheJob`), one-step decisions (`ImplementsAtomic`) |
| `store` | `FairSpec`; 4 captures (two of one document under two spellings, three declared families in two classes, two sources), 3 links (two equal, one to itself) | answers, stale reads, convergence |
| `store_family` | 3 captures of one source that declare different families | **violation** of `FamilyIsNeverReplaced` |
| `collect` | `FairSpec`; 2 collections of one page and a refused one, 3 robots files, 7 pages on 3 origins, one redirect, two attempts | spacing, robots, bounded time, termination |
| `collect_delay` | 2 collections of a site with a crawl delay | **violation** of `CrawlDelayKept` |
| `extraction` | `FairSpec`; 3 requests for one document, 1 for another; 1 valid and 8 refused answers for the first, 2 for the second, over 2 entities and 4 names | whole answers or nothing, who may duplicate, who may lose an alias, every request ends |
| `scoring` | 3 documents, 6 profiles of signals, every order of documents and signals, then 3 links with any of 6 readings | components and their names, dependence, direction of evidence |
| `reports` | 2 reasonings, 2 generators, 2 reviews, 2 database connections; 3 claims in 2 clusters, 5 links | reviews, members, citations, unique reports |
| `ledger` | 1 case in 2 versions (or malformed, or gone), 2 tabs, 1 review command, 1 manifest, a clock of 2 readings; 2 decisions, 1 edit, 1 page load | approvals, readability, manifests, the lock |

**Bounds, and why they are enough.** `MaxProcesses` = 2: every race of the queue is between an
owner and one other worker; a third identity is there so that a dead worker is replaced while its
row still names it. `MaxCrashes` = 1 and expiry without a crash give every order of kill, reclaim
and late answer for one job. `LeaseTicks` = 2 and `MaxLag` = 1 are the smallest at which a lease
can expire during an execution and a claim transaction can be older than the lease it meets;
`lease_left` is kept at `-MaxLag` because no comparison tells lower values apart. In `collect`
`Timeout` = 2 is longer than the minimum interval and as long as the crawl delay, so a fetch may or
may not get its turn in time, `MaxRedirects` = 1 and `MaxAttempts` = 2 reach both sides of each
limit, and the robots files are one that allows all but a page with a delay at the limit, one that
allows only another page, one with a delay over the limit. `ParseTimeout` = 1 tick. `since` stops
counting at `LongestInterval`, beyond which no caller waits. In `extraction` three requests for one
document reach the lookup that finds two rows; the other document names the same two entities in the
opposite order (deadlock), by an alias, and twice. In `scoring` three documents are the fewest in which
two are connected only through the third, and the profiles use every kind of signal. In `reports`
`Pool` is the number of database connections, so two requests run into each other in every
combination of kinds while the other four come before or after; the run starts unreasoned or
reasoned once, so clusters are both inserted and updated. In `ledger` two decisions are a race, or a
decision and its revision, and one edit with one page load brings a late queue; the tabs start with
the queue of an empty ledger. The proofs remove the bounds for the
properties listed below.

`CHECK_DEADLOCK FALSE` is set where every instance ends: all jobs settled, all requests answered.

**Fairness.** `ConnectorQueue!FairSpec`: a worker that can take a step takes one (the loop of
`run_forever` has no exit but the stop event), the clock goes on, and a dead worker is started
again; the repository has no supervisor, so the last is an assumption about the deployment and is
what makes reclaiming mean anything (`docs/14_PUBLIC_WEB_CONNECTOR.md:31`). `EvidenceStore!FairSpec`:
transactions end and a failed request is sent again. `WebConnector!FairSpec`: the event loop runs
ready tasks and time passes; a site need *not* answer, a request is answered or timed out.
`ExtractionRuns!FairSpec`: each request goes on when it can, because the provider has a timeout
(`providers/openai_responses.py`) and the database ends waits by a commit, a rollback or a deadlock
victim.

**Assumption `Punctual`.** `ExclusiveExecution` needs executions to end before their leases.
`WebConnector!TimeBounded` gives the bound: one timeout for robots, one per attempt, the backoffs
and the parser, with the default settings 15 + 3·15 + 1.5 + 10 = 71.5 s, against a default lease of
300 s. The settings allow a lease of 30 s, for which the assumption fails. `queue_race` does not
assume it.

## 4. Disagreements found

* `queue_poison` – `docs/14_PUBLIC_WEB_CONNECTOR.md:10` promises exactly one terminal state. The
  worker handles only `SourceMetadataConflict` around the capture (`workers/connector.py:88`). A
  page whose title has over 500 characters fails in `DocumentCapture`, the process ends, the lease
  expires, and the next process does the same.
* `store_family` – `docs/04_API_CONTRACT.md:99` says a conflicting family is answered with `409`.
  Two captures that both read the source without a family both succeed; the later declaration
  replaces the earlier (`services/storage.py:42`). `FamilyYieldsOnlyToStaleReads` shows, and is
  proved, that this is the only way.
* `collect_delay` – `docs/14_PUBLIC_WEB_CONNECTOR.md:53` and `:58` say that the crawl delay is
  honoured for all requests to a host. The robots request of the next collection waits for the
  minimum interval only (`services/web_connector.py:338`).
One disagreement has no run of its own, for the step that shows it is part of `JobSubmission`.
`docs/14_PUBLIC_WEB_CONNECTOR.md:35-37` says that repeating a key returns the original job or a `409`. Of
two requests that both miss the lookup the database refuses one insert; the rollback expires the run,
the read of `run.id` raises, and that request ends in a 500 (`services/connector_jobs.py:61`). The model
takes this step (`InsertRefused`), which also means that `OneJobPerKey` speaks only of requests that were
answered. `RepeatsFindTheJob` shows, and is proved, that failing takes a race: a request that looks its
key up after the other had ended is answered, so repeating after the 500 is enough; and
`ImplementsAtomic` that a failed request has changed nothing.

Weaknesses that no document denies are stated as what the properties leave open. Two overlapping
extractions of a document are both accepted, and every later one raises (`DuplicatesOverlap` says that
it takes an overlap). An alias is lost when two requests merge into one entity
(`AliasesYieldOnlyToStaleReads`). A review that equals the status its session had loaded writes
nothing, so a decision answered last need not stand if it overlapped another (`LastReviewDecides`).
`EvidencePullsItsWay` holds the independence groups fixed; reasoning assigns them anew
(`services/reasoning.py:80-101`), so a supporting document that connects two groups may lower a
confidence. The review command takes any gold file, and a record of a case that the workspace does not
hold makes every load of the workspace fail. A
report that overlaps a review or a reasoning may cite other evidence than its label rests on
(`ReportsCiteWhatWasScored`). A ledger becomes unreadable, until it is edited by hand, by a torn
append, by notes with a line separator such as U+2028, or by a review command that appends between
the check and the append of another writer (`LedgerStaysReadable`). When the clock is set back,
decisions are refused until it has caught up, and nothing else breaks.

## 5. Proofs

TLAPS proves, for every value of the constants that the named assumptions allow (sets of jobs,
workers, requests and captures of any size, any lease length, any number of kills):

* `ConnectorQueueProofs` – `TypeOK`, `OwnerAccountable`, `ReportsOwnEvidence`, `RunFollowsJobs`,
  `OnlyOwnerSettles`, `LiveLeaseKept`, `ImplementsBoard`; `ExclusiveExecution` and
  `FailureLeavesNoDocument` under `Punctual`.
  The inductive invariant is `TypeOK /\ Carries /\ OwnerAccountable /\ ReportsOwnEvidence`.
  `OwnerAccountable` says that a row is owned exactly while it runs and that a live owner executes
  it; it is inductive because an identity is reused only when no row mentions it. `Carries` says
  what a worker has at each place: a submitted job, a capture of that job, a storable one before the
  insert. Without it neither the evidence of a report nor its refinement into `JobBoard` follows.
  Exclusive execution adds that at most one process runs, or every executing worker still owns its
  row with time left on the lease. `FailureLeavesNoDocument` adds `StoredSettles`: a stored document
  of a job that shares its evidence with no other belongs to a succeeded job, or to the worker about
  to report it, which still owns the row; nobody else can then settle the job as failed.
* `JobSubmissionProofs` – `TypeOK`, `OneJobPerKey`, `RepeatsFindTheJob`, `ImplementsAtomic`, from `TypeOK`,
  the uniqueness of keys that the constraint keeps, and what a task knows at each place (`Decided`):
  whatever it decides, a conflict and a failure included, rests on a row of its key, and rows are never
  deleted. So the key of a request that ended has a row (`EndedHasRow`), a lookup that misses has heard
  of nobody with its key (`MissedIInv`), and a failure is a step of `IdempotentSubmission` that changes
  nothing. The step in which a task is decided is the commit of its row, its refusal, or the lookup that
  found one.
* `EvidenceStoreProofs` – `TypeOK`, `AnswersAreTrue` and `FamilyYieldsOnlyToStaleReads`, from the invariant
  that a row that was read stays and a stored document has a stored source.

* `WebConnectorProofs` – `TypeOK` (with: a lock is held by exactly the task that sleeps under it),
  `RequestsSpaced`, `RobotsRespected`, `TimeBounded`. The invariant adds `SleepsEnough`, a task under a lock has
  `nap + since >= Interval`, which a tick keeps because the cap on `since` is no shorter than any
  interval; `Passed`, a hop in the queue or under the lock satisfies the gate, whose rules do not
  change while the hop waits; and `Equipped`, what a task has at each phase, from which every
  interval is within that cap. For `TimeBounded`, `Clocked` says that no clock runs past its timeout;
  `Moves` names the seven ways in which a step can change a task's phase, clock and sleep, each of
  which takes nothing from what is left (`MovesTakeNothing`), and a tick takes exactly one from every
  task that runs (`TickTakesTime`). The budget of a backoff is there because a backoff doubles
  (`AttemptsTake`).

* `BenchmarkLedgerProofs` – `ApprovedMeansSeen`, `LedgerStaysReadable`, `ManifestHonoursRefusals`,
  `LockIsInUse`, for any number of cases, texts, tabs, commands, records and edits. The invariant adds
  to them a type invariant; `Locked`, a submission that reads or writes holds the lock; `Bound`, what a
  tab stamps is the text it was shown; `QueuesAreTrue`, a queue on its way was true when it was read;
  and `ChecksHold`, the record a writer has checked is no earlier than the record it found last, and
  every record appended since a *tab* checked comes from a command, for tabs exclude each other. From
  `ChecksHold` each append keeps `OrderedOrRaced`: neighbours are in order, or the later was checked
  before the earlier was there and one of the two is a command's. With every line whole, that is
  `LedgerStaysReadable`. Approvals are stable because the ledger only grows (`Kept`).

* `ExtractionRunsProofs` – `TypeOK`, `OnlyAcceptedOutputIsVisible`, `AliasesYieldOnlyToStaleReads`,
  `DuplicatesOverlap`, for any finite set of requests, any answers and any names. The last needs no
  word about rows: `FoundNothing`, a request past its lookup had found no execution, and
  `AmbiguousFound`, two requests that make a lookup ambiguous had both found none, which they do not
  look up again. The others rest on `SInv`, about sessions: a row in a session is either `Loaded`
  (committed, its names still in the session's view of it) or `Inserted` (not committed, locked by
  this session, and named by its answer), and no two sessions lock one row (`Exclusive`). Without
  `Exclusive` a commit could turn another session's insert into an update; without `Inserted` a
  committed entity need not come from an accepted answer. That a merge of two alias lists is a list
  with exactly their names is a lemma (`MergedAliases`): `Sorted` is a sequence because a name's rank,
  the number of names before it, is a bijection. Aliases that normalize to nothing are dropped by a
  merge, which the property allows for.

* `ReasoningReportsProofs` – `TypeOK`, `LastReviewDecides`, `ScoreCoversMembers`,
  `ReportsCiteWhatWasScored`, `OneReportPerState`, for any finite set of reasonings, any reviews,
  generators, claims and links, and any number of connections. The invariant says what every session
  knows and until when. `ReviewsKnow`: a review has the status of its claim, or another review of it was
  committed since it read. `ReasoningsKnow`: while no other reasoning was committed, what a session has
  loaded is what is stored, and while no review was, the claims it takes for active are.
  `Fits`: after a reasoning that ran alone, a score is based on exactly the evidence of the members.
  `Counted` and `OwnIds`: a commit is a reasoning of its own, so a new cluster's identifier is new.
  `Generating` and `DraftsFollowRows`: while nothing is committed, what a request has drafted is what
  the rows it has dealt with say, so two requests that see one state have one fingerprint.

* `EvidenceScoringProofs` – `GroupsAreComponents`, `DependenceNeverAddsStrength`, `EvidencePullsItsWay`, and
  `ConfidenceIsAShare`, from which `ReasoningReportsProofs` gets the type of a stored confidence.
  The union-find is proved with a function that gives every document its root (`Forest`): a document
  has the root of its parent, a parent and a root are no larger than the document and connected with
  it, and the owner of a signal that has been met has the root of every document it was met in.
  The iterated parent is defined by recursion; that it exists and ends at the root within as many
  steps as there are documents is proved by the least-number principle and by counting. A doubt is a fold of products;
  that it is the product in *any* order is proved by induction over finite sets
  (`ProductsCommute`), and everything else compares products factor by factor. For
  `EvidencePullsItsWay` the case to get right is the best item of a group that leaves: the next best
  (`NextBestMovesUp`), and no other (`OnlyOneMovesUp`), then counts in full, and the doubt is still no
  smaller. The library states its induction principles with operators, which the provers cannot
  instantiate, so both inductions are restated for sets and proved (`Climb`, `SubsetClimb`).

**Assumptions, and why the code justifies them.** `PowersAssumption` (a power is the product with
the power before) and `BackoffAssumption` (backoffs are naturals, double, and are no longer than the
last) are arithmetic facts about `^`, of which the provers have no theory. `LinksAssumption`,
`ReadingsAssumption`: a quality is in 0..1, because `calculate_evidence_quality` ends in a mean of
clamped values, and `Most` bounds the evidence of a cluster so that numerators have one denominator.
`ProfilesAssumption`: `_signals` gives every document a source signal and uses four prefixes.
`ClaimsAssumption`: an accepted claim has evidence, which `validate_provenance` demands and
`ExtractionRuns!Valid` models. `OutputsAssumption`: what `ExtractionEnvelope` lets through has lists of
entities and claims with known types. `AbsentAssumption`, `NamesAssumption`, `NullAssumption`: the marks
for a missing value are no values. TLC evaluates every assumption on the instances of section 3.

**Only model-checked:** liveness (`EveryJobSettles`, `RetriesConverge`, `CollectionEnds`,
`EveryRequestEnds`), which is out of the prover's reach. Every invariant and every other action property
that a passing run checks is proved. The three violations are counterexamples of TLC.

## 6. Plan

1. *Done*: queue and worker, submission, store, connector with limiter and fetcher, extraction,
   grouping and scoring, reasoning and reports, the ledger; proofs of every safety property of each.
2. The composition of `WebConnector`'s time bound with the queue's `Punctual`.
3. Passages that cover a text in order (`domain/provenance.py`), and the weighted means of
   `domain/scoring.py`.

## 7. Not modelled

Address resolution and connection pinning, the text of URLs, markup and PDFs, model prompts, the
exports, health probes and migrations change no state that another component reads concurrently,
or are libraries. The insert-only routes for projects, questions and runs and the reading routes are
left out. So are the metrics of a run and the logs. Benchmark metrics are sequential sums that tests
reach; of the manifest, whether its cases cover enough and how they are split. The frontend is
modelled only where it decides about what it showed before: the review queue. Abandoned parser threads
(`services/web_connector.py:444`) and the success that a crawl delay can make impossible
(`services/web_connector.py:264`) are hazards without a property.
