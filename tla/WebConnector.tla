---------------------------- MODULE WebConnector ----------------------------
(***************************************************************************)
(* Collections of public pages that share one process:                     *)
(*   backend/app/services/web_connector.py  HostRateLimiter,               *)
(*                                          PublicWebConnector.collect     *)
(*   backend/app/providers/http_source.py   SafeSourceFetcher.fetch        *)
(*   backend/app/domain/source_policy.py    SourceFetchPolicy              *)
(*                                                                         *)
(* A collection fetches the robots file of its target, then the target,    *)
(* with retries.  A fetch follows redirects; every hop of it passes a gate *)
(* and the limiter of its host before the request is sent, and all of it,  *)
(* the waiting included, happens under one timeout.                        *)
(*                                                                         *)
(* Time is relative and counted in ticks: the age of the last request to a *)
(* host, the age of a fetch, what is left of a sleep.  A timer goes off    *)
(* when it is due, so the clock does not tick past it.                     *)
(***************************************************************************)
EXTENDS Integers, FiniteSets

CONSTANTS
  Tasks,           \* collections
  Target,          \* task -> the page it asks for
  Pages,           \* URLs, robots files included
  OriginOf,        \* page -> its scheme, host and port
  HostOf,          \* origin -> its host
  RobotsOf,        \* origin -> the URL of its robots file
  Forbidden,       \* pages that validate_target rejects
  Secure,          \* https pages
  RobotsFiles,     \* robots files a site may serve: [allows, delay]
  MinInterval,     \* source_fetch_host_interval_seconds
  MaxCrawlDelay,   \* source_fetch_max_crawl_delay_seconds
  Timeout,         \* source_fetch_timeout_seconds
  ParseTimeout,    \* pdf_parse_timeout_seconds
  MaxRedirects,    \* source_fetch_max_redirects
  MaxAttempts,     \* source_fetch_max_attempts
  RetryBase,       \* source_fetch_retry_base_seconds
  Null

Origins == {OriginOf[p] : p \in Pages}
Hosts == {HostOf[o] : o \in Origins}

ASSUME WebAssumption ==
  /\ Target \in [Tasks -> Pages]
  /\ DOMAIN OriginOf = Pages
  /\ DOMAIN HostOf = Origins
  /\ RobotsOf \in [Origins -> Pages]
  /\ Forbidden \subseteq Pages
  /\ Secure \subseteq Pages
  /\ \A f \in RobotsFiles : f.allows \subseteq Pages /\ f.delay \in Nat

ASSUME LimitsAssumption ==
  /\ MinInterval \in Nat
  /\ MaxCrawlDelay \in Nat
  /\ Timeout \in Nat \ {0}
  /\ ParseTimeout \in Nat \ {0}
  /\ MaxRedirects \in Nat
  /\ MaxAttempts \in Nat \ {0}
  /\ RetryBase \in Nat

ASSUME NullAssumption == Null \notin Tasks /\ Null \notin Pages /\ Null \notin RobotsFiles

VARIABLES
  lock,        \* host -> the task that holds its lock
  since,       \* host -> ticks since the last request, at most LongestInterval
  phase,       \* task -> what collect() is doing
  fetch,       \* task -> its fetch: [stage, at, visited, clock]
  nap,         \* task -> what is left of asyncio.sleep
  attempt,     \* task -> the attempt of the target it is at
  rules,       \* task -> the robots file it verified
  outcome      \* task -> the status of its outcome

vars == <<lock, since, phase, fetch, nap, attempt, rules, outcome>>

Phases == {"new", "robots", "page", "backoff", "parse", "done"}
Stages == {"idle", "gate", "queue", "spacing", "sent"}

NoFetch == [stage |-> "idle", at |-> Null, visited |-> {}, clock |-> 0]
NewFetch(p) == [stage |-> "gate", at |-> p, visited |-> {p}, clock |-> 0]
NoRobotsFile == [allows |-> Pages, delay |-> 0]

Larger(m, n) == IF m > n THEN m ELSE n
LongestInterval == Larger(MinInterval, MaxCrawlDelay)

Host(t) == HostOf[OriginOf[fetch[t].at]]
Home(t) == OriginOf[Target[t]]

(* The spacing that a request of the task asks the limiter for.            *)
Interval(t) ==
  IF phase[t] = "robots" THEN MinInterval ELSE Larger(MinInterval, rules[t].delay)

Backoff(a) == RetryBase * 2 ^ (a - 1)

(* Arithmetic that the prover has no theory of, and TLC evaluates.          *)
ASSUME BackoffAssumption ==
  \A a \in 1 .. MaxAttempts :
    /\ Backoff(a) \in Nat /\ Backoff(a) <= Backoff(MaxAttempts)
    /\ a < MaxAttempts => Backoff(a + 1) = 2 * Backoff(a)

Init ==
  /\ lock = [h \in Hosts |-> Null]
  /\ since = [h \in Hosts |-> LongestInterval]
  /\ phase = [t \in Tasks |-> "new"]
  /\ fetch = [t \in Tasks |-> NoFetch]
  /\ nap = [t \in Tasks |-> 0]
  /\ attempt = [t \in Tasks |-> 0]
  /\ rules = [t \in Tasks |-> Null]
  /\ outcome = [t \in Tasks |-> Null]

-----------------------------------------------------------------------------
(* Ends and beginnings of a fetch.  The host variables are left to the     *)
(* actions.                                                                *)

End(t, status) ==
  /\ phase' = [phase EXCEPT ![t] = "done"]
  /\ outcome' = [outcome EXCEPT ![t] = status]
  /\ fetch' = [fetch EXCEPT ![t] = NoFetch]
  /\ nap' = [nap EXCEPT ![t] = 0]
  /\ UNCHANGED <<attempt, rules>>

(* robots.allowed is True: the first attempt of the target.                *)
Verified(t, file) ==
  /\ phase' = [phase EXCEPT ![t] = "page"]
  /\ rules' = [rules EXCEPT ![t] = file]
  /\ attempt' = [attempt EXCEPT ![t] = 1]
  /\ fetch' = [fetch EXCEPT ![t] = NewFetch(Target[t])]
  /\ UNCHANGED <<nap, outcome>>

(* Mutant: one attempt too many. *)
MayRetryOnceMore(t) == attempt[t] <= MaxAttempts

MayRetry(t) == attempt[t] < MaxAttempts

(* SourceFetchUnavailable; robots are not tried again.                     *)
Unavailable(t, retryable) ==
  IF phase[t] = "page" /\ retryable /\ MayRetry(t)
  THEN /\ phase' = [phase EXCEPT ![t] = "backoff"]
       /\ nap' = [nap EXCEPT ![t] = Backoff(attempt[t])]
       /\ fetch' = [fetch EXCEPT ![t] = NoFetch]
       /\ UNCHANGED <<attempt, rules, outcome>>
  ELSE End(t, "unavailable")

(* SourcePolicyViolation: it blocks a page; robots stay unverified.        *)
Violation(t) == End(t, IF phase[t] = "page" THEN "blocked" ELSE "unavailable")

(* Mutant: the lock outlives the waiting task. *)
LeakLock(t) == UNCHANGED lock

Release(t) == lock' = [h \in Hosts |-> IF lock[h] = t THEN Null ELSE lock[h]]

-----------------------------------------------------------------------------
Refuse(t) ==
  /\ phase[t] = "new"
  /\ Target[t] \in Forbidden
  /\ End(t, "blocked")
  /\ UNCHANGED <<lock, since>>

Begin(t) ==
  /\ phase[t] = "new"
  /\ Target[t] \notin Forbidden
  /\ phase' = [phase EXCEPT ![t] = "robots"]
  /\ fetch' = [fetch EXCEPT ![t] = NewFetch(RobotsOf[Home(t)])]
  /\ UNCHANGED <<lock, since, nap, attempt, rules, outcome>>

(* Mutant: the robots rules are not asked about the destination. *)
SameOrigin(t) == phase[t] = "page" => OriginOf[fetch[t].at] = Home(t)

(* before_request: what a hop must satisfy before it is sent.              *)
Permitted(t) ==
  phase[t] = "page" => OriginOf[fetch[t].at] = Home(t) /\ fetch[t].at \in rules[t].allows

GateOpen(t) ==
  /\ fetch[t].stage = "gate"
  /\ Permitted(t)
  /\ fetch' = [fetch EXCEPT ![t].stage = "queue"]
  /\ UNCHANGED <<lock, since, phase, nap, attempt, rules, outcome>>

GateShut(t) ==
  /\ fetch[t].stage = "gate"
  /\ ~Permitted(t)
  /\ Violation(t)
  /\ UNCHANGED <<lock, since>>

(* Mutant: waiting tasks do not exclude each other. *)
AlwaysFree(h) == TRUE

Free(h) == lock[h] = Null

(* HostRateLimiter.wait: how long to sleep is decided under the lock.      *)
Acquire(t) ==
  /\ fetch[t].stage = "queue"
  /\ Free(Host(t))
  /\ lock' = [lock EXCEPT ![Host(t)] = t]
  /\ nap' = [nap EXCEPT ![t] = Larger(0, Interval(t) - since[Host(t)])]
  /\ fetch' = [fetch EXCEPT ![t].stage = "spacing"]
  /\ UNCHANGED <<since, phase, attempt, rules, outcome>>

Send(t) ==
  /\ fetch[t].stage = "spacing"
  /\ nap[t] = 0
  /\ Release(t)
  /\ since' = [since EXCEPT ![Host(t)] = 0]
  /\ fetch' = [fetch EXCEPT ![t].stage = "sent"]
  /\ UNCHANGED <<phase, nap, attempt, rules, outcome>>

-----------------------------------------------------------------------------
(* What comes back.                                                        *)

Downgrade(p, q) == p \in Secure /\ q \notin Secure

Redirected(t) ==
  /\ fetch[t].stage = "sent"
  /\ \E p \in Pages :
       IF Cardinality(fetch[t].visited) > MaxRedirects THEN Unavailable(t, FALSE)
       ELSE IF p \in Forbidden \/ Downgrade(fetch[t].at, p) THEN Violation(t)
       ELSE IF p \in fetch[t].visited THEN Unavailable(t, FALSE)
       ELSE /\ fetch' = [fetch EXCEPT ![t].at = p, ![t].visited = @ \cup {p}, ![t].stage = "gate"]
            /\ UNCHANGED <<phase, nap, attempt, rules, outcome>>
  /\ UNCHANGED <<lock, since>>

(* DNS and network errors, HTTP 408, 425, 429 and 5xx; other HTTP errors   *)
(* and unusable answers.                                                   *)
Failed(t) ==
  /\ fetch[t].stage = "sent"
  /\ \E retryable \in BOOLEAN : Unavailable(t, retryable)
  /\ UNCHANGED <<lock, since>>

(* Content type, length or size are against the policy.                    *)
Rejected(t) ==
  /\ fetch[t].stage = "sent"
  /\ Violation(t)
  /\ UNCHANGED <<lock, since>>

(* HTTP 401 or 403 for the robots file.                                    *)
RobotsDenied(t) ==
  /\ fetch[t].stage = "sent" /\ phase[t] = "robots"
  /\ End(t, "blocked")
  /\ UNCHANGED <<lock, since>>

(* HTTP 404 or 410 for the robots file.                                    *)
RobotsMissing(t) ==
  /\ fetch[t].stage = "sent" /\ phase[t] = "robots"
  /\ Verified(t, NoRobotsFile)
  /\ UNCHANGED <<lock, since>>

RobotsRead(t) ==
  /\ fetch[t].stage = "sent" /\ phase[t] = "robots"
  /\ \E file \in RobotsFiles :
       IF Target[t] \notin file.allows THEN End(t, "blocked")
       ELSE IF file.delay > MaxCrawlDelay THEN End(t, "unavailable")
       ELSE Verified(t, file)
  /\ UNCHANGED <<lock, since>>

PageRead(t) ==
  /\ fetch[t].stage = "sent" /\ phase[t] = "page"
  /\ phase' = [phase EXCEPT ![t] = "parse"]
  /\ fetch' = [fetch EXCEPT ![t] = NoFetch]
  /\ UNCHANGED <<lock, since, nap, attempt, rules, outcome>>

(* asyncio.timeout cancels the fetch wherever it is.                       *)
FetchTimeout(t) ==
  /\ fetch[t].stage # "idle"
  /\ fetch[t].clock = Timeout
  /\ Release(t)
  /\ IF phase[t] = "page" /\ MayRetry(t)
     THEN Unavailable(t, TRUE)
     ELSE End(t, "unavailable")
  /\ UNCHANGED since

(* Mutant: the attempts are not counted. *)
SameAttempt(t) == UNCHANGED attempt

NextAttempt(t) == attempt' = [attempt EXCEPT ![t] = @ + 1]

Resume(t) ==
  /\ phase[t] = "backoff"
  /\ nap[t] = 0
  /\ phase' = [phase EXCEPT ![t] = "page"]
  /\ fetch' = [fetch EXCEPT ![t] = NewFetch(Target[t])]
  /\ NextAttempt(t)
  /\ UNCHANGED <<lock, since, nap, rules, outcome>>

(* _extract_content finds text, or nothing usable, or takes too long.      *)
Parsed(t) ==
  /\ phase[t] = "parse"
  /\ \E status \in {"succeeded", "unavailable"} :
       /\ fetch[t].clock = ParseTimeout => status = "unavailable"
       /\ End(t, status)
  /\ UNCHANGED <<lock, since>>

-----------------------------------------------------------------------------
Timed(t) == fetch[t].stage # "idle" \/ phase[t] = "parse"

Tick ==
  /\ \E t \in Tasks : phase[t] \notin {"new", "done"}
  /\ \A t \in Tasks :
       /\ fetch[t].stage # "idle" => fetch[t].clock < Timeout
       /\ phase[t] = "parse" => fetch[t].clock < ParseTimeout
       /\ phase[t] = "backoff" => nap[t] > 0
  /\ since' = [h \in Hosts |-> IF since[h] < LongestInterval THEN since[h] + 1 ELSE since[h]]
  /\ fetch' = [t \in Tasks |-> IF Timed(t) THEN [fetch[t] EXCEPT !.clock = @ + 1] ELSE fetch[t]]
  /\ nap' = [t \in Tasks |-> Larger(0, nap[t] - 1)]
  /\ UNCHANGED <<lock, phase, attempt, rules, outcome>>

Receive(t) ==
  \/ Redirected(t) \/ Failed(t) \/ Rejected(t)
  \/ RobotsDenied(t) \/ RobotsMissing(t) \/ RobotsRead(t) \/ PageRead(t)

Collect(t) ==
  \/ Refuse(t) \/ Begin(t)
  \/ GateOpen(t) \/ GateShut(t) \/ Acquire(t) \/ Send(t)
  \/ Receive(t) \/ FetchTimeout(t) \/ Resume(t) \/ Parsed(t)

Next == Tick \/ \E t \in Tasks : Collect(t)

Spec == Init /\ [][Next]_vars

(* The event loop runs every task that can run, and time passes.  A site   *)
(* need not answer: a request is answered or timed out.                    *)
FairSpec == Spec /\ WF_vars(Tick) /\ \A t \in Tasks : WF_vars(Collect(t))

-----------------------------------------------------------------------------
(* Every variable has its type, and a host's lock is held by nobody but a   *)
(* task that sleeps out the interval of that very host.                     *)
TypeOK ==
  /\ lock \in [Hosts -> Tasks \cup {Null}]
  /\ since \in [Hosts -> 0 .. LongestInterval]
  /\ phase \in [Tasks -> Phases]
  /\ fetch \in [Tasks -> [stage : Stages, at : Pages \cup {Null},
                          visited : SUBSET Pages, clock : Nat]]
  /\ nap \in [Tasks -> Nat]
  /\ attempt \in [Tasks -> 0 .. MaxAttempts]
  /\ rules \in [Tasks -> RobotsFiles \cup {Null, NoRobotsFile}]
  /\ outcome \in [Tasks -> {Null, "succeeded", "blocked", "unavailable"}]
  /\ \A h \in Hosts, t \in Tasks :
       lock[h] = t <=> fetch[t].stage = "spacing" /\ Host(t) = h

Sends(t) == fetch[t].stage = "spacing" /\ fetch'[t].stage = "sent"

(* Between two requests to a host there is the interval that the later one  *)
(* asked for, however many collections wait for that host, time out while   *)
(* waiting, or are redirected to it.                                        *)
RequestsSpaced ==
  [][\A t \in Tasks : Sends(t) => since[Host(t)] >= Interval(t)]_vars

(* No page is requested, first or after redirects and retries, but of the   *)
(* requested origin and allowed by the robots file verified for it.         *)
RobotsRespected ==
  [][\A t \in Tasks :
       Sends(t) /\ phase[t] # "robots" =>
         OriginOf[fetch[t].at] = Home(t) /\ fetch[t].at \in rules[t].allows]_vars

(* The longest a collection may still take, and what that is at the start.  *)
Backoffs(a) == RetryBase * (2 ^ (MaxAttempts - 1)) - RetryBase * (2 ^ (a - 1))
Attempts(a) == (MaxAttempts - a + 1) * Timeout + Backoffs(a) + ParseTimeout

Left(t) ==
  CASE phase[t] = "new" -> Timeout + Attempts(1)
    [] phase[t] = "robots" -> Timeout - fetch[t].clock + Attempts(1)
    [] phase[t] = "page" -> Attempts(attempt[t]) - fetch[t].clock
    [] phase[t] = "backoff" -> nap[t] + Attempts(attempt[t] + 1)
    [] phase[t] = "parse" -> ParseTimeout - fetch[t].clock
    [] phase[t] = "done" -> 0

(* The time of a collection is bounded, whatever sites, limiter and other   *)
(* collections do: one timeout for robots and one for each attempt, the     *)
(* backoffs between them, and the parser's.  A worker's lease is to be      *)
(* longer than this.                                                        *)
TimeBounded ==
  [][\A t \in Tasks :
       /\ Left(t)' >= 0
       /\ Left(t)' <= Left(t)
       /\ Tick /\ phase[t] \notin {"new", "done"} => Left(t)' < Left(t)]_vars

(* Every collection ends, and no wait for a host lasts for ever.            *)
CollectionEnds == \A t \in Tasks : <>(phase[t] = "done")

(* Once a robots file with a crawl delay was verified for a host, every     *)
(* request to that host keeps it.                                           *)
CrawlDelayKept ==
  [][\A t, u \in Tasks :
       Sends(t) /\ rules[u] # Null /\ HostOf[Home(u)] = Host(t) =>
         since[Host(t)] >= rules[u].delay]_vars
=============================================================================
