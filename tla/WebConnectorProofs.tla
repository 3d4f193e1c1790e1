-------------------------- MODULE WebConnectorProofs --------------------------
(***************************************************************************)
(* What WebConnector guarantees for every number of collections, pages,    *)
(* origins and robots files, and every setting of the limits.              *)
(***************************************************************************)
EXTENDS WebConnector, TLAPS

(* What a task has at each phase: a page for its fetch, rules whose delay   *)
(* was accepted before it asks for its target, an attempt left while it     *)
(* backs off.                                                               *)
Equipped ==
  \A t \in Tasks :
    /\ fetch[t].stage # "idle" => fetch[t].at \in Pages /\ phase[t] \in {"robots", "page"}
    /\ phase[t] \in {"page", "backoff"} =>
         /\ rules[t] \in RobotsFiles \cup {NoRobotsFile}
         /\ rules[t].delay \in 0 .. MaxCrawlDelay
    /\ phase[t] = "page" => attempt[t] \in 1 .. MaxAttempts
    /\ phase[t] = "backoff" => attempt[t] \in 1 .. MaxAttempts - 1

(* The task under a host's lock sleeps long enough.                         *)
SleepsEnough ==
  \A t \in Tasks :
    fetch[t].stage = "spacing" => nap[t] + since[Host(t)] >= Interval(t)

(* A hop that is past its gate satisfies what the gate asked.               *)
Passed == \A t \in Tasks : fetch[t].stage \in {"queue", "spacing"} => Permitted(t)

IInv == TypeOK /\ Equipped /\ SleepsEnough /\ Passed

USE DEF Phases, Stages

-----------------------------------------------------------------------------
LEMMA LongestType ==
  /\ LongestInterval \in Nat
  /\ MinInterval <= LongestInterval
  /\ MaxCrawlDelay <= LongestInterval
BY LimitsAssumption DEF LongestInterval, Larger

LEMMA PageOrigin ==
  ASSUME NEW p \in Pages
  PROVE  OriginOf[p] \in Origins /\ HostOf[OriginOf[p]] \in Hosts
BY DEF Origins, Hosts

LEMMA FetchType ==
  ASSUME NEW p \in Pages
  PROVE  /\ NewFetch(p) \in [stage : Stages, at : Pages \cup {Null},
                             visited : SUBSET Pages, clock : Nat]
         /\ NewFetch(p).stage = "gate" /\ NewFetch(p).at = p
BY DEF NewFetch

LEMMA StageType ==
  ASSUME IInv, NEW t \in Tasks, NEW s \in Stages,
         fetch' = [fetch EXCEPT ![t].stage = s]
  PROVE  /\ fetch' \in [Tasks -> [stage : Stages, at : Pages \cup {Null},
                                  visited : SUBSET Pages, clock : Nat]]
         /\ fetch'[t].stage = s /\ fetch'[t].at = fetch[t].at
         /\ \A u \in Tasks \ {t} : fetch'[u] = fetch[u]
<1> DEFINE Fetches == [stage : Stages, at : Pages \cup {Null},
                       visited : SUBSET Pages, clock : Nat]
<1>1. fetch \in [Tasks -> Fetches]
  BY DEF IInv, TypeOK
<1>2. fetch' = [fetch EXCEPT ![t] = [fetch[t] EXCEPT !.stage = s]]
  OBVIOUS
<1>3. [fetch[t] EXCEPT !.stage = s] \in Fetches
  BY <1>1
<1>4. /\ [fetch[t] EXCEPT !.stage = s].stage = s
      /\ [fetch[t] EXCEPT !.stage = s].at = fetch[t].at
  BY <1>1
<1> HIDE DEF Fetches
<1>5. fetch' \in [Tasks -> Fetches]
  BY <1>1, <1>2, <1>3
<1>6. /\ fetch'[t] = [fetch[t] EXCEPT !.stage = s]
      /\ \A u \in Tasks \ {t} : fetch'[u] = fetch[u]
  BY <1>1, <1>2
<1> QED
  BY <1>4, <1>5, <1>6 DEF Fetches

LEMMA NoFetchType ==
  /\ NoFetch \in [stage : Stages, at : Pages \cup {Null},
                  visited : SUBSET Pages, clock : Nat]
  /\ NoFetch.stage = "idle"
BY DEF NoFetch

(* The interval a task asks for is one that the limiter can tell.           *)
LEMMA IntervalBound ==
  ASSUME IInv, NEW t \in Tasks, fetch[t].stage # "idle"
  PROVE  Interval(t) \in 0 .. LongestInterval
<1>1. CASE phase[t] = "robots"
  BY <1>1, LongestType, LimitsAssumption DEF Interval
<1>2. CASE phase[t] = "page"
  BY <1>2, LongestType, LimitsAssumption DEF IInv, Equipped, Interval, Larger
<1> QED
  BY <1>1, <1>2 DEF IInv, Equipped

LEMMA InitIInv == Init => IInv
<1> SUFFICES ASSUME Init PROVE IInv
  OBVIOUS
<1> USE LimitsAssumption, LongestType, NoFetchType DEF Init
<1>1. TypeOK
  BY NullAssumption DEF TypeOK
<1>2. Equipped
  BY DEF Equipped
<1>3. SleepsEnough
  BY DEF SleepsEnough
<1>4. Passed
  BY DEF Passed
<1> QED
  BY <1>1, <1>2, <1>3, <1>4 DEF IInv

(* Every variable has its type, the part of TypeOK about locks aside.       *)
Typed ==
  /\ phase \in [Tasks -> Phases]
  /\ fetch \in [Tasks -> [stage : Stages, at : Pages \cup {Null},
                          visited : SUBSET Pages, clock : Nat]]
  /\ nap \in [Tasks -> Nat]
  /\ attempt \in [Tasks -> 0 .. MaxAttempts]
  /\ rules \in [Tasks -> RobotsFiles \cup {Null, NoRobotsFile}]
  /\ outcome \in [Tasks -> {Null, "succeeded", "blocked", "unavailable"}]

Others(t) ==
  \A u \in Tasks \ {t} :
    /\ phase'[u] = phase[u] /\ fetch'[u] = fetch[u] /\ nap'[u] = nap[u]
    /\ attempt'[u] = attempt[u] /\ rules'[u] = rules[u] /\ outcome'[u] = outcome[u]

LEMMA ReleaseType ==
  ASSUME IInv, NEW t \in Tasks, Release(t)
  PROVE  /\ lock' \in [Hosts -> Tasks \cup {Null}]
         /\ \A h \in Hosts : lock'[h] = IF lock[h] = t THEN Null ELSE lock[h]
BY DEF IInv, TypeOK, Release

(* A task that is not under a lock has none to give back.                   *)
LEMMA NothingHeld ==
  ASSUME IInv, NEW t \in Tasks, fetch[t].stage # "spacing", UNCHANGED lock
  PROVE  Release(t)
<1>1. \A h \in Hosts : lock[h] # t
  BY DEF IInv, TypeOK
<1>2. lock = [h \in Hosts |-> lock[h]]
  BY DEF IInv, TypeOK
<1> QED
  BY <1>1, <1>2 DEF Release

(* A step that changes one task and leaves it without a lock: what is left  *)
(* to show is about that task alone.                                        *)
LEMMA OneTask ==
  ASSUME IInv, NEW t \in Tasks,
         Release(t), UNCHANGED since,
         Typed', Others(t),
         fetch'[t].stage # "spacing",
         fetch'[t].stage # "idle" => fetch'[t].at \in Pages /\ phase'[t] \in {"robots", "page"},
         phase'[t] \in {"page", "backoff"} =>
           rules'[t] \in RobotsFiles \cup {NoRobotsFile} /\ rules'[t].delay \in 0 .. MaxCrawlDelay,
         phase'[t] = "page" => attempt'[t] \in 1 .. MaxAttempts,
         phase'[t] = "backoff" => attempt'[t] \in 1 .. MaxAttempts - 1,
         fetch'[t].stage = "queue" => Permitted(t)'
  PROVE  IInv'
<1>1. \A u \in Tasks \ {t} :
           /\ phase'[u] = phase[u] /\ fetch'[u] = fetch[u] /\ nap'[u] = nap[u]
           /\ attempt'[u] = attempt[u] /\ rules'[u] = rules[u] /\ outcome'[u] = outcome[u]
  BY DEF Others
<1>2. TypeOK'
  <2>1. \A h \in Hosts, u \in Tasks :
          lock'[h] = u <=> fetch'[u].stage = "spacing" /\ Host(u)' = h
    <3> SUFFICES ASSUME NEW h \in Hosts, NEW u \in Tasks
                 PROVE  lock'[h] = u <=> fetch'[u].stage = "spacing" /\ Host(u)' = h
      OBVIOUS
    <3>1. CASE u = t
      BY <3>1, ReleaseType, NullAssumption
    <3>2. CASE u # t
      BY <1>1, <3>2, ReleaseType, NullAssumption DEF IInv, TypeOK, Host
    <3> QED
      BY <3>1, <3>2
  <2> QED
    BY <2>1, ReleaseType DEF IInv, TypeOK, Typed
<1>3. Equipped'
  BY <1>1 DEF IInv, Equipped
<1>4. SleepsEnough'
  <2> SUFFICES ASSUME NEW u \in Tasks, fetch'[u].stage = "spacing"
               PROVE  nap'[u] + since'[Host(u)'] >= Interval(u)'
    BY DEF SleepsEnough
  <2>1. u # t
    BY <1>1
  <2>2. Host(u)' = Host(u) /\ Interval(u)' = Interval(u)
    BY <1>1, <2>1 DEF Host, Interval
  <2> QED
    BY <1>1, <2>1, <2>2 DEF IInv, SleepsEnough
<1>5. Passed'
  BY <1>1 DEF IInv, Passed, Permitted, Home
<1> QED
  BY <1>2, <1>3, <1>4, <1>5 DEF IInv

-----------------------------------------------------------------------------
(* The ends of a fetch, within the limiter or outside of it.                *)
LEMMA EndIInv ==
  ASSUME IInv, NEW t \in Tasks, NEW status \in {"succeeded", "blocked", "unavailable"},
         Release(t), UNCHANGED since, End(t, status)
  PROVE  IInv'
<1>1. Typed' /\ Others(t)
  BY NoFetchType DEF IInv, TypeOK, End, Typed, Others
<1>2. fetch'[t] = NoFetch /\ phase'[t] = "done"
  BY DEF IInv, TypeOK, End
<1> QED
  BY <1>1, <1>2, OneTask, NoFetchType

LEMMA VerifiedIInv ==
  ASSUME IInv, NEW t \in Tasks, NEW file \in RobotsFiles \cup {NoRobotsFile},
         file.delay \in 0 .. MaxCrawlDelay,
         fetch[t].stage = "sent",
         Verified(t, file), UNCHANGED <<lock, since>>
  PROVE  IInv'
<1>1. 1 \in 0 .. MaxAttempts /\ 1 \in 1 .. MaxAttempts /\ Target[t] \in Pages
  BY LimitsAssumption, WebAssumption
<1>2. Typed' /\ Others(t)
  BY <1>1, FetchType DEF IInv, TypeOK, Verified, Typed, Others
<1>3. /\ fetch'[t] = NewFetch(Target[t]) /\ phase'[t] = "page"
      /\ rules'[t] = file /\ attempt'[t] = 1
  BY DEF IInv, TypeOK, Verified
<1> QED
  BY <1>1, <1>2, <1>3, OneTask, NothingHeld, FetchType

LEMMA UnavailableIInv ==
  ASSUME IInv, NEW t \in Tasks, NEW retryable \in BOOLEAN,
         Release(t), UNCHANGED since, Unavailable(t, retryable)
  PROVE  IInv'
<1>1. CASE phase[t] = "page" /\ retryable /\ MayRetry(t)
  <2>1. attempt[t] \in 1 .. MaxAttempts /\ attempt[t] \in 1 .. MaxAttempts - 1
    BY <1>1, LimitsAssumption DEF IInv, Equipped, MayRetry
  <2>2. Backoff(attempt[t]) \in Nat
    BY <2>1, BackoffAssumption
  <2>3. Typed' /\ Others(t)
    <3>1. /\ fetch' = [fetch EXCEPT ![t] = NoFetch]
          /\ phase' = [phase EXCEPT ![t] = "backoff"]
          /\ nap' = [nap EXCEPT ![t] = Backoff(attempt[t])]
          /\ UNCHANGED <<attempt, rules, outcome>>
      BY <1>1 DEF Unavailable
    <3>2. Typed'
      BY <3>1, <2>2, NoFetchType DEF IInv, TypeOK, Typed
    <3>3. Others(t)
      BY <3>1 DEF IInv, TypeOK, Others
    <3> QED
      BY <3>2, <3>3
  <2>4. /\ fetch'[t] = NoFetch /\ phase'[t] = "backoff"
        /\ rules'[t] = rules[t] /\ attempt'[t] = attempt[t]
    BY <1>1 DEF IInv, TypeOK, Unavailable
  <2>5. /\ rules[t] \in RobotsFiles \cup {NoRobotsFile}
        /\ rules[t].delay \in 0 .. MaxCrawlDelay
    BY <1>1 DEF IInv, Equipped
  <2> QED
    BY <2>1, <2>3, <2>4, <2>5, OneTask, NoFetchType
<1>2. CASE ~(phase[t] = "page" /\ retryable /\ MayRetry(t))
  BY <1>2, EndIInv DEF Unavailable
<1> QED
  BY <1>1, <1>2

LEMMA ViolationIInv ==
  ASSUME IInv, NEW t \in Tasks, fetch[t].stage # "spacing",
         Violation(t), UNCHANGED <<lock, since>>
  PROVE  IInv'
BY EndIInv, NothingHeld DEF Violation

-----------------------------------------------------------------------------
LEMMA BeginIInv ==
  ASSUME IInv, NEW t \in Tasks, Begin(t)
  PROVE  IInv'
<1>1. RobotsOf[Home(t)] \in Pages
  BY WebAssumption, PageOrigin DEF Home
<1>2. fetch[t].stage # "spacing"
  BY DEF IInv, Equipped, Begin
<1>3. Typed' /\ Others(t)
  BY <1>1, FetchType DEF IInv, TypeOK, Begin, Typed, Others
<1>4. fetch'[t] = NewFetch(RobotsOf[Home(t)]) /\ phase'[t] = "robots"
  BY DEF IInv, TypeOK, Begin
<1> QED
  BY <1>1, <1>2, <1>3, <1>4, OneTask, NothingHeld, FetchType DEF Begin

LEMMA GateOpenIInv ==
  ASSUME IInv, NEW t \in Tasks, GateOpen(t)
  PROVE  IInv'
<1>1. Typed' /\ Others(t)
  BY StageType DEF IInv, TypeOK, GateOpen, Typed, Others
<1>2. /\ fetch'[t].stage = "queue" /\ fetch'[t].at = fetch[t].at
      /\ phase'[t] = phase[t] /\ rules'[t] = rules[t] /\ attempt'[t] = attempt[t]
  BY DEF IInv, TypeOK, GateOpen
<1>3. Permitted(t)'
  BY <1>2 DEF GateOpen, Permitted, Home
<1> QED
  BY <1>1, <1>2, <1>3, OneTask, NothingHeld DEF IInv, Equipped, GateOpen

LEMMA AcquireIInv ==
  ASSUME IInv, NEW t \in Tasks, Acquire(t)
  PROVE  IInv'
<1> DEFINE h == Host(t)
<1>1. h \in Hosts /\ fetch[t].stage = "queue" /\ lock[h] = Null
  BY PageOrigin DEF IInv, Equipped, Acquire, Host, Free
<1>2. Interval(t) \in Nat /\ since[h] \in Nat
  BY <1>1, IntervalBound, LongestType DEF IInv, TypeOK
<1>3. /\ fetch'[t].stage = "spacing" /\ fetch'[t].at = fetch[t].at
      /\ nap'[t] = Larger(0, Interval(t) - since[h])
      /\ lock' = [lock EXCEPT ![h] = t]
      /\ \A u \in Tasks \ {t} : fetch'[u] = fetch[u] /\ nap'[u] = nap[u]
  BY DEF IInv, TypeOK, Acquire
<1>4. UNCHANGED <<since, phase, attempt, rules, outcome>>
  BY DEF Acquire
<1>5. \A u \in Tasks : fetch'[u].at = fetch[u].at
  BY <1>3
<1>6. \A u \in Tasks : Host(u)' = Host(u) /\ Interval(u)' = Interval(u)
  BY <1>4, <1>5 DEF Host, Interval
<1>7. nap'[t] \in Nat
  BY <1>2, <1>3 DEF Larger
<1>8. TypeOK'
  <2>1. \A g \in Hosts, u \in Tasks :
          lock'[g] = u <=> fetch'[u].stage = "spacing" /\ Host(u)' = g
    BY <1>1, <1>3, <1>6, NullAssumption DEF IInv, TypeOK
  <2>2. /\ lock' \in [Hosts -> Tasks \cup {Null}]
        /\ nap' \in [Tasks -> Nat]
        /\ fetch' \in [Tasks -> [stage : Stages, at : Pages \cup {Null},
                                 visited : SUBSET Pages, clock : Nat]]
    BY <1>1, <1>7, StageType DEF IInv, TypeOK, Acquire
  <2> QED
    BY <2>1, <2>2, <1>4 DEF IInv, TypeOK
<1>9. Equipped'
  BY <1>1, <1>3, <1>4 DEF IInv, Equipped
<1>10. SleepsEnough'
  <2> SUFFICES ASSUME NEW u \in Tasks, fetch'[u].stage = "spacing"
               PROVE  nap'[u] + since[Host(u)] >= Interval(u)
    BY <1>4, <1>6 DEF SleepsEnough
  <2>1. CASE u = t
    BY <2>1, <1>2, <1>3 DEF Larger
  <2>2. CASE u # t
    BY <2>2, <1>3 DEF IInv, SleepsEnough
  <2> QED
    BY <2>1, <2>2
<1>11. Passed'
  BY <1>1, <1>3, <1>4 DEF IInv, Passed, Permitted, Home
<1> QED
  BY <1>8, <1>9, <1>10, <1>11 DEF IInv

LEMMA SendIInv ==
  ASSUME IInv, NEW t \in Tasks, Send(t)
  PROVE  IInv'
<1> DEFINE h == Host(t)
<1>1. h \in Hosts /\ fetch[t].stage = "spacing" /\ lock[h] = t
  BY PageOrigin DEF IInv, TypeOK, Equipped, Send, Host
<1>2. /\ fetch'[t].stage = "sent" /\ fetch'[t].at = fetch[t].at
      /\ \A u \in Tasks \ {t} : fetch'[u] = fetch[u]
      /\ since' = [since EXCEPT ![h] = 0]
  BY DEF IInv, TypeOK, Send
<1>3. UNCHANGED <<phase, nap, attempt, rules, outcome>>
  BY DEF Send
<1>4. \A u \in Tasks : Host(u)' = Host(u) /\ Interval(u)' = Interval(u)
  BY <1>2, <1>3 DEF Host, Interval
<1>5. /\ lock' \in [Hosts -> Tasks \cup {Null}]
      /\ \A g \in Hosts : lock'[g] = IF lock[g] = t THEN Null ELSE lock[g]
  BY ReleaseType DEF Send
<1>6. TypeOK'
  <2>1. \A g \in Hosts, u \in Tasks :
          lock'[g] = u <=> fetch'[u].stage = "spacing" /\ Host(u)' = g
    BY <1>1, <1>2, <1>4, <1>5, NullAssumption DEF IInv, TypeOK
  <2>2. since' \in [Hosts -> 0 .. LongestInterval]
    <3>1. 0 \in 0 .. LongestInterval
      BY LongestType
    <3> QED
      BY <1>2, <3>1 DEF IInv, TypeOK
  <2>3. fetch' \in [Tasks -> [stage : Stages, at : Pages \cup {Null},
                             visited : SUBSET Pages, clock : Nat]]
    BY StageType DEF Send
  <2> QED
    BY <2>1, <2>2, <2>3, <1>3, <1>5 DEF IInv, TypeOK
<1>7. Equipped'
  BY <1>1, <1>2, <1>3 DEF IInv, Equipped
<1>8. SleepsEnough'
  <2> SUFFICES ASSUME NEW u \in Tasks, fetch'[u].stage = "spacing"
               PROVE  nap[u] + since'[Host(u)] >= Interval(u)
    BY <1>3, <1>4 DEF SleepsEnough
  <2>1. u # t /\ fetch[u].stage = "spacing"
    BY <1>2
  <2>2. Host(u) \in Hosts /\ Host(u) # h
    BY <1>1, <2>1, PageOrigin DEF IInv, TypeOK, Equipped, Host
  <2>3. since'[Host(u)] = since[Host(u)]
    BY <1>2, <2>2 DEF IInv, TypeOK
  <2> QED
    BY <2>1, <2>3 DEF IInv, SleepsEnough
<1>9. Passed'
  BY <1>2, <1>3 DEF IInv, Passed, Permitted, Home
<1> QED
  BY <1>6, <1>7, <1>8, <1>9 DEF IInv

-----------------------------------------------------------------------------
(* A redirect opens the next hop, which has its own gate to pass.           *)
LEMMA RedirectedIInv ==
  ASSUME IInv, NEW t \in Tasks, Redirected(t)
  PROVE  IInv'
<1>1. fetch[t].stage = "sent" /\ UNCHANGED <<lock, since>> /\ Release(t)
  BY NothingHeld DEF Redirected
<1> DEFINE Hop(p) == [fetch[t] EXCEPT !.at = p, !.visited = @ \cup {p}, !.stage = "gate"]
<1>2. PICK p \in Pages :
        \/ Unavailable(t, FALSE)
        \/ Violation(t)
        \/ /\ fetch' = [fetch EXCEPT ![t] = Hop(p)]
           /\ UNCHANGED <<phase, nap, attempt, rules, outcome>>
  BY DEF Redirected
<1>3. CASE Unavailable(t, FALSE)
  BY <1>1, <1>3, UnavailableIInv
<1>4. CASE Violation(t)
  BY <1>1, <1>4, ViolationIInv
<1>5. CASE /\ fetch' = [fetch EXCEPT ![t] = Hop(p)]
           /\ UNCHANGED <<phase, nap, attempt, rules, outcome>>
  <2>1. /\ Hop(p) \in [stage : Stages, at : Pages \cup {Null},
                       visited : SUBSET Pages, clock : Nat]
        /\ Hop(p).stage = "gate" /\ Hop(p).at = p
    <3>1. fetch[t] \in [stage : Stages, at : Pages \cup {Null},
                        visited : SUBSET Pages, clock : Nat]
      BY DEF IInv, TypeOK
    <3>2. fetch[t].visited \cup {p} \in SUBSET Pages
      BY <3>1
    <3> QED
      BY <3>1, <3>2
  <2> HIDE DEF Hop
  <2>2. /\ fetch'[t] = Hop(p)
        /\ \A u \in Tasks \ {t} : fetch'[u] = fetch[u]
        /\ fetch' \in [Tasks -> [stage : Stages, at : Pages \cup {Null},
                                 visited : SUBSET Pages, clock : Nat]]
    BY <1>5, <2>1 DEF IInv, TypeOK
  <2>3. Typed' /\ Others(t)
    BY <1>5, <2>2 DEF IInv, TypeOK, Typed, Others
  <2>4. /\ phase'[t] = phase[t] /\ rules'[t] = rules[t] /\ attempt'[t] = attempt[t]
    BY <1>5
  <2> QED
    BY <1>1, <2>1, <2>2, <2>3, <2>4, OneTask DEF IInv, Equipped
<1> QED
  BY <1>2, <1>3, <1>4, <1>5

LEMMA RobotsReadIInv ==
  ASSUME IInv, NEW t \in Tasks, RobotsRead(t)
  PROVE  IInv'
<1>1. fetch[t].stage = "sent" /\ UNCHANGED <<lock, since>> /\ Release(t)
  BY NothingHeld DEF RobotsRead
<1>2. PICK file \in RobotsFiles :
        \/ \E status \in {"blocked", "unavailable"} : End(t, status)
        \/ ~(file.delay > MaxCrawlDelay) /\ Verified(t, file)
  BY DEF RobotsRead
<1>3. CASE \E status \in {"blocked", "unavailable"} : End(t, status)
  BY <1>1, <1>3, EndIInv
<1>4. CASE ~(file.delay > MaxCrawlDelay) /\ Verified(t, file)
  <2>1. file.delay \in 0 .. MaxCrawlDelay
    BY <1>4, WebAssumption, LimitsAssumption
  <2> QED
    BY <1>1, <1>4, <2>1, VerifiedIInv
<1> QED
  BY <1>2, <1>3, <1>4

LEMMA RobotsMissingIInv ==
  ASSUME IInv, NEW t \in Tasks, RobotsMissing(t)
  PROVE  IInv'
<1>1. NoRobotsFile.delay \in 0 .. MaxCrawlDelay
  BY LimitsAssumption DEF NoRobotsFile
<1> QED
  BY <1>1, VerifiedIInv DEF RobotsMissing

LEMMA PageReadIInv ==
  ASSUME IInv, NEW t \in Tasks, PageRead(t)
  PROVE  IInv'
<1>1. Typed' /\ Others(t)
  BY NoFetchType DEF IInv, TypeOK, PageRead, Typed, Others
<1>2. fetch'[t] = NoFetch /\ phase'[t] = "parse"
  BY DEF IInv, TypeOK, PageRead
<1>3. Release(t)
  BY NothingHeld DEF PageRead
<1> QED
  BY <1>1, <1>2, <1>3, OneTask, NoFetchType DEF PageRead

LEMMA ReceiveIInv ==
  ASSUME IInv, NEW t \in Tasks, Receive(t)
  PROVE  IInv'
<1>1. CASE Redirected(t)
  BY <1>1, RedirectedIInv
<1>2. CASE Failed(t)
  BY <1>2, NothingHeld, UnavailableIInv DEF Failed
<1>3. CASE Rejected(t)
  BY <1>3, ViolationIInv DEF Rejected
<1>4. CASE RobotsDenied(t)
  BY <1>4, NothingHeld, EndIInv DEF RobotsDenied
<1>5. CASE RobotsMissing(t)
  BY <1>5, RobotsMissingIInv
<1>6. CASE RobotsRead(t)
  BY <1>6, RobotsReadIInv
<1>7. CASE PageRead(t)
  BY <1>7, PageReadIInv
<1> QED
  BY <1>1, <1>2, <1>3, <1>4, <1>5, <1>6, <1>7 DEF Receive

LEMMA ResumeIInv ==
  ASSUME IInv, NEW t \in Tasks, Resume(t)
  PROVE  IInv'
<1>1. /\ fetch[t].stage = "idle"
      /\ attempt[t] \in 1 .. MaxAttempts - 1
      /\ rules[t] \in RobotsFiles \cup {NoRobotsFile}
      /\ rules[t].delay \in 0 .. MaxCrawlDelay
      /\ Target[t] \in Pages
  BY WebAssumption DEF IInv, Equipped, Resume
<1>2. attempt[t] + 1 \in 0 .. MaxAttempts /\ attempt[t] + 1 \in 1 .. MaxAttempts
  BY <1>1, LimitsAssumption
<1>3. Typed' /\ Others(t)
  BY <1>1, <1>2, FetchType DEF IInv, TypeOK, Resume, NextAttempt, Typed, Others
<1>4. /\ fetch'[t] = NewFetch(Target[t]) /\ phase'[t] = "page"
      /\ rules'[t] = rules[t] /\ attempt'[t] = attempt[t] + 1
  BY DEF IInv, TypeOK, Resume, NextAttempt
<1>5. Release(t)
  BY <1>1, NothingHeld DEF Resume
<1> QED
  BY <1>1, <1>2, <1>3, <1>4, <1>5, OneTask, FetchType DEF Resume

(* A timeout may strike under the lock, which is given back.                *)
LEMMA FetchTimeoutIInv ==
  ASSUME IInv, NEW t \in Tasks, FetchTimeout(t)
  PROVE  IInv'
BY UnavailableIInv, EndIInv DEF FetchTimeout

LEMMA CollectIInv ==
  ASSUME IInv, NEW t \in Tasks, Collect(t)
  PROVE  IInv'
<1>1. CASE Refuse(t)
  <2>1. fetch[t].stage # "spacing"
    BY <1>1 DEF IInv, Equipped, Refuse
  <2> QED
    BY <1>1, <2>1, NothingHeld, EndIInv DEF Refuse
<1>2. CASE Begin(t)
  BY <1>2, BeginIInv
<1>3. CASE GateOpen(t)
  BY <1>3, GateOpenIInv
<1>4. CASE GateShut(t)
  BY <1>4, ViolationIInv DEF GateShut
<1>5. CASE Acquire(t)
  BY <1>5, AcquireIInv
<1>6. CASE Send(t)
  BY <1>6, SendIInv
<1>7. CASE Receive(t)
  BY <1>7, ReceiveIInv
<1>8. CASE FetchTimeout(t)
  BY <1>8, FetchTimeoutIInv
<1>9. CASE Resume(t)
  BY <1>9, ResumeIInv
<1>10. CASE Parsed(t)
  <2>1. fetch[t].stage # "spacing"
    BY <1>10 DEF IInv, Equipped, Parsed
  <2> QED
    BY <1>10, <2>1, NothingHeld, EndIInv DEF Parsed
<1> QED
  BY <1>1, <1>2, <1>3, <1>4, <1>5, <1>6, <1>7, <1>8, <1>9, <1>10 DEF Collect

-----------------------------------------------------------------------------
(* A tick takes from a sleep at most what it adds to the age of the last    *)
(* request, and the cap on that age is no shorter than any interval.        *)
LEMMA TickIInv ==
  ASSUME IInv, Tick
  PROVE  IInv'
<1>1. UNCHANGED <<lock, phase, attempt, rules, outcome>>
  BY DEF Tick
<1>2. \A h \in Hosts :
        /\ since'[h] = IF since[h] < LongestInterval THEN since[h] + 1 ELSE since[h]
        /\ since'[h] \in 0 .. LongestInterval
  BY LongestType DEF IInv, TypeOK, Tick
<1>3. \A t \in Tasks : nap'[t] = Larger(0, nap[t] - 1) /\ nap'[t] \in Nat
  BY DEF IInv, TypeOK, Tick, Larger
<1>4. \A t \in Tasks :
        /\ fetch'[t] \in [stage : Stages, at : Pages \cup {Null},
                          visited : SUBSET Pages, clock : Nat]
        /\ fetch'[t].stage = fetch[t].stage /\ fetch'[t].at = fetch[t].at
  <2> SUFFICES ASSUME NEW t \in Tasks
               PROVE  /\ fetch'[t] \in [stage : Stages, at : Pages \cup {Null},
                                        visited : SUBSET Pages, clock : Nat]
                      /\ fetch'[t].stage = fetch[t].stage /\ fetch'[t].at = fetch[t].at
    OBVIOUS
  <2>1. fetch[t] \in [stage : Stages, at : Pages \cup {Null},
                      visited : SUBSET Pages, clock : Nat]
    BY DEF IInv, TypeOK
  <2>2. fetch'[t] = IF Timed(t) THEN [fetch[t] EXCEPT !.clock = @ + 1] ELSE fetch[t]
    BY DEF Tick
  <2> QED
    BY <2>1, <2>2
<1>5. \A t \in Tasks : Host(t)' = Host(t) /\ Interval(t)' = Interval(t)
  BY <1>1, <1>4 DEF Host, Interval
<1>6. TypeOK'
  <2>1. /\ since' \in [Hosts -> 0 .. LongestInterval]
        /\ nap' \in [Tasks -> Nat]
    BY <1>2, <1>3 DEF Tick
  <2>2. fetch' \in [Tasks -> [stage : Stages, at : Pages \cup {Null},
                              visited : SUBSET Pages, clock : Nat]]
    BY <1>4 DEF Tick
  <2>3. \A h \in Hosts, t \in Tasks :
          lock'[h] = t <=> fetch'[t].stage = "spacing" /\ Host(t)' = h
    BY <1>1, <1>4, <1>5 DEF IInv, TypeOK
  <2> QED
    BY <1>1, <2>1, <2>2, <2>3 DEF IInv, TypeOK
<1>7. Equipped'
  BY <1>1, <1>4 DEF IInv, Equipped
<1>8. SleepsEnough'
  <2> SUFFICES ASSUME NEW t \in Tasks, fetch[t].stage = "spacing"
               PROVE  nap'[t] + since'[Host(t)] >= Interval(t)
    BY <1>4, <1>5 DEF SleepsEnough
  <2> DEFINE h == Host(t)
  <2>1. h \in Hosts
    BY PageOrigin DEF IInv, Equipped, Host
  <2>2. Interval(t) \in 0 .. LongestInterval
    BY IntervalBound
  <2>3. nap[t] \in Nat /\ since[h] \in 0 .. LongestInterval /\ nap[t] + since[h] >= Interval(t)
    BY <2>1 DEF IInv, TypeOK, SleepsEnough
  <2>4. /\ since'[h] = IF since[h] < LongestInterval THEN since[h] + 1 ELSE since[h]
        /\ nap'[t] = Larger(0, nap[t] - 1)
    BY <1>2, <1>3, <2>1
  <2> HIDE DEF h
  <2>5. nap'[t] + since'[h] >= Interval(t)
    BY <2>2, <2>3, <2>4, LongestType DEF Larger
  <2> QED
    BY <2>5 DEF h
<1>9. Passed'
  BY <1>1, <1>4 DEF IInv, Passed, Permitted, Home
<1> QED
  BY <1>6, <1>7, <1>8, <1>9 DEF IInv

LEMMA StutterIInv ==
  ASSUME IInv, UNCHANGED vars
  PROVE  IInv'
<1> USE DEF vars
<1>1. TypeOK'
  BY DEF IInv, TypeOK, Host
<1>2. Equipped'
  BY DEF IInv, Equipped
<1>3. SleepsEnough'
  BY DEF IInv, SleepsEnough, Host, Interval
<1>4. Passed'
  BY DEF IInv, Passed, Permitted, Home
<1> QED
  BY <1>1, <1>2, <1>3, <1>4 DEF IInv

LEMMA Inductive == Spec => []IInv
<1>1. IInv /\ [Next]_vars => IInv'
  <2> SUFFICES ASSUME IInv, [Next]_vars PROVE IInv'
    OBVIOUS
  <2>1. CASE Tick
    BY <2>1, TickIInv
  <2>2. CASE \E t \in Tasks : Collect(t)
    BY <2>2, CollectIInv
  <2>3. CASE UNCHANGED vars
    BY <2>3, StutterIInv
  <2> QED
    BY <2>1, <2>2, <2>3 DEF Next
<1> QED
  BY InitIInv, <1>1, PTL DEF Spec

-----------------------------------------------------------------------------
(* Types, and a host's lock in the hands of the task that sleeps for it and *)
(* of nobody else, so that no timeout, redirect or retry leaves one behind  *)
(* (HostRateLimiter.wait, SafeSourceFetcher.fetch).                         *)
THEOREM WebTypeCorrect == Spec => []TypeOK
<1>1. IInv => TypeOK
  BY DEF IInv
<1> QED
  BY Inductive, <1>1, PTL

(* The step to "sent" is Send, which finds the sleep over.                  *)
LEMMA SentBySend ==
  ASSUME IInv, [Next]_vars, NEW t \in Tasks, Sends(t)
  PROVE  nap[t] = 0
<1> USE DEF Sends
<1>1. CASE Tick
  <2>1. fetch'[t] = IF Timed(t) THEN [fetch[t] EXCEPT !.clock = @ + 1] ELSE fetch[t]
    BY <1>1 DEF Tick
  <2>2. fetch'[t].stage = fetch[t].stage
    BY <2>1 DEF IInv, TypeOK
  <2> QED
    BY <2>2
<1>2. ASSUME NEW u \in Tasks, Collect(u), u # t
      PROVE  FALSE
  <2>1. /\ \A status : End(u, status) => fetch'[t] = fetch[t]
        /\ \A file : Verified(u, file) => fetch'[t] = fetch[t]
        /\ \A retryable : Unavailable(u, retryable) => fetch'[t] = fetch[t]
        /\ Violation(u) => fetch'[t] = fetch[t]
    BY <1>2 DEF IInv, TypeOK, End, Verified, Unavailable, Violation
  <2>2. CASE Refuse(u) \/ GateShut(u) \/ FetchTimeout(u) \/ Parsed(u)
    BY <2>1, <2>2 DEF Refuse, GateShut, FetchTimeout, Parsed
  <2>3. CASE Begin(u) \/ GateOpen(u) \/ Acquire(u) \/ Send(u) \/ Resume(u)
    BY <1>2, <2>3 DEF IInv, TypeOK, Begin, GateOpen, Acquire, Send, Resume
  <2>4. CASE Failed(u) \/ Rejected(u) \/ RobotsDenied(u) \/ RobotsMissing(u) \/ RobotsRead(u)
    BY <2>1, <2>4 DEF Failed, Rejected, RobotsDenied, RobotsMissing, RobotsRead
  <2>5. CASE PageRead(u)
    BY <1>2, <2>5 DEF IInv, TypeOK, PageRead
  <2>6. CASE Redirected(u)
    <3> DEFINE Hop(p) == [fetch[u] EXCEPT !.at = p, !.visited = @ \cup {p}, !.stage = "gate"]
    <3>1. PICK p \in Pages :
            Unavailable(u, FALSE) \/ Violation(u) \/ fetch' = [fetch EXCEPT ![u] = Hop(p)]
      BY <2>6 DEF Redirected
    <3> HIDE DEF Hop
    <3>2. CASE fetch' = [fetch EXCEPT ![u] = Hop(p)]
      BY <1>2, <3>2 DEF IInv, TypeOK
    <3> QED
      BY <2>1, <3>1, <3>2
  <2>7. fetch'[t] = fetch[t]
    BY <1>2, <2>2, <2>3, <2>4, <2>5, <2>6 DEF Collect, Receive
  <2> QED
    BY <2>7
<1>3. CASE Collect(t)
  <2>1. CASE FetchTimeout(t)
    <3>1. fetch'[t] = NoFetch
      BY <2>1 DEF IInv, TypeOK, FetchTimeout, Unavailable, End
    <3> QED
      BY <3>1, NoFetchType
  <2>2. CASE Send(t)
    BY <2>2 DEF Send
  <2>3. CASE Refuse(t) \/ Begin(t) \/ Resume(t) \/ Parsed(t)
    BY <2>3 DEF IInv, Equipped, Refuse, Begin, Resume, Parsed
  <2>4. CASE GateOpen(t) \/ GateShut(t) \/ Acquire(t) \/ Receive(t)
    BY <2>4 DEF GateOpen, GateShut, Acquire, Receive, Redirected, Failed, Rejected,
                RobotsDenied, RobotsMissing, RobotsRead, PageRead
  <2> QED
    BY <1>3, <2>1, <2>2, <2>3, <2>4 DEF Collect
<1>4. CASE UNCHANGED vars
  BY <1>4 DEF vars
<1> QED
  BY <1>1, <1>2, <1>3, <1>4 DEF Next

(* Whatever the number of collections and sites, no request follows another *)
(* to its host in less than the interval the task owes it                   *)
(* (HostRateLimiter.wait): the task that holds the lock sleeps long enough, *)
(* and no other can send to that host meanwhile.                            *)
THEOREM RequestsAreSpaced == Spec => RequestsSpaced
<1>1. IInv /\ [Next]_vars => \A t \in Tasks : Sends(t) => since[Host(t)] >= Interval(t)
  <2> SUFFICES ASSUME IInv, [Next]_vars, NEW t \in Tasks, Sends(t)
               PROVE  since[Host(t)] >= Interval(t)
    OBVIOUS
  <2>1. fetch[t].stage = "spacing" /\ Host(t) \in Hosts
    BY PageOrigin DEF Sends, IInv, Equipped, Host
  <2>2. nap[t] = 0 /\ nap[t] + since[Host(t)] >= Interval(t) /\ since[Host(t)] \in Int
    BY <2>1, SentBySend, LongestType DEF IInv, TypeOK, SleepsEnough
  <2> QED
    BY <2>2
<1> QED
  BY <1>1, Inductive, PTL DEF Spec, RequestsSpaced

(* Every hop of every attempt that is sent was asked about before, by the   *)
(* rules that hold when it is sent (before_request in collect()).           *)
THEOREM RobotsAreRespected == Spec => RobotsRespected
<1>1. IInv => \A t \in Tasks :
        Sends(t) /\ phase[t] # "robots" =>
          OriginOf[fetch[t].at] = Home(t) /\ fetch[t].at \in rules[t].allows
  BY DEF IInv, Equipped, Passed, Permitted, Sends
<1> QED
  BY <1>1, Inductive, PTL DEF RobotsRespected

-----------------------------------------------------------------------------
(* The time of a collection                                                 *)

(* The clock of a fetch does not run past its timeout, nor that of a parse. *)
Clocked ==
  \A t \in Tasks :
    /\ phase[t] \in {"robots", "page"} =>
         fetch[t].stage # "idle" /\ fetch[t].clock <= Timeout
    /\ phase[t] = "parse" => fetch[t].clock <= ParseTimeout

(* What a step of a task does to its phase, its clock and its sleep.        *)
Ends(t) == phase'[t] = "done"
Starts(t) ==
  /\ phase[t] = "new" /\ phase'[t] = "robots"
  /\ fetch'[t].stage # "idle" /\ fetch'[t].clock = 0
Asks(t) ==
  /\ phase[t] = "robots" /\ phase'[t] = "page" /\ attempt'[t] = 1
  /\ fetch'[t].stage # "idle" /\ fetch'[t].clock = 0
Rests(t) ==
  /\ phase[t] = "page" /\ phase'[t] = "backoff" /\ attempt[t] < MaxAttempts
  /\ attempt'[t] = attempt[t] /\ nap'[t] = Backoff(attempt[t])
Fetches(t) ==
  /\ phase[t] \in {"robots", "page"} /\ phase'[t] = phase[t] /\ attempt'[t] = attempt[t]
  /\ fetch'[t].stage # "idle" /\ fetch'[t].clock = fetch[t].clock
Reads(t) ==
  /\ phase[t] = "page" /\ phase'[t] = "parse" /\ fetch'[t].clock = 0
AsksAgain(t) ==
  /\ phase[t] = "backoff" /\ phase'[t] = "page" /\ attempt'[t] = attempt[t] + 1
  /\ nap[t] = 0 /\ fetch'[t].stage # "idle" /\ fetch'[t].clock = 0

Moves(t) ==
  \/ Ends(t) \/ Starts(t) \/ Asks(t) \/ Rests(t) \/ Fetches(t) \/ Reads(t)
  \/ AsksAgain(t)

LEMMA Clocks ==
  /\ NoFetch.clock = 0
  /\ \A p \in Pages : NewFetch(p).clock = 0 /\ NewFetch(p).stage = "gate"
BY DEF NoFetch, NewFetch

LEMMA EndMoves ==
  ASSUME IInv, NEW t \in Tasks, NEW status, End(t, status)
  PROVE  Moves(t) /\ Others(t)
BY DEF IInv, TypeOK, End, Moves, Ends, Others

LEMMA UnavailableMoves ==
  ASSUME IInv, NEW t \in Tasks, NEW retryable \in BOOLEAN, Unavailable(t, retryable)
  PROVE  Moves(t) /\ Others(t)
<1>1. CASE phase[t] = "page" /\ retryable /\ MayRetry(t)
  BY <1>1 DEF IInv, TypeOK, Unavailable, Moves, Rests, Others, MayRetry
<1>2. CASE ~(phase[t] = "page" /\ retryable /\ MayRetry(t))
  BY <1>2, EndMoves DEF Unavailable
<1> QED
  BY <1>1, <1>2

LEMMA VerifiedMoves ==
  ASSUME IInv, NEW t \in Tasks, NEW file, phase[t] = "robots", Verified(t, file)
  PROVE  Moves(t) /\ Others(t)
<1>1. Target[t] \in Pages
  BY WebAssumption
<1> QED
  BY <1>1, Clocks DEF IInv, TypeOK, Verified, Moves, Asks, Others

LEMMA StageMoves ==
  ASSUME IInv, NEW t \in Tasks, NEW s \in Stages \ {"idle"}, fetch[t].stage # "idle",
         fetch' = [fetch EXCEPT ![t].stage = s], UNCHANGED <<phase, attempt>>
  PROVE  /\ Moves(t)
         /\ \A u \in Tasks \ {t} : fetch'[u] = fetch[u]
<1>1. fetch'[t].stage = s /\ \A u \in Tasks \ {t} : fetch'[u] = fetch[u]
  BY StageType
<1>2. fetch'[t].clock = fetch[t].clock
  <2>1. fetch'[t] = [fetch[t] EXCEPT !.stage = s]
    BY DEF IInv, TypeOK
  <2>2. fetch[t] \in [stage : Stages, at : Pages \cup {Null},
                      visited : SUBSET Pages, clock : Nat]
    BY DEF IInv, TypeOK
  <2> QED
    BY <2>1, <2>2
<1>3. phase[t] \in {"robots", "page"}
  BY DEF IInv, Equipped
<1> QED
  BY <1>1, <1>2, <1>3 DEF Moves, Fetches

LEMMA RedirectedMoves ==
  ASSUME IInv, NEW t \in Tasks, Redirected(t)
  PROVE  Moves(t) /\ Others(t)
<1> DEFINE Hop(p) == [fetch[t] EXCEPT !.at = p, !.visited = @ \cup {p}, !.stage = "gate"]
<1>1. PICK p \in Pages :
        \/ Unavailable(t, FALSE)
        \/ Violation(t)
        \/ /\ fetch' = [fetch EXCEPT ![t] = Hop(p)]
           /\ UNCHANGED <<phase, nap, attempt, rules, outcome>>
  BY DEF Redirected
<1>2. CASE Unavailable(t, FALSE)
  BY <1>2, UnavailableMoves
<1>3. CASE Violation(t)
  BY <1>3, EndMoves DEF Violation
<1>4. CASE /\ fetch' = [fetch EXCEPT ![t] = Hop(p)]
           /\ UNCHANGED <<phase, nap, attempt, rules, outcome>>
  <2>1. Hop(p).stage = "gate" /\ Hop(p).clock = fetch[t].clock
    <3>1. fetch[t] \in [stage : Stages, at : Pages \cup {Null},
                        visited : SUBSET Pages, clock : Nat]
      BY DEF IInv, TypeOK
    <3> QED
      BY <3>1
  <2> HIDE DEF Hop
  <2>2. fetch'[t] = Hop(p) /\ \A u \in Tasks \ {t} : fetch'[u] = fetch[u]
    BY <1>4 DEF IInv, TypeOK
  <2>3. phase[t] \in {"robots", "page"}
    BY DEF IInv, Equipped, Redirected
  <2> QED
    BY <1>4, <2>1, <2>2, <2>3 DEF Moves, Fetches, Others
<1> QED
  BY <1>1, <1>2, <1>3, <1>4

LEMMA ReceiveMoves ==
  ASSUME IInv, NEW t \in Tasks, Receive(t)
  PROVE  Moves(t) /\ Others(t)
<1>1. CASE Redirected(t)
  BY <1>1, RedirectedMoves
<1>2. CASE Failed(t)
  BY <1>2, UnavailableMoves DEF Failed
<1>3. CASE Rejected(t)
  BY <1>3, EndMoves DEF Rejected, Violation
<1>4. CASE RobotsDenied(t)
  BY <1>4, EndMoves DEF RobotsDenied
<1>5. CASE RobotsMissing(t)
  BY <1>5, VerifiedMoves DEF RobotsMissing
<1>6. CASE RobotsRead(t)
  BY <1>6, VerifiedMoves, EndMoves DEF RobotsRead
<1>7. CASE PageRead(t)
  BY <1>7, Clocks DEF IInv, TypeOK, PageRead, Moves, Reads, Others
<1> QED
  BY <1>1, <1>2, <1>3, <1>4, <1>5, <1>6, <1>7 DEF Receive

LEMMA CollectMoves ==
  ASSUME IInv, NEW t \in Tasks, Collect(t)
  PROVE  Moves(t) /\ Others(t)
<1>1. CASE Refuse(t)
  BY <1>1, EndMoves DEF Refuse
<1>2. CASE Begin(t)
  <2>1. RobotsOf[Home(t)] \in Pages
    BY WebAssumption, PageOrigin DEF Home
  <2> QED
    BY <1>2, <2>1, Clocks DEF IInv, TypeOK, Begin, Moves, Starts, Others
<1>3. CASE GateOpen(t)
  BY <1>3, StageMoves DEF GateOpen, Others
<1>4. CASE GateShut(t)
  BY <1>4, EndMoves DEF GateShut, Violation
<1>5. CASE Acquire(t)
  <2>1. Moves(t) /\ \A u \in Tasks \ {t} : fetch'[u] = fetch[u]
    BY <1>5, StageMoves DEF Acquire
  <2>2. \A u \in Tasks \ {t} : nap'[u] = nap[u]
    BY <1>5 DEF IInv, TypeOK, Acquire
  <2> QED
    BY <1>5, <2>1, <2>2 DEF Acquire, Others
<1>6. CASE Send(t)
  BY <1>6, StageMoves DEF Send, Others
<1>7. CASE Receive(t)
  BY <1>7, ReceiveMoves
<1>8. CASE FetchTimeout(t)
  BY <1>8, UnavailableMoves, EndMoves DEF FetchTimeout
<1>9. CASE Resume(t)
  <2>1. Target[t] \in Pages
    BY WebAssumption
  <2> QED
    BY <1>9, <2>1, Clocks DEF IInv, TypeOK, Resume, NextAttempt, Moves, AsksAgain, Others
<1>10. CASE Parsed(t)
  BY <1>10, EndMoves DEF Parsed
<1> QED
  BY <1>1, <1>2, <1>3, <1>4, <1>5, <1>6, <1>7, <1>8, <1>9, <1>10 DEF Collect

LEMMA FetchClock ==
  ASSUME IInv
  PROVE  \A t \in Tasks : /\ fetch[t].clock \in Nat /\ nap[t] \in Nat
                          /\ attempt[t] \in 0 .. MaxAttempts /\ phase[t] \in Phases
<1>1. \A t \in Tasks : fetch[t] \in [stage : Stages, at : Pages \cup {Null},
                                     visited : SUBSET Pages, clock : Nat]
  BY DEF IInv, TypeOK
<1> QED
  BY <1>1 DEF IInv, TypeOK

LEMMA TickClocks ==
  ASSUME IInv, Tick, NEW t \in Tasks
  PROVE  /\ phase'[t] = phase[t] /\ attempt'[t] = attempt[t]
         /\ fetch'[t].stage = fetch[t].stage
         /\ fetch'[t].clock = IF Timed(t) THEN fetch[t].clock + 1 ELSE fetch[t].clock
         /\ nap'[t] = Larger(0, nap[t] - 1)
         /\ fetch[t].stage # "idle" => fetch[t].clock < Timeout
         /\ phase[t] = "parse" => fetch[t].clock < ParseTimeout
         /\ phase[t] = "backoff" => nap[t] > 0
<1>1. fetch[t] \in [stage : Stages, at : Pages \cup {Null},
                    visited : SUBSET Pages, clock : Nat]
  BY DEF IInv, TypeOK
<1>2. fetch'[t] = IF Timed(t) THEN [fetch[t] EXCEPT !.clock = @ + 1] ELSE fetch[t]
  BY DEF Tick
<1>3. /\ fetch'[t].stage = fetch[t].stage
      /\ fetch'[t].clock = IF Timed(t) THEN fetch[t].clock + 1 ELSE fetch[t].clock
  BY <1>1, <1>2
<1> QED
  BY <1>3 DEF Tick

LEMMA ClockedNext ==
  ASSUME IInv, Clocked, [Next]_vars
  PROVE  Clocked'
<1>1. CASE Tick
  <2> SUFFICES ASSUME NEW t \in Tasks
               PROVE  /\ phase'[t] \in {"robots", "page"} =>
                           fetch'[t].stage # "idle" /\ fetch'[t].clock <= Timeout
                      /\ phase'[t] = "parse" => fetch'[t].clock <= ParseTimeout
    BY DEF Clocked
  <2> QED
    BY <1>1, TickClocks, FetchClock, LimitsAssumption DEF Clocked, Timed
<1>2. ASSUME NEW t \in Tasks, Collect(t) PROVE Clocked'
  <2>1. Moves(t) /\ Others(t)
    BY <1>2, CollectMoves
  <2> SUFFICES ASSUME NEW u \in Tasks
               PROVE  /\ phase'[u] \in {"robots", "page"} =>
                           fetch'[u].stage # "idle" /\ fetch'[u].clock <= Timeout
                      /\ phase'[u] = "parse" => fetch'[u].clock <= ParseTimeout
    BY DEF Clocked
  <2>2. CASE u = t
    BY <2>1, <2>2, LimitsAssumption
       DEF Moves, Ends, Starts, Asks, Rests, Fetches, Reads, AsksAgain, Clocked
  <2>3. CASE u # t
    BY <2>1, <2>3 DEF Others, Clocked
  <2> QED
    BY <2>2, <2>3
<1>3. CASE UNCHANGED vars
  BY <1>3 DEF vars, Clocked
<1> QED
  BY <1>1, <1>2, <1>3 DEF Next

LEMMA ClockedInvariant == Spec => [](IInv /\ Clocked)
<1>1. Init => Clocked
  BY DEF Init, Clocked
<1>2. IInv /\ Clocked /\ [Next]_vars => Clocked'
  BY ClockedNext
<1> QED
  BY <1>1, <1>2, Inductive, PTL DEF Spec

(* The time that the attempts from the a-th on may take shrinks by a        *)
(* timeout and a backoff with each.                                         *)
LEMMA AttemptsTake ==
  ASSUME NEW a \in 1 .. MaxAttempts
  PROVE  /\ Attempts(a) \in Nat /\ Attempts(a) >= Timeout + ParseTimeout
         /\ a < MaxAttempts =>
              /\ Backoff(a) \in Nat
              /\ Attempts(a) = Timeout + Backoff(a) + Attempts(a + 1)
<1>1. MaxAttempts \in 1 .. MaxAttempts /\ MaxAttempts \in Nat
  BY LimitsAssumption
<1>2. \A b \in 1 .. MaxAttempts :
        Attempts(b) = (MaxAttempts - b + 1) * Timeout
                        + (Backoff(MaxAttempts) - Backoff(b)) + ParseTimeout
  BY DEF Attempts, Backoffs, Backoff
<1>3. /\ Backoff(a) \in Nat /\ Backoff(MaxAttempts) \in Nat
      /\ Backoff(a) <= Backoff(MaxAttempts)
  BY <1>1, BackoffAssumption
<1>4. ASSUME NEW n \in Nat PROVE (n + 1) * Timeout = n * Timeout + Timeout /\ n * Timeout \in Nat
  BY LimitsAssumption
<1> DEFINE n == MaxAttempts - a
           B == Backoff(MaxAttempts) - Backoff(a)
<1>5. n \in Nat /\ B \in Nat /\ MaxAttempts - a + 1 = n + 1
  BY <1>1, <1>3
<1>6. Attempts(a) = (n + 1) * Timeout + B + ParseTimeout
  BY <1>2
<1> HIDE DEF n, B
<1>7. Attempts(a) \in Nat /\ Attempts(a) >= Timeout + ParseTimeout
  <2>1. (n + 1) * Timeout = n * Timeout + Timeout /\ n * Timeout \in Nat
    BY <1>4, <1>5
  <2> QED
    BY <1>5, <1>6, <2>1, LimitsAssumption
<1>8. ASSUME a < MaxAttempts
      PROVE  Attempts(a) = Timeout + Backoff(a) + Attempts(a + 1)
  <2>1. a + 1 \in 1 .. MaxAttempts /\ MaxAttempts - (a + 1) + 1 = n
    BY <1>1, <1>8 DEF n
  <2>2. Backoff(a + 1) = 2 * Backoff(a)
    BY <1>8, BackoffAssumption
  <2>3. Attempts(a + 1) = n * Timeout + (Backoff(MaxAttempts) - 2 * Backoff(a)) + ParseTimeout
    BY <1>2, <2>1, <2>2
  <2>4. (n + 1) * Timeout = n * Timeout + Timeout /\ n * Timeout \in Nat
    BY <1>4, <1>5
  <2>5. Attempts(a) = n * Timeout + Timeout + (Backoff(MaxAttempts) - Backoff(a)) + ParseTimeout
    BY <1>6, <2>4 DEF B
  <2> QED
    BY <1>3, <2>3, <2>4, <2>5, LimitsAssumption
<1> QED
  BY <1>3, <1>7, <1>8

(* What is left is a natural number in every state.                         *)
LEMMA SomeLeft ==
  ASSUME IInv, Clocked, NEW t \in Tasks
  PROVE  Left(t) \in Nat
<1>1. fetch[t].clock \in Nat /\ nap[t] \in Nat /\ phase[t] \in Phases
  BY FetchClock
<1>2. 1 \in 1 .. MaxAttempts /\ Timeout \in Nat /\ ParseTimeout \in Nat
  BY LimitsAssumption
<1>3. Attempts(1) \in Nat
  BY <1>2, AttemptsTake
<1>4. CASE phase[t] = "new"
  BY <1>2, <1>3, <1>4 DEF Left
<1>5. CASE phase[t] = "robots"
  BY <1>1, <1>2, <1>3, <1>5 DEF Left, Clocked
<1>6. CASE phase[t] = "page"
  <2>1. attempt[t] \in 1 .. MaxAttempts
    BY <1>6 DEF IInv, Equipped
  <2>2. Attempts(attempt[t]) \in Nat /\ Attempts(attempt[t]) >= Timeout + ParseTimeout
    BY <2>1, AttemptsTake
  <2> QED
    BY <1>1, <1>2, <1>6, <2>2 DEF Left, Clocked
<1>7. CASE phase[t] = "backoff"
  <2>1. attempt[t] + 1 \in 1 .. MaxAttempts
    BY <1>7, LimitsAssumption DEF IInv, Equipped
  <2>2. Attempts(attempt[t] + 1) \in Nat
    BY <2>1, AttemptsTake
  <2> QED
    BY <1>1, <1>7, <2>2 DEF Left
<1>8. CASE phase[t] = "parse"
  BY <1>1, <1>2, <1>8 DEF Left, Clocked
<1>9. CASE phase[t] = "done"
  BY <1>9 DEF Left
<1> QED
  BY <1>1, <1>4, <1>5, <1>6, <1>7, <1>8, <1>9

LEMMA MovesTakeNothing ==
  ASSUME IInv, Clocked, IInv', Clocked', NEW t \in Tasks, Moves(t)
  PROVE  Left(t)' <= Left(t)
<1>1. /\ fetch[t].clock \in Nat /\ fetch'[t].clock \in Nat
      /\ nap[t] \in Nat /\ nap'[t] \in Nat
  <2>1. fetch[t].clock \in Nat /\ nap[t] \in Nat
    BY FetchClock
  <2>2. fetch'[t].clock \in Nat /\ nap'[t] \in Nat
    <3>1. nap' \in [Tasks -> Nat]
      BY DEF IInv, TypeOK
    <3>2. fetch'[t] \in [stage : Stages, at : Pages \cup {Null},
                         visited : SUBSET Pages, clock : Nat]
      BY DEF IInv, TypeOK
    <3> QED
      BY <3>1, <3>2
  <2> QED
    BY <2>1, <2>2
<1>2. 1 \in 1 .. MaxAttempts /\ Timeout \in Nat /\ ParseTimeout \in Nat
  BY LimitsAssumption
<1>3. Attempts(1) \in Nat
  BY <1>2, AttemptsTake
<1>4. Left(t) \in Nat
  BY SomeLeft
<1>5. CASE Ends(t)
  <2>1. Left(t)' = 0
    BY <1>5 DEF Ends, Left
  <2> QED
    BY <1>4, <2>1
<1>6. CASE Starts(t)
  BY <1>2, <1>3, <1>6 DEF Starts, Left
<1>7. CASE Asks(t)
  BY <1>1, <1>2, <1>3, <1>7 DEF Asks, Left, Clocked
<1>8. CASE Rests(t)
  <2>1. attempt[t] \in 1 .. MaxAttempts /\ attempt[t] < MaxAttempts
    BY <1>8 DEF IInv, Equipped, Rests
  <2>2. attempt[t] + 1 \in 1 .. MaxAttempts
    BY <2>1, LimitsAssumption
  <2>3. /\ Attempts(attempt[t]) =
             Timeout + Backoff(attempt[t]) + Attempts(attempt[t] + 1)
        /\ Backoff(attempt[t]) \in Nat /\ Attempts(attempt[t] + 1) \in Nat
    BY <2>1, <2>2, AttemptsTake
  <2>4. fetch[t].clock <= Timeout
    BY <1>8 DEF Rests, Clocked
  <2>5. /\ Left(t) = Attempts(attempt[t]) - fetch[t].clock
        /\ Left(t)' = Backoff(attempt[t]) + Attempts(attempt[t] + 1)
    BY <1>8 DEF Rests, Left
  <2> QED
    BY <1>1, <1>2, <2>3, <2>4, <2>5
<1>9. CASE Fetches(t)
  BY <1>4, <1>9 DEF Fetches, Left
<1>10. CASE Reads(t)
  <2>1. attempt[t] \in 1 .. MaxAttempts
    BY <1>10 DEF IInv, Equipped, Reads
  <2>2. Attempts(attempt[t]) \in Nat /\ Attempts(attempt[t]) >= Timeout + ParseTimeout
    BY <2>1, AttemptsTake
  <2>3. /\ Left(t) = Attempts(attempt[t]) - fetch[t].clock
        /\ Left(t)' = ParseTimeout - 0 /\ fetch[t].clock <= Timeout
    BY <1>10 DEF Reads, Left, Clocked
  <2> QED
    BY <1>1, <1>2, <2>2, <2>3
<1>11. CASE AsksAgain(t)
  <2>1. attempt[t] + 1 \in 1 .. MaxAttempts
    BY <1>11, LimitsAssumption DEF IInv, Equipped, AsksAgain
  <2>2. Attempts(attempt[t] + 1) \in Nat
    BY <2>1, AttemptsTake
  <2> QED
    BY <1>11, <2>2 DEF AsksAgain, Left
<1> QED
  BY <1>5, <1>6, <1>7, <1>8, <1>9, <1>10, <1>11 DEF Moves

LEMMA TickTakesTime ==
  ASSUME IInv, Clocked, Tick, NEW t \in Tasks
  PROVE  IF phase[t] \in {"new", "done"} THEN Left(t)' = Left(t)
         ELSE Left(t)' = Left(t) - 1
<1>1. /\ phase'[t] = phase[t] /\ attempt'[t] = attempt[t]
      /\ fetch'[t].clock = IF Timed(t) THEN fetch[t].clock + 1 ELSE fetch[t].clock
      /\ nap'[t] = Larger(0, nap[t] - 1)
      /\ phase[t] = "backoff" => nap[t] > 0
  BY TickClocks
<1>2. /\ fetch[t].clock \in Nat /\ nap[t] \in Nat /\ phase[t] \in Phases
      /\ Timeout \in Nat /\ ParseTimeout \in Nat
  BY FetchClock, LimitsAssumption
<1>3. Attempts(1) \in Nat
  BY AttemptsTake, LimitsAssumption
<1>4. CASE phase[t] = "new"
  BY <1>1, <1>4 DEF Left
<1>5. CASE phase[t] = "robots"
  BY <1>1, <1>2, <1>3, <1>5 DEF Left, Clocked, Timed
<1>6. CASE phase[t] = "page"
  <2>1. Attempts(attempt[t]) \in Nat
    BY <1>6, AttemptsTake DEF IInv, Equipped
  <2> QED
    BY <1>1, <1>2, <1>6, <2>1 DEF Left, Clocked, Timed
<1>7. CASE phase[t] = "backoff"
  <2>1. attempt[t] + 1 \in 1 .. MaxAttempts
    BY <1>7, LimitsAssumption DEF IInv, Equipped
  <2>2. Attempts(attempt[t] + 1) \in Nat
    BY <2>1, AttemptsTake
  <2> QED
    BY <1>1, <1>2, <1>7, <2>2 DEF Left, Larger
<1>8. CASE phase[t] = "parse"
  BY <1>1, <1>2, <1>8 DEF Left, Timed
<1>9. CASE phase[t] = "done"
  BY <1>1, <1>9 DEF Left
<1> QED
  BY <1>2, <1>4, <1>5, <1>6, <1>7, <1>8, <1>9

(* Whatever sites answer, whoever else waits for their hosts and however    *)
(* many attempts and redirects the settings allow, what a collection may    *)
(* still take never grows and shrinks with every tick while it runs         *)
(* (collect(): one timeout for the robots file and one for each attempt,    *)
(* the backoffs between them, the parser's time limit).                     *)
THEOREM TimeIsBounded == Spec => TimeBounded
<1> DEFINE Counts == \A t \in Tasks : Left(t) \in Nat
           Step ==
             \A t \in Tasks :
               /\ Left(t)' >= 0
               /\ Left(t)' <= Left(t)
               /\ Tick /\ phase[t] \notin {"new", "done"} => Left(t)' < Left(t)
<1>1. IInv /\ Clocked => Counts
  BY SomeLeft
<1>2. ASSUME IInv, Clocked, IInv', Clocked', Counts, Counts', [Next]_vars PROVE Step
  <2> SUFFICES ASSUME NEW t \in Tasks
               PROVE  /\ Left(t)' >= 0
                      /\ Left(t)' <= Left(t)
                      /\ Tick /\ phase[t] \notin {"new", "done"} => Left(t)' < Left(t)
    OBVIOUS
  <2>1. Left(t) \in Nat /\ Left(t)' \in Nat
    BY <1>2
  <2>2. CASE Tick
    <3>1. IF phase[t] \in {"new", "done"} THEN Left(t)' = Left(t)
          ELSE Left(t)' = Left(t) - 1
      BY <1>2, <2>2, TickTakesTime
    <3> QED
      BY <2>1, <3>1
  <2>3. ASSUME NEW u \in Tasks, Collect(u) PROVE Left(t)' <= Left(t)
    <3>1. Moves(u) /\ Others(u)
      BY <1>2, <2>3, CollectMoves
    <3>2. CASE u = t
      BY <1>2, <3>1, <3>2, MovesTakeNothing
    <3>3. CASE u # t
      <4>1. /\ phase'[t] = phase[t] /\ attempt'[t] = attempt[t]
            /\ fetch'[t] = fetch[t] /\ nap'[t] = nap[t]
        BY <3>1, <3>3 DEF Others
      <4>2. Left(t)' = Left(t)
        BY <4>1 DEF Left
      <4> QED
        BY <2>1, <4>2
    <3> QED
      BY <3>2, <3>3
  <2>4. ASSUME UNCHANGED vars PROVE Left(t)' <= Left(t)
    <3>1. /\ phase'[t] = phase[t] /\ attempt'[t] = attempt[t]
          /\ fetch'[t] = fetch[t] /\ nap'[t] = nap[t]
      BY <2>4 DEF vars
    <3>2. Left(t)' = Left(t)
      BY <3>1 DEF Left
    <3> QED
      BY <2>1, <3>2
  <2>5. CASE ~ Tick
    BY <1>2, <2>1, <2>3, <2>4, <2>5 DEF Next
  <2> QED
    BY <2>2, <2>5
<1>3. IInv /\ Clocked /\ Counts /\ (IInv /\ Clocked /\ Counts)' /\ [Next]_vars => Step
  BY <1>2
<1>4. Step => [Step]_vars
  OBVIOUS
<1> HIDE DEF Counts, Step
<1>5. Spec => [][Step]_vars
  BY <1>1, <1>3, <1>4, ClockedInvariant, PTL DEF Spec
<1> QED
  BY <1>5 DEF Step, TimeBounded
=============================================================================
