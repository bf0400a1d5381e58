------------------------------ MODULE IPRanges ------------------------------
(***************************************************************************)
(* One ip_ranges verifier (internal/verify/ip_ranges.go, cache.go) under   *)
(* its service (service.go).  Requests look in the cache of networks; on a *)
(* miss they fetch the sources, sharing one fetch through singleflight     *)
(* with each other and with the background refresher, which warms the      *)
(* cache at start and renews it on a ticker until Stop.                    *)
(*                                                                         *)
(* Time is a clock of equal units; what a goroutine does by itself takes   *)
(* no time, only fetches and the ticker do.  A fetch is named by the time  *)
(* at which it began, and so are the networks it brought; 0 is Go's zero   *)
(* time, or no networks.                                                   *)
(***************************************************************************)
EXTENDS Naturals, FiniteSetsExt

CONSTANTS
  Requests,       \* calls of Service.Verify for this bot
  Refresher,      \* the background goroutine
  Sources,        \* how many sources the bot has
  ClientTimeout,  \* http.Client.Timeout, for each source
  VerifyTimeout,  \* the deadline of a request's context
  Backoff,        \* fetchBackoff
  Refresh,        \* the configured lifetime of a fetch
  UseStale,       \* stale_action is use_stale
  MaxStale,       \* max_stale
  MaxTime         \* bound of the clock, for TLC

ASSUME TimesAssumption ==
  /\ {Sources, ClientTimeout, VerifyTimeout, Backoff} \subseteq Nat \ {0}
  /\ {Refresh, MaxStale, MaxTime} \subseteq Nat
ASSUME StaleAssumption == UseStale \in BOOLEAN
ASSUME ActorsAssumption == Refresher \notin Requests

VARIABLES
  now,        \* time.Now()
  cache,      \* rangeCache
  pc,         \* where each goroutine is
  leader,     \* whose fetch it waits for
  began,      \* when the fetch it leads began
  result,     \* what the fetch brought it: networks, or 0 for an error
  t,          \* the `now' of a request's loadNetworks
  answer,     \* what loadNetworks returned
  pending,    \* the ticker's channel holds a tick
  nextTick,   \* when the ticker fires next, 0 before it is made
  cancelled,  \* Stop has cancelled the refresher's context
  \* History, read only by the properties:
  arrival,    \* the cache as the request found it
  failed,     \* some fetch has failed
  took,       \* how long the last fetch took, and the longest two in a row
  stoppedAt   \* when Stop was called

history == <<arrival, failed, took, stoppedAt>>
vars == <<now, cache, pc, leader, began, result, t, answer, pending, nextTick,
          cancelled, history>>

Actors == Requests \cup {Refresher}
None == "none"
Time == Nat

Cache == [networks : Time, expiresAt : Time, lastError : BOOLEAN, retryAfter : Time]
EmptyCache == [networks |-> 0, expiresAt |-> 0, lastError |-> FALSE, retryAfter |-> 0]
Answers == [kind : {"none", "fresh", "stale", "error"}, networks : Time]

TypeOK ==
  /\ now \in Time
  /\ cache \in Cache
  /\ pc \in [Actors -> {"idle", "get", "snapshot", "join", "fetch", "doomed", "landed",
                        "wait", "settle", "done", "select", "exited"}]
  /\ leader \in [Actors -> Actors \cup {None}]
  /\ began \in [Actors -> Time]
  /\ result \in [Actors -> Time]
  /\ t \in [Requests -> Time]
  /\ answer \in [Requests -> Answers]
  /\ pending \in BOOLEAN
  /\ nextTick \in Time
  /\ cancelled \in BOOLEAN
  /\ arrival \in [Requests -> Cache]
  /\ failed \in BOOLEAN
  /\ took \in [last : Time, two : Time]
  /\ stoppedAt \in Time

\* Service.Start: the refresher begins with the warm-up fetch.
Init ==
  /\ now = 1
  /\ cache = EmptyCache
  /\ pc = [a \in Actors |-> IF a = Refresher THEN "join" ELSE "idle"]
  /\ leader = [a \in Actors |-> None]
  /\ began = [a \in Actors |-> 0]
  /\ result = [a \in Actors |-> 0]
  /\ t = [r \in Requests |-> 0]
  /\ answer = [r \in Requests |-> [kind |-> "none", networks |-> 0]]
  /\ pending = FALSE
  /\ nextTick = 0
  /\ cancelled = FALSE
  /\ arrival = [r \in Requests |-> EmptyCache]
  /\ failed = FALSE
  /\ took = [last |-> 0, two |-> 0]
  /\ stoppedAt = 0

Goto(a, place) == pc' = [pc EXCEPT ![a] = place]

-----------------------------------------------------------------------------
(* A request: Service.Verify and loadNetworks                              *)

Enter(r) ==
  /\ pc[r] = "idle"
  /\ t' = [t EXCEPT ![r] = now]
  /\ arrival' = [arrival EXCEPT ![r] = cache]
  /\ Goto(r, "get")
  /\ UNCHANGED <<now, cache, leader, began, result, answer, pending, nextTick,
                 cancelled, failed, took, stoppedAt>>

Answer(r, kind, networks) ==
  /\ answer' = [answer EXCEPT ![r] = [kind |-> kind, networks |-> networks]]
  /\ Goto(r, "done")

\* rangeCache.get
Cached(time) == cache.networks # 0 /\ time <= cache.expiresAt

Get(r) ==
  /\ pc[r] = "get"
  /\ \/ Cached(t[r]) /\ Answer(r, "fresh", cache.networks)
     \/ ~Cached(t[r]) /\ Goto(r, "snapshot") /\ UNCHANGED answer
  /\ UNCHANGED <<now, cache, leader, began, result, t, pending, nextTick, cancelled, history>>

CanUseStale(time) ==
  /\ UseStale /\ MaxStale > 0
  /\ cache.networks # 0
  /\ time <= cache.expiresAt + MaxStale

\* Without a fresh answer: the stale networks if policy allows, or the error.
FallBack(r) == Answer(r, IF CanUseStale(t[r]) THEN "stale" ELSE "error", cache.networks)

\* Mutant: the backoff is not looked at.
NeverBacksOff(time) == FALSE
BackingOff(time) == time < cache.retryAfter

Snapshot(r) ==
  /\ pc[r] = "snapshot"
  /\ \/ BackingOff(t[r]) /\ FallBack(r)
     \/ ~BackingOff(t[r]) /\ Goto(r, "join") /\ UNCHANGED answer
  /\ UNCHANGED <<now, cache, leader, began, result, t, pending, nextTick, cancelled, history>>

\* Back from fetchAndStore.  The stale check is made with the request's own
\* time, taken before it waited.
Settle(r) ==
  /\ pc[r] = "settle"
  /\ \/ result[r] # 0 /\ Answer(r, "fresh", result[r])
     \/ result[r] = 0 /\ FallBack(r)
  /\ UNCHANGED <<now, cache, leader, began, result, t, pending, nextTick, cancelled, history>>

-----------------------------------------------------------------------------
(* fetchAndStore: one fetch, shared                                        *)

\* The holder of singleflight's key, from the call until its result is shared.
InFlight == {a \in Actors : pc[a] \in {"fetch", "doomed", "landed"}}

\* Mutant: a call leads although a fetch is under way.
AloneAlways == TRUE
Alone == InFlight = {}

Join(a) ==
  /\ pc[a] = "join"
  /\ \E l \in InFlight : leader' = [leader EXCEPT ![a] = l]
  /\ Goto(a, "wait")
  /\ UNCHANGED <<now, cache, began, result, t, answer, pending, nextTick, cancelled, history>>

\* The fetch runs under its leader's context; one that is cancelled already
\* fails at the first source.
Lead(a) ==
  /\ pc[a] = "join"
  /\ Alone
  /\ began' = [began EXCEPT ![a] = now]
  /\ Goto(a, IF a = Refresher /\ cancelled THEN "doomed" ELSE "fetch")
  /\ UNCHANGED <<now, cache, leader, result, t, answer, pending, nextTick, cancelled, history>>

\* What a fetch may take: every source in turn has ClientTimeout.
FetchTime == Sources * ClientTimeout

\* A request has its own deadline too, and the refresher has until Stop.
Deadline(a) ==
  LET sources == began[a] + FetchTime
  IN IF a \in Requests
     THEN Min({sources, t[a] + VerifyTimeout})
     ELSE IF cancelled THEN now ELSE sources

Took(a) ==
  LET time == now - began[a]
  IN took' = [last |-> time, two |-> Max({took.two, took.last + time})]

\* All sources answered: rangeCache.set.
FetchOk(a) ==
  /\ pc[a] = "fetch"
  /\ cache' = [networks |-> began[a], expiresAt |-> began[a] + Refresh,
               lastError |-> FALSE, retryAfter |-> 0]
  /\ result' = [result EXCEPT ![a] = began[a]]
  /\ Goto(a, "landed")
  /\ Took(a)
  /\ UNCHANGED <<now, leader, began, t, answer, pending, nextTick, cancelled,
                 arrival, failed, stoppedAt>>

\* Mutant: a failure empties the cache.
ErrorEmpties(start) == [EmptyCache EXCEPT !.lastError = TRUE, !.retryAfter = start + Backoff]

\* rangeCache.setError keeps the networks.
WithError(start) == [cache EXCEPT !.lastError = TRUE, !.retryAfter = start + Backoff]

\* A source failed, timed out, or sent what could not be used.
FetchFails(a) ==
  /\ pc[a] \in {"fetch", "doomed"}
  /\ cache' = WithError(began[a])
  /\ result' = [result EXCEPT ![a] = 0]
  /\ Goto(a, "landed")
  /\ Took(a)
  /\ failed' = TRUE
  /\ UNCHANGED <<now, leader, began, t, answer, pending, nextTick, cancelled,
                 arrival, stoppedAt>>

Fetched(a) == FetchOk(a) \/ FetchFails(a)

\* Mutants: the refresher renews the cache only when it expires; the margin is
\* subtracted the wrong way round.
OnExpiry == Refresh
SignSwapped == Refresh \div 10 - Refresh

\* refreshInterval; twelve hours are out of the clock's reach.
RefreshInterval == IF Refresh = 0 THEN MaxTime + 1 ELSE Refresh - Refresh \div 10

\* Mutant: those who joined are forgotten.
LeaderOnly(l) == {l}
Sharers(l) == {a \in Actors : a = l \/ (pc[a] = "wait" /\ leader[a] = l)}

\* The call returns to the leader and to everyone who joined it, and the key is
\* free.  The refresher makes its ticker after the warm-up.
Release(l) ==
  LET sharers == Sharers(l) IN
  /\ pc[l] = "landed"
  /\ pc' = [a \in Actors |-> IF a \notin sharers THEN pc[a]
                             ELSE IF a = Refresher THEN "select" ELSE "settle"]
  /\ result' = [a \in Actors |-> IF a \in sharers THEN result[l] ELSE result[a]]
  /\ leader' = [a \in Actors |-> IF a \in sharers THEN None ELSE leader[a]]
  /\ nextTick' = IF Refresher \in sharers /\ nextTick = 0 THEN now + RefreshInterval ELSE nextTick
  /\ UNCHANGED <<now, cache, began, t, answer, pending, cancelled, history>>

-----------------------------------------------------------------------------
(* The refresher, Stop, and time                                           *)

TakeTick ==
  /\ pc[Refresher] = "select"
  /\ pending
  /\ pending' = FALSE
  /\ Goto(Refresher, "join")
  /\ UNCHANGED <<now, cache, leader, began, result, t, answer, nextTick, cancelled, history>>

\* Mutant: the context is looked at only when a tick has come.
NoticesOnTick == cancelled /\ pending
Notices == cancelled

Exit ==
  /\ pc[Refresher] = "select"
  /\ Notices
  /\ Goto(Refresher, "exited")
  /\ UNCHANGED <<now, cache, leader, began, result, t, answer, pending, nextTick, cancelled, history>>

\* Stop cancels the context and waits until the refresher has exited.
Stop ==
  /\ ~cancelled
  /\ cancelled' = TRUE
  /\ stoppedAt' = now
  /\ UNCHANGED <<now, cache, pc, leader, began, result, t, answer, pending, nextTick,
                 arrival, failed, took>>

\* Whoever waits: for a fetch that has time left, for the one it shares, or for
\* the ticker or Stop.
Waiting(a) ==
  \/ pc[a] \in {"idle", "done", "exited", "wait"}
  \/ pc[a] = "fetch" /\ now < Deadline(a)
  \/ pc[a] = "select" /\ ~pending /\ ~Notices

\* Time passes when everyone waits.  The ticker's channel holds one tick.
Tick ==
  /\ now < MaxTime
  /\ \A a \in Actors : Waiting(a)
  /\ now' = now + 1
  /\ IF now + 1 = nextTick
     THEN pending' = TRUE /\ nextTick' = nextTick + RefreshInterval
     ELSE UNCHANGED <<pending, nextTick>>
  /\ UNCHANGED <<cache, pc, leader, began, result, t, answer, cancelled, history>>

-----------------------------------------------------------------------------
Verify(r) == Enter(r) \/ Get(r) \/ Snapshot(r) \/ Settle(r)
FetchAndStore(a) == Join(a) \/ Lead(a) \/ Fetched(a) \/ Release(a)

Next ==
  \/ \E r \in Requests : Verify(r)
  \/ \E a \in Actors : FetchAndStore(a)
  \/ TakeTick \/ Exit \/ Stop
  \/ Tick

\* Goroutines run on, a fetch ends by its deadlines, and a select that has both
\* a tick and the cancelled context ready does not pass over the latter for ever.
Fairness ==
  /\ \A r \in Requests : WF_vars(Get(r)) /\ WF_vars(Snapshot(r)) /\ WF_vars(Settle(r))
  /\ \A a \in Actors : WF_vars(FetchAndStore(a))
  /\ WF_vars(TakeTick) /\ SF_vars(Exit)
  /\ WF_vars(Tick)

SafeSpec == Init /\ [][Next]_vars
Spec == SafeSpec /\ Fairness

-----------------------------------------------------------------------------
(* What the verifier promises                                              *)

\* Fetches reach the cache in the order in which they began: a slow one never
\* overwrites the networks of a later one, nor shortens what it had announced.
NewestWins ==
  [][cache'.networks >= cache.networks /\ cache'.expiresAt >= cache.expiresAt]_vars

\* Networks answered as fresh had not expired when the request came in, or come
\* from a fetch that was still running then.
FreshAnswer(r) ==
  answer[r].kind = "fresh" =>
    t[r] <= answer[r].networks + Max({Refresh, FetchTime})

\* A failing refresh does not touch a request that found the cache fresh: it is
\* answered from the cache and waits for nobody.
FailureUnnoticed(r) ==
  arrival[r].networks # 0 /\ t[r] <= arrival[r].expiresAt
    => /\ pc[r] \in {"get", "done"}
       /\ answer[r].kind \in {"none", "fresh"}

\* Expired networks are used only under use_stale and, going by the time the
\* request came in, until max_stale; within these the request is never refused.
StalePolicy(r) ==
  LET usable == /\ UseStale /\ MaxStale > 0 /\ answer[r].networks # 0
                /\ t[r] <= answer[r].networks + Refresh + MaxStale
  IN (answer[r].kind = "stale" => usable) /\ (answer[r].kind = "error" => ~usable)

\* What a request is told of the networks agrees with the policy for fresh and
\* for stale ones, whatever was fetched, renewed or failed while it waited.
AnswersAllowed ==
  \A r \in Requests : FreshAnswer(r) /\ FailureUnnoticed(r) /\ StalePolicy(r)

\* A request that comes in during a backoff leaves the sources alone, unless a
\* fetch has succeeded since.
BackoffHolds ==
  \A r \in Requests :
    t[r] < arrival[r].retryAfter /\ pc[r] \in {"join", "fetch", "landed", "wait"}
      => cache.networks > arrival[r].networks

\* While every fetch succeeds, and any two in a row take no more time together
\* than the margin that refreshInterval leaves, the cache never expires before
\* it is renewed.
StaysWarm ==
  /\ cache.networks # 0
  /\ ~failed /\ ~cancelled
  /\ took.two <= Refresh \div 10
  /\ \A a \in Actors : pc[a] = "fetch" => took.last + (now - began[a]) <= Refresh \div 10
  => now <= cache.expiresAt

\* Stop waits for one verification at most, whose fetch the refresher shares,
\* as long as a fetch is over before the next tick: the refresher's own fetch is
\* cut short, and no second tick is due.
StopIsBounded ==
  /\ cancelled /\ pc[Refresher] # "exited"
  /\ Max({VerifyTimeout, FetchTime}) < RefreshInterval
  => now <= stoppedAt + VerifyTimeout

\* Every verification returns, and so does Stop, even while the refresher waits
\* for a request's fetch or a request for the refresher's.
CallsReturn ==
  /\ \A r \in Requests : pc[r] = "get" ~> pc[r] = "done"
  /\ cancelled ~> pc[Refresher] = "exited"

\* What the comment on VerifyTimeout says (service.go:17): it bounds a
\* verification, any fetch included.
VerifyIsBounded ==
  \A r \in Requests : pc[r] \notin {"idle", "done"} => now <= t[r] + VerifyTimeout
=============================================================================
