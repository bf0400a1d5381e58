--------------------------- MODULE IPRangesProofs ---------------------------
(***************************************************************************)
(* Theorems about IPRanges, for any requests, timeouts, lifetimes and      *)
(* stale policy, and a clock of any length.                                *)
(***************************************************************************)
EXTENDS IPRanges, TLAPS

-----------------------------------------------------------------------------
(* The inductive invariant                                                 *)

\* Singleflight: one fetch is under way at most.
Single == \A a, b \in InFlight : a = b

\* The cache announces what it holds.
CacheHolds ==
  /\ cache.networks <= now
  /\ cache.expiresAt = IF cache.networks = 0 THEN 0 ELSE cache.networks + Refresh
  /\ cache.retryAfter <= now + Backoff

\* A fetch under way began after the cache was last written, and has not
\* outlived its deadline.
Flight(a) ==
  /\ 0 < began[a] /\ began[a] <= now /\ now <= began[a] + FetchTime
  /\ cache.networks <= began[a]
  /\ pc[a] \in {"fetch", "doomed"} => cache.retryAfter <= began[a] + Backoff
  /\ pc[a] = "landed" => result[a] \in {0, began[a]}

\* What a request was told, or is about to be.
Informed(r) ==
  /\ t[r] <= now
  /\ cache.networks >= arrival[r].networks
  /\ arrival[r].expiresAt = IF arrival[r].networks = 0 THEN 0 ELSE arrival[r].networks + Refresh
  /\ pc[r] = "idle" => arrival[r] = EmptyCache
  /\ pc[r] # "done" => answer[r].kind = "none"
  /\ pc[r] = "settle" /\ result[r] # 0 => t[r] <= result[r] + FetchTime
  /\ FreshAnswer(r) /\ FailureUnnoticed(r) /\ StalePolicy(r)

RangesInv ==
  /\ TypeOK
  /\ 0 < now
  /\ Single
  /\ CacheHolds
  /\ \A a \in InFlight : Flight(a)
  /\ \A r \in Requests : Informed(r)

-----------------------------------------------------------------------------
(* Arithmetic                                                              *)

\* The greater of two.
LEMMA MaxOfTwo ==
  ASSUME NEW x \in Nat, NEW y \in Nat
  PROVE  Max({x, y}) \in Nat /\ x <= Max({x, y}) /\ y <= Max({x, y})
  <1> DEFINE m == IF x >= y THEN x ELSE y
  <1>1. m \in {x, y} /\ \A z \in {x, y} : m >= z
    OBVIOUS
  <1>2. Max({x, y}) \in {x, y} /\ \A z \in {x, y} : Max({x, y}) >= z
    BY <1>1 DEF Max
  <1> QED
    BY <1>2

\* The lesser of two.
LEMMA MinOfTwo ==
  ASSUME NEW x \in Nat, NEW y \in Nat
  PROVE  Min({x, y}) \in Nat /\ Min({x, y}) <= x /\ Min({x, y}) <= y
  <1> DEFINE m == IF x <= y THEN x ELSE y
  <1>1. m \in {x, y} /\ \A z \in {x, y} : m <= z
    OBVIOUS
  <1>2. Min({x, y}) \in {x, y} /\ \A z \in {x, y} : Min({x, y}) <= z
    BY <1>1 DEF Min
  <1> QED
    BY <1>2

\* The times that are constants.
LEMMA Times ==
  /\ FetchTime \in Nat /\ Backoff \in Nat /\ Refresh \in Nat /\ MaxStale \in Nat
  /\ VerifyTimeout \in Nat /\ MaxTime \in Nat
  /\ RefreshInterval \in Nat
  <1>1. Refresh \div 10 \in Nat /\ Refresh \div 10 <= Refresh
    BY TimesAssumption
  <1>2. RefreshInterval \in Nat
    BY <1>1, TimesAssumption DEF RefreshInterval
  <1>3. \A x, y \in Nat : x * y \in Nat
    OBVIOUS
  <1> QED
    BY <1>2, <1>3, TimesAssumption DEF FetchTime

\* No fetch outlives its deadline, which is the sources' or an earlier one.
LEMMA DeadlineBound ==
  ASSUME TypeOK, NEW a \in InFlight, began[a] <= now, now <= began[a] + FetchTime,
         now < Deadline(a)
  PROVE  now + 1 <= began[a] + FetchTime
  <1>1. a \in Actors /\ began[a] \in Nat /\ now \in Nat /\ FetchTime \in Nat
    BY Times DEF TypeOK, InFlight, Time
  <1>2. CASE a \in Requests
    <2>1. t[a] + VerifyTimeout \in Nat /\ began[a] + FetchTime \in Nat
      BY <1>1, <1>2, Times DEF TypeOK, Time
    <2> QED
      BY <1>1, <1>2, <2>1, MinOfTwo DEF Deadline
  <1>3. CASE a \notin Requests
    BY <1>1, <1>3 DEF Deadline
  <1> QED
    BY <1>2, <1>3

-----------------------------------------------------------------------------
(* Types                                                                   *)

LEMMA InitTypes == Init => TypeOK
  <1> SUFFICES ASSUME Init PROVE TypeOK
    OBVIOUS
  <1>1. EmptyCache \in Cache
    BY DEF EmptyCache, Cache, Time
  <1>2. [kind |-> "none", networks |-> 0] \in Answers
    BY DEF Answers, Time
  <1>3. [last |-> 0, two |-> 0] \in [last : Time, two : Time]
    BY DEF Time
  <1> QED
    BY <1>1, <1>2, <1>3 DEF Init, TypeOK, Time, None

\* What a request is told has its type.
LEMMA AnswerTypes ==
  ASSUME TypeOK, NEW r \in Requests, NEW n \in Time,
         NEW kind \in {"fresh", "stale", "error"}, Answer(r, kind, n)
  PROVE  /\ answer' \in [Requests -> Answers]
         /\ pc' = [pc EXCEPT ![r] = "done"]
  <1>1. [kind |-> kind, networks |-> n] \in Answers
    BY DEF Answers
  <1> QED
    BY <1>1 DEF Answer, Goto, TypeOK

LEMMA FallBackTypes ==
  ASSUME TypeOK, NEW r \in Requests, FallBack(r)
  PROVE  /\ answer' \in [Requests -> Answers]
         /\ pc' = [pc EXCEPT ![r] = "done"]
  <1>1. cache.networks \in Time
    BY DEF TypeOK, Cache
  <1>2. CASE CanUseStale(t[r])
    BY <1>1, <1>2, AnswerTypes DEF FallBack
  <1>3. CASE ~CanUseStale(t[r])
    BY <1>1, <1>3, AnswerTypes DEF FallBack
  <1> QED
    BY <1>2, <1>3

LEMMA TookTypes ==
  ASSUME TypeOK, NEW a \in Actors, Took(a), began[a] <= now
  PROVE  took' \in [last : Time, two : Time]
  <1>1. /\ now - began[a] \in Nat /\ took.last + (now - began[a]) \in Nat
        /\ took.two \in Nat
    BY DEF TypeOK, Time
  <1>2. Max({took.two, took.last + (now - began[a])}) \in Nat
    BY <1>1, MaxOfTwo
  <1> QED
    BY <1>1, <1>2 DEF Took, Time

\* A request's own steps, by which it does not fetch.
LEMMA VerifyTypes ==
  ASSUME TypeOK, NEW r \in Requests, Verify(r)
  PROVE  TypeOK'
  <1> USE DEF TypeOK, Actors, history
  <1>1. CASE Enter(r)
    BY <1>1 DEF Enter, Goto
  <1>2. CASE Get(r)
    <2>1. /\ answer' \in [Requests -> Answers]
          /\ pc' \in {[pc EXCEPT ![r] = "done"], [pc EXCEPT ![r] = "snapshot"]}
      <3>1. cache.networks \in Time
        BY DEF Cache
      <3> QED
        BY <1>2, <3>1, AnswerTypes DEF Get, Goto
    <2> QED
      BY <1>2, <2>1 DEF Get
  <1>3. CASE Snapshot(r)
    <2>1. /\ answer' \in [Requests -> Answers]
          /\ pc' \in {[pc EXCEPT ![r] = "done"], [pc EXCEPT ![r] = "join"]}
      BY <1>3, FallBackTypes DEF Snapshot, Goto
    <2> QED
      BY <1>3, <2>1 DEF Snapshot
  <1>4. CASE Settle(r)
    <2>1. /\ answer' \in [Requests -> Answers]
          /\ pc' = [pc EXCEPT ![r] = "done"]
      BY <1>4, FallBackTypes, AnswerTypes DEF Settle
    <2> QED
      BY <1>4, <2>1 DEF Settle
  <1> QED
    BY <1>1, <1>2, <1>3, <1>4 DEF Verify

LEMMA FetchTypes ==
  ASSUME TypeOK, NEW a \in Actors, FetchAndStore(a),
         a \in InFlight => began[a] <= now
  PROVE  TypeOK'
  <1> USE DEF TypeOK, Actors, history
  <1>1. CASE Join(a)
    BY <1>1 DEF Join, InFlight, Goto
  <1>2. CASE Lead(a)
    BY <1>2 DEF Lead, Goto
  <1>3. CASE FetchOk(a)
    <2>1. took' \in [last : Time, two : Time]
      BY <1>3, TookTypes DEF FetchOk, InFlight
    <2>2. cache' \in Cache
      BY <1>3, Times DEF FetchOk, Cache, Time
    <2> QED
      BY <1>3, <2>1, <2>2 DEF FetchOk, Goto
  <1>4. CASE FetchFails(a)
    <2>1. took' \in [last : Time, two : Time]
      BY <1>4, TookTypes DEF FetchFails, InFlight
    <2>2. began[a] + Backoff \in Time
      BY Times DEF Time
    <2>3. cache' \in Cache
      BY <1>4, <2>2 DEF FetchFails, WithError, Cache
    <2> QED
      BY <1>4, <2>1, <2>3 DEF FetchFails, Goto, Time
  <1>5. CASE Release(a)
    <2>1. nextTick' \in Time
      BY <1>5, Times DEF Release, Time
    <2> QED
      BY <1>5, <2>1 DEF Release
  <1> QED
    BY <1>1, <1>2, <1>3, <1>4, <1>5 DEF FetchAndStore, Fetched

LEMMA OtherTypes ==
  ASSUME TypeOK, TakeTick \/ Exit \/ Stop \/ Tick \/ UNCHANGED vars
  PROVE  TypeOK'
  <1> USE DEF TypeOK, Actors, history
  <1>1. CASE TakeTick
    BY <1>1 DEF TakeTick, Goto
  <1>2. CASE Exit
    BY <1>2 DEF Exit, Goto
  <1>3. CASE Stop
    BY <1>3 DEF Stop
  <1>4. CASE Tick
    <2>1. now' \in Time /\ nextTick' \in Time
      BY <1>4, Times DEF Tick, Time
    <2> QED
      BY <1>4, <2>1 DEF Tick
  <1>5. CASE UNCHANGED vars
    BY <1>5 DEF vars
  <1> QED
    BY <1>1, <1>2, <1>3, <1>4, <1>5

-----------------------------------------------------------------------------
(* The invariant is kept                                                   *)

LEMMA InitInv == Init => RangesInv
  <1> SUFFICES ASSUME Init PROVE RangesInv
    OBVIOUS
  <1>1. TypeOK
    BY InitTypes
  <1>2. InFlight = {}
    BY DEF Init, InFlight
  <1>3. CacheHolds
    BY Times DEF Init, CacheHolds, EmptyCache
  <1>4. ASSUME NEW r \in Requests PROVE Informed(r)
    <2>1. r \in Actors /\ r # Refresher
      BY ActorsAssumption DEF Actors
    <2> QED
      BY <2>1 DEF Init, Informed, EmptyCache, FreshAnswer, FailureUnnoticed, StalePolicy
  <1> QED
    BY <1>1, <1>2, <1>3, <1>4 DEF RangesInv, Single, Init

\* Whoever is not fetching may move without a trace in the fetch or the cache.
LEMMA FlightUntouched ==
  ASSUME RangesInv, InFlight' = InFlight,
         \A a \in InFlight : pc'[a] = pc[a] /\ result'[a] = result[a],
         UNCHANGED <<now, cache, began>>
  PROVE  (0 < now)' /\ Single' /\ CacheHolds' /\ \A a \in InFlight' : Flight(a)'
  BY DEF RangesInv, Single, CacheHolds, Flight

\* A step in which a request is told nothing and the cache does not get older.
Waits(r) ==
  /\ \/ pc'[r] = pc[r]
     \/ pc[r] \notin {"idle", "get", "done"} /\ pc'[r] \notin {"idle", "settle", "done"}
  /\ t'[r] = t[r] /\ answer'[r] = answer[r] /\ arrival'[r] = arrival[r]
  /\ pc'[r] = "settle" => result'[r] = result[r]
  /\ now' >= now
  /\ cache'.networks >= cache.networks

LEMMA RequestUntouched ==
  ASSUME RangesInv, TypeOK', NEW r \in Requests, Waits(r)
  PROVE  Informed(r)'
  <1>1. Informed(r) /\ TypeOK
    BY DEF RangesInv
  <1>2. FreshAnswer(r)' /\ StalePolicy(r)'
    BY <1>1 DEF Informed, FreshAnswer, StalePolicy, Waits
  <1>3. FailureUnnoticed(r)'
    BY <1>1 DEF Informed, FailureUnnoticed, Waits
  <1>4. /\ t[r] \in Nat /\ now \in Nat /\ now' \in Nat
        /\ cache.networks \in Nat /\ cache'.networks \in Nat /\ arrival[r].networks \in Nat
    BY <1>1 DEF TypeOK, Time, Cache
  <1> QED
    BY <1>1, <1>2, <1>3, <1>4 DEF Informed, Waits

\* What a request may be told when it did not get fresh networks.
LEMMA FallBackInforms ==
  ASSUME RangesInv, TypeOK', NEW r \in Requests, pc[r] \in {"snapshot", "settle"}, FallBack(r),
         UNCHANGED <<now, cache, t, arrival>>
  PROVE  Informed(r)'
  <1> DEFINE kind == IF CanUseStale(t[r]) THEN "stale" ELSE "error"
  <1>1. Informed(r) /\ TypeOK /\ CacheHolds
    BY DEF RangesInv
  <1>2. answer'[r] = [kind |-> kind, networks |-> cache.networks] /\ pc'[r] = "done"
    BY <1>1 DEF FallBack, Answer, Goto, TypeOK, Actors
  <1>3. StalePolicy(r)'
    BY <1>1, <1>2 DEF StalePolicy, CanUseStale, CacheHolds
  <1>4. FreshAnswer(r)'
    BY <1>2 DEF FreshAnswer
  <1>5. FailureUnnoticed(r)'
    BY <1>1 DEF Informed, FailureUnnoticed
  <1> QED
    BY <1>1, <1>2, <1>3, <1>4, <1>5 DEF Informed

\* Networks that have not expired, or come from a fetch that was running.
LEMMA FreshInforms ==
  ASSUME RangesInv, TypeOK', NEW r \in Requests, pc[r] \in {"get", "settle"},
         NEW n \in Nat, Answer(r, "fresh", n),
         t[r] <= n + Refresh \/ t[r] <= n + FetchTime,
         UNCHANGED <<now, cache, t, arrival>>
  PROVE  Informed(r)'
  <1>1. Informed(r) /\ TypeOK
    BY DEF RangesInv
  <1>2. answer'[r] = [kind |-> "fresh", networks |-> n] /\ pc'[r] = "done"
    BY <1>1 DEF Answer, Goto, TypeOK, Actors
  <1>3. FreshAnswer(r)'
    <2>1. /\ Max({Refresh, FetchTime}) \in Nat
          /\ Refresh <= Max({Refresh, FetchTime}) /\ FetchTime <= Max({Refresh, FetchTime})
      BY MaxOfTwo, Times
    <2>2. t[r] \in Nat /\ t'[r] = t[r]
      BY <1>1 DEF TypeOK, Time
    <2> QED
      BY <1>2, <2>1, <2>2, Times DEF FreshAnswer
  <1>4. StalePolicy(r)' /\ FailureUnnoticed(r)'
    BY <1>1, <1>2 DEF StalePolicy, Informed, FailureUnnoticed
  <1> QED
    BY <1>1, <1>2, <1>3, <1>4 DEF Informed

LEMMA VerifyKeeps ==
  ASSUME RangesInv, NEW r \in Requests, Verify(r)
  PROVE  RangesInv'
  <1>1. TypeOK /\ Informed(r) /\ CacheHolds /\ r \in Actors
    BY DEF RangesInv, Actors
  <1>2. TypeOK'
    BY <1>1, VerifyTypes
  <1>3. /\ UNCHANGED <<now, cache, began, result>>
        /\ pc[r] \in {"idle", "get", "snapshot", "settle"}
        /\ \E place \in {"get", "snapshot", "join", "done"} : pc' = [pc EXCEPT ![r] = place]
        /\ \A s \in Requests \ {r} : UNCHANGED <<t[s], answer[s], arrival[s]>>
    BY <1>1 DEF Verify, Enter, Get, Snapshot, Settle, FallBack, Answer, Goto, history, TypeOK
  <1>4. /\ \A a \in Actors \ {r} : pc'[a] = pc[a]
        /\ r \notin InFlight /\ InFlight' = InFlight
    BY <1>1, <1>3 DEF TypeOK, InFlight
  <1>5. (0 < now)' /\ Single' /\ CacheHolds' /\ \A a \in InFlight' : Flight(a)'
    BY <1>3, <1>4, FlightUntouched DEF InFlight
  <1>6. ASSUME NEW s \in Requests, s # r PROVE Informed(s)'
    <2>1. now' >= now /\ cache'.networks >= cache.networks
      BY <1>1, <1>3 DEF TypeOK, Time, Cache
    <2>2. Waits(s)
      BY <1>3, <1>4, <1>6, <2>1 DEF Actors, Waits
    <2> QED
      BY <1>2, <2>2, RequestUntouched
  <1>7. Informed(r)'
    <2>1. CASE Enter(r)
      <3>1. /\ t'[r] = now /\ arrival'[r] = cache /\ pc'[r] = "get"
            /\ UNCHANGED <<now, cache, answer, result>>
        BY <1>1, <2>1 DEF Enter, Goto, TypeOK
      <3>2. answer[r].kind = "none"
        BY <1>1, <2>1 DEF Enter, Informed
      <3> QED
        BY <1>1, <3>1, <3>2 DEF Informed, CacheHolds, FreshAnswer, FailureUnnoticed, StalePolicy,
                                TypeOK, Time, Cache
    <2>2. CASE Get(r)
      <3>1. CASE Cached(t[r]) /\ Answer(r, "fresh", cache.networks)
        <4>1. t[r] <= cache.networks + Refresh /\ cache.networks \in Nat
          BY <1>1, <3>1 DEF Cached, CacheHolds, TypeOK, Cache, Time
        <4> QED
          BY <1>2, <1>3, <2>2, <3>1, <4>1, FreshInforms DEF Get, history
      <3>2. CASE ~Cached(t[r]) /\ Goto(r, "snapshot") /\ UNCHANGED answer
        <4>1. ~(arrival[r].networks # 0 /\ t[r] <= arrival[r].expiresAt)
          BY <1>1, <3>2, Times DEF Cached, CacheHolds, Informed, TypeOK, Time, Cache
        <4>2. /\ pc'[r] = "snapshot" /\ pc[r] = "get"
              /\ UNCHANGED <<now, cache, t, answer, arrival>>
          BY <1>1, <2>2, <3>2 DEF Get, Goto, history, TypeOK
        <4> QED
          BY <1>1, <4>1, <4>2 DEF Informed, FreshAnswer, FailureUnnoticed, StalePolicy
      <3> QED
        BY <2>2, <3>1, <3>2 DEF Get
    <2>3. CASE Snapshot(r)
      <3>1. CASE FallBack(r)
        BY <1>2, <1>3, <2>3, <3>1, FallBackInforms DEF Snapshot, history
      <3>2. CASE Goto(r, "join") /\ UNCHANGED answer
        <4>1. /\ pc'[r] = "join" /\ pc[r] = "snapshot"
              /\ UNCHANGED <<t[r], answer[r], arrival[r], result>>
          BY <1>1, <2>3, <3>2 DEF Snapshot, Goto, history, TypeOK
        <4>2. now' >= now /\ cache'.networks >= cache.networks
          BY <1>1, <1>3 DEF TypeOK, Time, Cache
        <4>3. Waits(r)
          BY <4>1, <4>2 DEF Waits
        <4> QED
          BY <1>2, <4>3, RequestUntouched
      <3> QED
        BY <2>3, <3>1, <3>2 DEF Snapshot
    <2>4. CASE Settle(r)
      <3>1. CASE result[r] # 0 /\ Answer(r, "fresh", result[r])
        <4>1. t[r] <= result[r] + FetchTime /\ result[r] \in Nat
          BY <1>1, <2>4, <3>1 DEF Settle, Informed, TypeOK, Time
        <4> QED
          BY <1>2, <1>3, <2>4, <3>1, <4>1, FreshInforms DEF Settle, history
      <3>2. CASE FallBack(r)
        BY <1>2, <1>3, <2>4, <3>2, FallBackInforms DEF Settle, history
      <3> QED
        BY <2>4, <3>1, <3>2 DEF Settle
    <2> QED
      BY <2>1, <2>2, <2>3, <2>4 DEF Verify
  <1> QED
    BY <1>2, <1>5, <1>6, <1>7 DEF RangesInv

LEMMA FetchKeeps ==
  ASSUME RangesInv, NEW a \in Actors, FetchAndStore(a)
  PROVE  RangesInv'
  <1>1. /\ TypeOK /\ Single /\ CacheHolds /\ 0 < now
        /\ \A b \in InFlight : Flight(b)
        /\ \A r \in Requests : Informed(r)
    BY DEF RangesInv
  <1>2. now \in Nat /\ \A b \in Actors : began[b] \in Nat
    BY <1>1 DEF TypeOK, Time
  <1>3. TypeOK'
    BY <1>1, FetchTypes DEF Flight
  <1>4. UNCHANGED <<now, t, answer, arrival>>
    BY DEF FetchAndStore, Join, Lead, Fetched, FetchOk, FetchFails, Release, history
  <1>5. cache.networks \in Nat /\ cache.retryAfter \in Nat
    BY <1>1 DEF TypeOK, Cache, Time
  <1>6. CASE Join(a)
    <2>1. /\ pc[a] = "join" /\ pc' = [pc EXCEPT ![a] = "wait"]
          /\ UNCHANGED <<cache, began, result>>
      BY <1>6 DEF Join, Goto, history
    <2>2. InFlight' = InFlight /\ \A b \in Actors \ {a} : pc'[b] = pc[b]
      BY <1>1, <2>1 DEF TypeOK, InFlight
    <2>3. pc'[a] = "wait" /\ a \notin InFlight
      BY <1>1, <2>1 DEF TypeOK, InFlight
    <2>4. (0 < now)' /\ Single' /\ CacheHolds' /\ \A b \in InFlight' : Flight(b)'
      BY <1>4, <2>1, <2>2, <2>3, FlightUntouched DEF InFlight
    <2>5. ASSUME NEW r \in Requests PROVE Informed(r)'
      <3>1. Waits(r)
        BY <1>2, <1>4, <1>5, <2>1, <2>2, <2>3 DEF Actors, Waits
      <3> QED
        BY <1>3, <3>1, RequestUntouched
    <2> QED
      BY <1>3, <2>4, <2>5 DEF RangesInv
  <1>7. CASE Lead(a)
    <2>1. /\ pc[a] = "join" /\ InFlight = {}
          /\ \E place \in {"fetch", "doomed"} : pc' = [pc EXCEPT ![a] = place]
          /\ began' = [began EXCEPT ![a] = now]
          /\ UNCHANGED <<cache, result>>
      BY <1>7 DEF Lead, Alone, Goto, history
    <2>2. InFlight' = {a} /\ pc'[a] \in {"fetch", "doomed"} /\ \A b \in Actors \ {a} : pc'[b] = pc[b]
      BY <1>1, <2>1 DEF TypeOK, InFlight
    <2>3. Flight(a)'
      <3>1. began'[a] = now
        BY <1>1, <2>1 DEF TypeOK
      <3> QED
        BY <1>1, <1>2, <1>4, <2>1, <2>2, <3>1, Times DEF Flight, CacheHolds
    <2>4. CacheHolds'
      BY <1>1, <1>4, <2>1 DEF CacheHolds
    <2>5. ASSUME NEW r \in Requests PROVE Informed(r)'
      <3>1. Waits(r)
        BY <1>2, <1>4, <1>5, <2>1, <2>2 DEF Actors, Waits
      <3> QED
        BY <1>3, <3>1, RequestUntouched
    <2> QED
      BY <1>1, <1>3, <1>4, <2>2, <2>3, <2>4, <2>5 DEF RangesInv, Single
  <1>8. CASE Fetched(a)
    <2>1. /\ pc[a] \in {"fetch", "doomed"} /\ pc' = [pc EXCEPT ![a] = "landed"]
          /\ UNCHANGED began
          /\ result' \in {[result EXCEPT ![a] = 0], [result EXCEPT ![a] = began[a]]}
          /\ cache' \in {[networks |-> began[a], expiresAt |-> began[a] + Refresh,
                          lastError |-> FALSE, retryAfter |-> 0], WithError(began[a])}
      BY <1>8 DEF Fetched, FetchOk, FetchFails, Goto
    <2>2. a \in InFlight /\ Flight(a)
      BY <1>1, <2>1 DEF InFlight
    <2>3. /\ InFlight' = InFlight /\ InFlight = {a}
          /\ pc'[a] = "landed" /\ \A b \in Actors \ {a} : pc'[b] = pc[b]
      BY <1>1, <2>1, <2>2 DEF TypeOK, InFlight, Single
    <2>4. /\ result'[a] \in {0, began[a]} /\ \A b \in Actors \ {a} : result'[b] = result[b]
      BY <1>1, <2>1 DEF TypeOK
    <2>5. /\ cache'.networks \in {cache.networks, began[a]}
          /\ cache'.networks >= cache.networks /\ cache'.networks <= began[a]
          /\ cache'.expiresAt = IF cache'.networks = 0 THEN 0 ELSE cache'.networks + Refresh
          /\ cache'.retryAfter \in {0, began[a] + Backoff}
      <3>1. /\ cache \in Cache /\ began[a] \in Nat
            /\ cache.networks <= began[a] /\ 0 < began[a]
            /\ cache.expiresAt = IF cache.networks = 0 THEN 0 ELSE cache.networks + Refresh
        BY <1>1, <1>2, <2>2 DEF Flight, CacheHolds, TypeOK
      <3>2. CASE cache' = [networks |-> began[a], expiresAt |-> began[a] + Refresh,
                           lastError |-> FALSE, retryAfter |-> 0]
        BY <1>5, <3>1, <3>2
      <3>3. CASE cache' = WithError(began[a])
        <4>1. /\ cache'.networks = cache.networks /\ cache'.expiresAt = cache.expiresAt
              /\ cache'.retryAfter = began[a] + Backoff
          BY <3>1, <3>3 DEF WithError, Cache
        <4> QED
          BY <1>5, <3>1, <4>1
      <3> QED
        BY <2>1, <3>2, <3>3
    <2>6. CacheHolds'
      BY <1>2, <1>4, <1>5, <2>2, <2>5, Times DEF Flight, CacheHolds
    <2>7. Flight(a)'
      BY <1>2, <1>4, <2>1, <2>2, <2>3, <2>4, <2>5 DEF Flight
    <2>8. ASSUME NEW r \in Requests PROVE Informed(r)'
      <3>1. now' >= now
        BY <1>2, <1>4
      <3>2. Waits(r)
        BY <1>4, <2>1, <2>3, <2>4, <2>5, <3>1 DEF Actors, Waits
      <3> QED
        BY <1>3, <3>2, RequestUntouched
    <2> QED
      BY <1>1, <1>3, <1>4, <2>3, <2>6, <2>7, <2>8 DEF RangesInv, Single
  <1>9. CASE Release(a)
    <2> DEFINE sharers == Sharers(a)
    <2>1. /\ pc[a] = "landed" /\ a \in InFlight /\ a \in sharers
          /\ UNCHANGED <<cache, began>>
          /\ \A b \in Actors : /\ b \notin sharers => pc'[b] = pc[b] /\ result'[b] = result[b]
                               /\ b \in sharers => /\ pc'[b] \in {"select", "settle"}
                                                   /\ result'[b] = result[a]
                                                   /\ pc[b] \in {"landed", "wait"}
      BY <1>9 DEF Release, Sharers, InFlight, history
    <2>2. Flight(a) /\ InFlight = {a}
      BY <1>1, <2>1 DEF Single
    <2>3. InFlight' = {}
      BY <2>1, <2>2 DEF InFlight
    <2>4. CacheHolds'
      BY <1>1, <1>4, <2>1 DEF CacheHolds
    <2>5. ASSUME NEW r \in Requests PROVE Informed(r)'
      <3>1. r \in Actors /\ now' >= now /\ cache'.networks >= cache.networks
            /\ UNCHANGED <<t[r], answer[r], arrival[r]>>
        BY <1>2, <1>4, <1>5, <2>1 DEF Actors
      <3>2. CASE r \notin sharers
        <4>1. Waits(r)
          BY <1>4, <2>1, <3>1, <3>2 DEF Waits
        <4> QED
          BY <1>3, <4>1, RequestUntouched
      <3>3. CASE r \in sharers
        <4>1. /\ Informed(r)' = Informed(r)' /\ Informed(r)
              /\ pc'[r] \in {"select", "settle"} /\ pc[r] \in {"landed", "wait"}
              /\ result'[r] \in {0, began[a]}
          BY <1>1, <2>1, <2>2, <3>1, <3>3 DEF Flight
        <4>2. began[a] \in Nat /\ t[r] \in Nat /\ t[r] <= now /\ now <= began[a] + FetchTime
          BY <1>1, <1>2, <2>2, <4>1 DEF Flight, Informed, TypeOK, Time
        <4>3. result'[r] # 0 => t'[r] <= result'[r] + FetchTime
          BY <1>2, <3>1, <4>1, <4>2, Times
        <4>4. FreshAnswer(r)' /\ StalePolicy(r)' /\ FailureUnnoticed(r)'
          BY <3>1, <4>1 DEF Informed, FreshAnswer, StalePolicy, FailureUnnoticed
        <4> QED
          BY <1>4, <2>1, <3>1, <4>1, <4>3, <4>4 DEF Informed
      <3> QED
        BY <3>2, <3>3
    <2> QED
      BY <1>1, <1>3, <1>4, <2>3, <2>4, <2>5 DEF RangesInv, Single
  <1> QED
    BY <1>6, <1>7, <1>8, <1>9 DEF FetchAndStore

LEMMA OthersKeep ==
  ASSUME RangesInv, TakeTick \/ Exit \/ Stop \/ Tick \/ UNCHANGED vars
  PROVE  RangesInv'
  <1>1. /\ TypeOK /\ Single /\ CacheHolds /\ 0 < now
        /\ \A b \in InFlight : Flight(b)
        /\ \A r \in Requests : Informed(r)
    BY DEF RangesInv
  <1>2. TypeOK'
    BY <1>1, OtherTypes
  <1>3. now \in Nat /\ cache.networks \in Nat /\ cache.retryAfter \in Nat
    BY <1>1 DEF TypeOK, Time, Cache
  <1>4. UNCHANGED <<cache, began, result, t, answer, arrival>>
    BY DEF TakeTick, Exit, Stop, Tick, vars, history
  <1>5. /\ Refresher \in Actors /\ \A r \in Requests : r \in Actors /\ pc'[r] = pc[r]
        /\ \/ pc'[Refresher] = pc[Refresher]
           \/ pc'[Refresher] \in {"join", "exited"} /\ pc[Refresher] = "select"
    <2>1. \/ UNCHANGED pc
          \/ /\ pc[Refresher] = "select"
             /\ \E place \in {"join", "exited"} : pc' = [pc EXCEPT ![Refresher] = place]
      BY DEF TakeTick, Exit, Stop, Tick, vars, Goto
    <2>2. \A r \in Requests : r # Refresher
      BY ActorsAssumption
    <2> QED
      BY <1>1, <2>1, <2>2 DEF TypeOK, Actors
  <1>6. InFlight' = InFlight /\ \A b \in InFlight : pc'[b] = pc[b]
    BY <1>5 DEF InFlight, Actors
  <1>7. now' = now \/ Tick
    BY DEF TakeTick, Exit, Stop, vars
  <1>8. now' \in Nat /\ now' >= now
    BY <1>3, <1>7 DEF Tick
  <1>9. (0 < now)' /\ Single' /\ CacheHolds'
    BY <1>1, <1>3, <1>4, <1>6, <1>8, Times DEF Single, CacheHolds
  <1>10. ASSUME NEW b \in InFlight PROVE Flight(b)'
    <2>1. Flight(b) /\ b \in Actors
      BY <1>1 DEF InFlight
    <2>2. now' <= began[b] + FetchTime
      <3>1. CASE now' = now
        BY <2>1, <3>1 DEF Flight
      <3>2. CASE Tick
        <4>1. now < Deadline(b) /\ now' = now + 1
          BY <2>1, <3>2 DEF Tick, Waiting, InFlight
        <4> QED
          BY <1>1, <2>1, <4>1, DeadlineBound DEF Flight
      <3> QED
        BY <1>7, <3>1, <3>2
    <2>3. began[b] \in Nat
      BY <1>1, <2>1 DEF TypeOK, Time
    <2> QED
      BY <1>3, <1>4, <1>6, <1>8, <2>1, <2>2, <2>3 DEF Flight
  <1>11. ASSUME NEW r \in Requests PROVE Informed(r)'
    <2>1. Waits(r)
      BY <1>3, <1>4, <1>5, <1>8 DEF Waits
    <2> QED
      BY <1>2, <2>1, RequestUntouched
  <1> QED
    BY <1>2, <1>6, <1>9, <1>10, <1>11 DEF RangesInv

LEMMA StepInv == RangesInv /\ [Next]_vars => RangesInv'
  BY VerifyKeeps, FetchKeeps, OthersKeep DEF Next

\* The cache never goes back to older networks.
LEMMA NeverOlder ==
  ASSUME RangesInv, Next
  PROVE  cache'.networks >= cache.networks /\ cache'.expiresAt >= cache.expiresAt
  <1>1. cache \in Cache /\ cache.networks \in Nat /\ cache.expiresAt \in Nat
    BY DEF RangesInv, TypeOK, Cache, Time
  <1>2. CASE cache' = cache
    BY <1>1, <1>2
  <1>3. CASE \E a \in Actors : FetchOk(a)
    <2>1. PICK a \in Actors : FetchOk(a)
      BY <1>3
    <2>2. Flight(a) /\ began[a] \in Nat
      BY <2>1 DEF RangesInv, FetchOk, InFlight, TypeOK, Time
    <2> QED
      BY <1>1, <2>1, <2>2, Times DEF FetchOk, Flight, RangesInv, CacheHolds
  <1>4. CASE \E a \in Actors : FetchFails(a)
    BY <1>1, <1>4 DEF FetchFails, WithError, Cache
  <1> QED
    BY <1>2, <1>3, <1>4
       DEF Next, Verify, Enter, Get, Snapshot, Settle, FetchAndStore, Join, Lead, Fetched,
           Release, TakeTick, Exit, Stop, Tick

-----------------------------------------------------------------------------
(* The theorems                                                            *)

THEOREM RangesInvariant == SafeSpec => []RangesInv
  BY InitInv, StepInv, PTL DEF SafeSpec

\* Every variable of the verifier keeps its type; a fetch never ends before it began.
THEOREM RangesTypes == SafeSpec => []TypeOK
  BY RangesInvariant, PTL DEF RangesInv

\* Whatever is fetched or fails meanwhile, a request is told fresh or stale
\* networks as the policy allows (ip_ranges.go:112).
THEOREM RangesAnswer == SafeSpec => []AnswersAllowed
  <1>1. RangesInv => AnswersAllowed
    BY DEF RangesInv, Informed, AnswersAllowed
  <1> QED
    BY <1>1, RangesInvariant, PTL

\* Neither the networks in the cache nor what they announced ever goes back
\* (ip_ranges.go:143).
THEOREM RangesNewestWins == SafeSpec => NewestWins
  BY NeverOlder, RangesInvariant, PTL DEF SafeSpec, NewestWins

-----------------------------------------------------------------------------
(* The backoff                                                             *)

\* Since a request came in, a fetch has succeeded; or the backoff it found still
\* holds, or it does not need to fetch.
Remembers(r) ==
  \/ pc[r] = "idle"
  \/ cache.networks > arrival[r].networks
  \/ /\ cache.networks = arrival[r].networks
     /\ \/ cache.retryAfter >= arrival[r].retryAfter
        \/ arrival[r].networks # 0 /\ t[r] <= arrival[r].expiresAt

\* BackoffHolds, of one request.
LeavesAlone(r) ==
  t[r] < arrival[r].retryAfter /\ pc[r] \in {"join", "fetch", "doomed", "landed", "wait"}
    => cache.networks > arrival[r].networks

BackoffInv == \A r \in Requests : Remembers(r) /\ LeavesAlone(r)

\* A fetch that fails prolongs the backoff, and one that succeeds is a later one
\* than the request found, or else the request found its networks fresh.
LEMMA FetchedRemembers ==
  ASSUME FetchTime <= Refresh, RangesInv, NEW a \in Actors, Fetched(a), NEW r \in Requests,
         Remembers(r)
  PROVE  Remembers(r)'
  <1>1. /\ Flight(a) /\ Informed(r) /\ TypeOK /\ a \in InFlight
    BY DEF RangesInv, Fetched, FetchOk, FetchFails, InFlight
  <1>2. /\ began[a] \in Nat /\ now \in Nat /\ t[r] \in Nat
        /\ cache \in Cache /\ cache.networks \in Nat /\ cache.retryAfter \in Nat
        /\ arrival[r].networks \in Nat /\ arrival[r].retryAfter \in Nat
    BY <1>1 DEF TypeOK, Cache, Time
  <1>3. /\ t'[r] = t[r] /\ arrival'[r] = arrival[r]
        /\ pc[r] = "idle" => pc'[r] = "idle"
    BY <1>1 DEF Fetched, FetchOk, FetchFails, Goto, TypeOK, Actors
  <1>4. CASE FetchOk(a)
    <2>1. cache'.networks = began[a]
      BY <1>4 DEF FetchOk
    <2>2. CASE began[a] = arrival[r].networks
      <3>1. arrival[r].networks # 0 /\ arrival[r].expiresAt = arrival[r].networks + Refresh
        BY <1>1, <2>2 DEF Flight, Informed
      <3>2. t[r] <= arrival[r].expiresAt
        BY <1>1, <1>2, <2>2, <3>1, Times DEF Flight, Informed
      <3> QED
        BY <1>3, <2>1, <2>2, <3>1, <3>2 DEF Remembers
    <2>3. CASE began[a] # arrival[r].networks
      <3>1. began[a] > arrival[r].networks
        BY <1>1, <1>2, <2>3 DEF Flight, Informed
      <3> QED
        BY <1>3, <2>1, <3>1 DEF Remembers
    <2> QED
      BY <2>2, <2>3
  <1>5. CASE FetchFails(a)
    <2>1. cache'.networks = cache.networks /\ cache'.retryAfter = began[a] + Backoff
      BY <1>2, <1>5 DEF FetchFails, WithError, Cache
    <2>2. cache'.retryAfter >= cache.retryAfter /\ cache'.retryAfter \in Nat
      BY <1>1, <1>2, <1>5, <2>1, Times DEF FetchFails, Flight
    <2> QED
      BY <1>2, <1>3, <2>1, <2>2 DEF Remembers
  <1> QED
    BY <1>4, <1>5 DEF Fetched

LEMMA StepRemembers ==
  ASSUME FetchTime <= Refresh, RangesInv, [Next]_vars, NEW r \in Requests, Remembers(r)
  PROVE  Remembers(r)'
  <1>1. TypeOK /\ cache.networks \in Nat /\ cache.retryAfter \in Nat
    BY DEF RangesInv, TypeOK, Cache, Time
  <1>2. CASE Enter(r)
    <2>1. arrival'[r] = cache /\ cache' = cache
      BY <1>1, <1>2 DEF Enter, TypeOK
    <2> QED
      BY <1>1, <2>1 DEF Remembers
  <1>3. CASE \E a \in Actors : Fetched(a)
    BY <1>3, FetchedRemembers
  <1>4. CASE ~Enter(r) /\ ~\E a \in Actors : Fetched(a)
    <2>1. UNCHANGED cache /\ t'[r] = t[r] /\ arrival'[r] = arrival[r]
      BY <1>1, <1>4 DEF Next, Verify, Enter, Get, Snapshot, Settle, FetchAndStore, Join, Lead,
                        Release, TakeTick, Exit, Stop, Tick, vars, history, TypeOK
    <2>2. pc[r] = "idle" => pc'[r] = "idle"
      <3>1. SUFFICES ASSUME pc[r] = "idle" PROVE pc'[r] = "idle"
        OBVIOUS
      <3>2. \A s \in Requests : Verify(s) => s # r
        BY <1>4, <3>1 DEF Verify, Get, Snapshot, Settle
      <3>3. r # Refresher /\ r \in Actors
        BY ActorsAssumption DEF Actors
      <3>4. ASSUME NEW a \in Actors, FetchAndStore(a) PROVE pc'[r] = pc[r]
        BY <1>1, <1>4, <3>1, <3>3, <3>4
           DEF FetchAndStore, Join, Lead, Release, Sharers, Goto, TypeOK
      <3>5. ASSUME NEW s \in Requests, Verify(s) PROVE pc'[r] = pc[r]
        BY <1>1, <3>2, <3>3, <3>5
           DEF Verify, Enter, Get, Snapshot, Settle, FallBack, Answer, Goto, TypeOK
      <3>6. ASSUME TakeTick \/ Exit \/ Stop \/ Tick \/ UNCHANGED vars PROVE pc'[r] = pc[r]
        BY <1>1, <3>3, <3>6 DEF TakeTick, Exit, Stop, Tick, vars, Goto, TypeOK
      <3> QED
        BY <3>1, <3>4, <3>5, <3>6 DEF Next
    <2> QED
      BY <2>1, <2>2 DEF Remembers
  <1> QED
    BY <1>2, <1>3, <1>4

LEMMA StepLeavesAlone ==
  ASSUME RangesInv, RangesInv', [Next]_vars, NEW r \in Requests, Remembers(r), LeavesAlone(r)
  PROVE  LeavesAlone(r)'
  <1> DEFINE fetching == {"join", "fetch", "doomed", "landed", "wait"}
  <1>1. /\ TypeOK /\ r \in Actors /\ r # Refresher
        /\ cache.networks \in Nat /\ cache'.networks \in Nat /\ cache.retryAfter \in Nat
        /\ arrival[r].networks \in Nat /\ arrival[r].retryAfter \in Nat /\ t[r] \in Nat
    BY ActorsAssumption DEF RangesInv, TypeOK, Cache, Time, Actors
  <1>2. CASE Snapshot(r)
    <2>1. UNCHANGED <<cache, t, arrival>>
      BY <1>2 DEF Snapshot, history
    <2>2. CASE FallBack(r)
      BY <1>1, <2>2 DEF FallBack, Answer, Goto, LeavesAlone, TypeOK
    <2>3. CASE cache.retryAfter <= t[r]
      <3>1. ~(arrival[r].networks # 0 /\ t[r] <= arrival[r].expiresAt)
        BY <1>2 DEF RangesInv, Informed, FailureUnnoticed, Snapshot
      <3> QED
        BY <1>1, <1>2, <2>1, <2>3, <3>1 DEF Remembers, LeavesAlone, Snapshot
    <2> QED
      BY <1>1, <1>2, <2>2, <2>3 DEF Snapshot, BackingOff, RangesInv, TypeOK, Cache, Time
  <1>3. CASE ~Snapshot(r)
    <2>1. pc'[r] \in fetching => pc[r] \in fetching
      <3>1. ASSUME NEW s \in Requests, Verify(s) PROVE pc'[r] \in fetching => pc'[r] = pc[r]
        BY <1>1, <1>3, <3>1
           DEF Verify, Enter, Get, Snapshot, Settle, FallBack, Answer, Goto, TypeOK
      <3>2. ASSUME NEW a \in Actors, FetchAndStore(a)
            PROVE  pc'[r] \in fetching => pc[r] \in fetching
        BY <1>1, <3>2 DEF FetchAndStore, Join, Lead, Fetched, FetchOk, FetchFails, Release, Goto, TypeOK
      <3>3. ASSUME TakeTick \/ Exit \/ Stop \/ Tick \/ UNCHANGED vars PROVE pc'[r] = pc[r]
        BY <1>1, <3>3 DEF TakeTick, Exit, Stop, Tick, vars, Goto, TypeOK
      <3> QED
        BY <3>1, <3>2, <3>3 DEF Next
    <2>2. CASE Enter(r)
      BY <1>1, <2>2 DEF Enter, Goto, LeavesAlone, TypeOK
    <2>3. CASE ~Enter(r)
      <3>1. t'[r] = t[r] /\ arrival'[r] = arrival[r]
        BY <1>1, <2>3 DEF Next, Verify, Enter, Get, Snapshot, Settle, FetchAndStore, Join, Lead,
                          Fetched, FetchOk, FetchFails, Release, TakeTick, Exit, Stop, Tick,
                          vars, history, TypeOK
      <3>2. cache'.networks >= cache.networks
        BY <1>1, NeverOlder DEF vars
      <3> QED
        BY <1>1, <2>1, <3>1, <3>2 DEF LeavesAlone
    <2> QED
      BY <2>2, <2>3
  <1> QED
    BY <1>2, <1>3

\* When networks outlive the fetch of their successors, a request that comes in
\* during a backoff leaves the sources alone unless a fetch has succeeded since
\* (ip_ranges.go:118).
THEOREM RangesBackOff ==
  ASSUME FetchTime <= Refresh
  PROVE  SafeSpec => []BackoffHolds
  <1>1. Init => BackoffInv
    <2>1. \A r \in Requests : r \in Actors /\ r # Refresher
      BY ActorsAssumption DEF Actors
    <2> QED
      BY <2>1 DEF Init, BackoffInv, Remembers, LeavesAlone
  <1>2. RangesInv /\ RangesInv' /\ [Next]_vars /\ BackoffInv => BackoffInv'
    BY StepRemembers, StepLeavesAlone DEF BackoffInv
  <1>3. BackoffInv => BackoffHolds
    BY DEF BackoffInv, LeavesAlone, BackoffHolds
  <1> QED
    BY <1>1, <1>2, <1>3, RangesInvariant, PTL DEF SafeSpec

-----------------------------------------------------------------------------
(* Stop                                                                    *)

\* A fetch and a verification are over before the next tick.
Brief == Max({VerifyTimeout, FetchTime}) < RefreshInterval

\* A request's own fetch ends by its deadline.
Prompt(r) ==
  /\ pc[r] \in {"get", "snapshot", "join"} => t[r] = now
  /\ pc[r] \in {"fetch", "doomed", "landed"} => now <= t[r] + VerifyTimeout

Leading == {"fetch", "doomed", "landed"}

\* Where the refresher is; a fetch that it shares is a request's.
Place ==
  /\ pc[Refresher] \in Leading \cup {"join", "wait", "select", "exited"}
  /\ pc[Refresher] = "wait" => leader[Refresher] \in InFlight \cap Requests

\* No tick is pending while it fetches, and the next comes after its fetch.
Ticks ==
  /\ pc[Refresher] \in Leading \cup {"join", "wait"} => ~pending
  /\ pc[Refresher] = "join" => nextTick = 0 \/ now + RefreshInterval <= nextTick
  /\ pc[Refresher] \in Leading =>
       nextTick = 0 \/ began[Refresher] + RefreshInterval <= nextTick
  /\ pc[Refresher] = "wait" =>
       nextTick = 0 \/ began[leader[Refresher]] + RefreshInterval <= nextTick
  /\ pc[Refresher] = "select" =>
       now < nextTick /\ (pending => now + RefreshInterval <= nextTick)

\* Once it is cancelled it spends no time but on a fetch that it shares, whose
\* leader came before Stop.
Stopping ==
  cancelled =>
    /\ stoppedAt <= now
    /\ pc[Refresher] \in Leading \cup {"join"} => now = stoppedAt
    /\ pc[Refresher] = "wait" => t[leader[Refresher]] <= stoppedAt
    /\ pc[Refresher] = "select" => now <= stoppedAt + VerifyTimeout /\ (pending => now = stoppedAt)

StopInv == Place /\ Ticks /\ Stopping /\ \A r \in Requests : Prompt(r)

LEMMA BriefTimes ==
  ASSUME Brief
  PROVE  FetchTime < RefreshInterval /\ VerifyTimeout < RefreshInterval
  BY Times, MaxOfTwo DEF Brief

\* What is known of the times at any state.
LEMMA TimesKnown ==
  ASSUME RangesInv
  PROVE  /\ TypeOK /\ now \in Nat /\ nextTick \in Nat /\ stoppedAt \in Nat
         /\ \A a \in Actors : began[a] \in Nat
         /\ \A r \in Requests : t[r] \in Nat /\ t[r] <= now /\ r \in Actors /\ r # Refresher
         /\ \A a \in InFlight : a \in Actors /\ began[a] <= now /\ now <= began[a] + FetchTime
         /\ Refresher \in Actors
  BY ActorsAssumption DEF RangesInv, TypeOK, Time, Flight, Informed, InFlight, Actors

LEMMA InitStop == Init => StopInv
  <1>1. \A r \in Requests : r \in Actors /\ r # Refresher
    BY ActorsAssumption DEF Actors
  <1> QED
    BY <1>1 DEF Init, StopInv, Place, Ticks, Stopping, Prompt, Actors, Leading

\* Steps of requests, from which the refresher stays where it is.
LEMMA RefresherRests ==
  ASSUME Place, Ticks, Stopping,
         UNCHANGED <<now, pending, nextTick, cancelled, stoppedAt>>,
         pc'[Refresher] = pc[Refresher], leader'[Refresher] = leader[Refresher],
         began'[Refresher] = began[Refresher],
         pc[Refresher] = "wait" =>
           /\ leader[Refresher] \in InFlight'
           /\ began'[leader[Refresher]] = began[leader[Refresher]]
           /\ t'[leader[Refresher]] = t[leader[Refresher]]
  PROVE  Place' /\ Ticks' /\ Stopping'
  <1>1. Place'
    BY DEF Place
  <1>2. Ticks'
    BY DEF Ticks
  <1>3. Stopping'
    BY DEF Stopping
  <1> QED
    BY <1>1, <1>2, <1>3

LEMMA VerifyStop ==
  ASSUME RangesInv, StopInv, NEW r \in Requests, Verify(r)
  PROVE  StopInv'
  <1>1. /\ TypeOK /\ r \in Actors /\ r # Refresher /\ Refresher \in Actors
        /\ \A s \in Requests : s \in Actors
    BY TimesKnown
  <1>2. /\ Place /\ Ticks /\ Stopping /\ \A s \in Requests : Prompt(s)
        /\ UNCHANGED <<now, leader, began, pending, nextTick, cancelled, stoppedAt>>
    BY DEF StopInv, Verify, Enter, Get, Snapshot, Settle, history
  <1>3. /\ \A a \in Actors \ {r} : pc'[a] = pc[a]
        /\ \A s \in Requests \ {r} : t'[s] = t[s]
        /\ \/ pc'[r] = "get" /\ t'[r] = now
           \/ pc[r] \in {"get", "snapshot"} /\ pc'[r] \in {"snapshot", "join"} /\ t'[r] = t[r]
           \/ pc'[r] = "done"
        /\ pc[r] \in {"idle", "get", "snapshot", "settle"}
    BY <1>1 DEF Verify, Enter, Get, Snapshot, Settle, FallBack, Answer, Goto, TypeOK
  <1>4. InFlight' = InFlight
    BY <1>3 DEF InFlight
  <1>5. pc[Refresher] = "wait" => leader[Refresher] \in InFlight \cap Requests /\ leader[Refresher] # r
    BY <1>2, <1>3 DEF Place, InFlight
  <1>6. Place' /\ Ticks' /\ Stopping'
    BY <1>1, <1>2, <1>3, <1>4, <1>5, RefresherRests
  <1>7. ASSUME NEW s \in Requests PROVE Prompt(s)'
    BY <1>1, <1>2, <1>3 DEF Prompt
  <1> QED
    BY <1>6, <1>7 DEF StopInv

LEMMA JoinStop ==
  ASSUME RangesInv, StopInv, NEW a \in Actors, Join(a)
  PROVE  StopInv'
  <1>1. /\ TypeOK /\ now \in Nat /\ nextTick \in Nat /\ stoppedAt \in Nat /\ Refresher \in Actors
        /\ \A s \in Requests : s \in Actors /\ t[s] \in Nat /\ t[s] <= now
        /\ \A b \in InFlight : b \in Actors /\ began[b] \in Nat /\ began[b] <= now
    BY TimesKnown
  <1>2. /\ Place /\ Ticks /\ Stopping /\ \A s \in Requests : Prompt(s)
        /\ UNCHANGED <<now, began, t, pending, nextTick, cancelled, stoppedAt>>
    BY DEF StopInv, Join, history
  <1>3. PICK l \in InFlight : leader' = [leader EXCEPT ![a] = l]
    BY DEF Join
  <1>4. /\ pc[a] = "join" /\ pc'[a] = "wait" /\ leader'[a] = l
        /\ \A b \in Actors \ {a} : pc'[b] = pc[b] /\ leader'[b] = leader[b]
    BY <1>1, <1>3 DEF Join, Goto, TypeOK
  <1>5. InFlight' = InFlight
    BY <1>4 DEF InFlight
  <1>6. Place' /\ Ticks' /\ Stopping'
    <2>1. CASE a = Refresher
      <3>1. l \in Requests
        BY <1>1, <1>4, <2>1 DEF InFlight, Actors
      <3>2. Place'
        BY <1>4, <1>5, <2>1, <3>1 DEF Place, Leading
      <3>3. nextTick = 0 \/ began[l] + RefreshInterval <= nextTick
        BY <1>1, <1>2, <1>4, <2>1, Times DEF Ticks
      <3>4. Ticks'
        BY <1>2, <1>4, <2>1, <3>3 DEF Ticks, Leading
      <3>5. cancelled => t[l] <= stoppedAt
        BY <1>1, <1>2, <1>4, <2>1, <3>1 DEF Stopping
      <3>6. Stopping'
        BY <1>2, <1>4, <2>1, <3>5 DEF Stopping, Leading
      <3> QED
        BY <3>2, <3>4, <3>6
    <2>2. CASE a # Refresher
      BY <1>1, <1>2, <1>4, <1>5, <2>2, RefresherRests DEF Place
    <2> QED
      BY <2>1, <2>2
  <1>7. ASSUME NEW s \in Requests PROVE Prompt(s)'
    BY <1>1, <1>2, <1>4 DEF Prompt
  <1> QED
    BY <1>6, <1>7 DEF StopInv

LEMMA LeadStop ==
  ASSUME RangesInv, StopInv, NEW a \in Actors, Lead(a)
  PROVE  StopInv'
  <1>1. /\ TypeOK /\ now \in Nat /\ Refresher \in Actors
        /\ \A s \in Requests : s \in Actors /\ t[s] \in Nat
    BY TimesKnown
  <1>2. /\ Place /\ Ticks /\ Stopping /\ \A s \in Requests : Prompt(s)
        /\ InFlight = {} /\ pc[a] = "join"
        /\ UNCHANGED <<now, leader, t, pending, nextTick, cancelled, stoppedAt>>
    BY DEF StopInv, Lead, Alone, history
  <1>3. /\ pc'[a] \in {"fetch", "doomed"} /\ began'[a] = now
        /\ \A b \in Actors \ {a} : pc'[b] = pc[b] /\ began'[b] = began[b]
    BY <1>1 DEF Lead, Goto, TypeOK
  <1>4. pc[Refresher] # "wait"
    BY <1>2 DEF Place
  <1>5. Place' /\ Ticks' /\ Stopping'
    <2>1. CASE a = Refresher
      BY <1>1, <1>2, <1>3, <2>1 DEF Place, Ticks, Stopping, Leading
    <2>2. CASE a # Refresher
      BY <1>1, <1>2, <1>3, <1>4, <2>2, RefresherRests
    <2> QED
      BY <2>1, <2>2
  <1>6. ASSUME NEW s \in Requests PROVE Prompt(s)'
    <2>1. CASE s = a
      <3>1. t[s] = now
        BY <1>2, <2>1 DEF Prompt
      <3> QED
        BY <1>1, <1>2, <1>3, <2>1, <3>1, Times DEF Prompt
    <2>2. CASE s # a
      BY <1>1, <1>2, <1>3, <2>2 DEF Prompt
    <2> QED
      BY <2>1, <2>2
  <1> QED
    BY <1>5, <1>6 DEF StopInv

LEMMA FetchedStop ==
  ASSUME RangesInv, StopInv, NEW a \in Actors, Fetched(a)
  PROVE  StopInv'
  <1>1. TypeOK /\ Refresher \in Actors /\ \A s \in Requests : s \in Actors
    BY TimesKnown
  <1>2. /\ Place /\ Ticks /\ Stopping /\ \A s \in Requests : Prompt(s)
        /\ UNCHANGED <<now, leader, began, t, pending, nextTick, cancelled, stoppedAt>>
    BY DEF StopInv, Fetched, FetchOk, FetchFails
  <1>3. /\ pc[a] \in {"fetch", "doomed"} /\ pc'[a] = "landed"
        /\ \A b \in Actors \ {a} : pc'[b] = pc[b]
    BY <1>1 DEF Fetched, FetchOk, FetchFails, Goto, TypeOK
  <1>4. InFlight' = InFlight
    BY <1>3 DEF InFlight
  <1>5. Place' /\ Ticks' /\ Stopping'
    <2>1. CASE a = Refresher
      BY <1>2, <1>3, <2>1 DEF Place, Ticks, Stopping, Leading
    <2>2. CASE a # Refresher
      BY <1>1, <1>2, <1>3, <1>4, <2>2, RefresherRests DEF Place
    <2> QED
      BY <2>1, <2>2
  <1>6. ASSUME NEW s \in Requests PROVE Prompt(s)'
    BY <1>1, <1>2, <1>3 DEF Prompt
  <1> QED
    BY <1>5, <1>6 DEF StopInv

LEMMA ReleaseStop ==
  ASSUME Brief, RangesInv, StopInv, NEW l \in Actors, Release(l)
  PROVE  StopInv'
  <1>1. /\ TypeOK /\ now \in Nat /\ nextTick \in Nat /\ stoppedAt \in Nat /\ Refresher \in Actors
        /\ \A s \in Requests : s \in Actors /\ t[s] \in Nat /\ s # Refresher
        /\ began[l] \in Nat
    BY TimesKnown
  <1>2. /\ Place /\ Ticks /\ Stopping /\ \A s \in Requests : Prompt(s)
        /\ pc[l] = "landed" /\ l \in InFlight
        /\ UNCHANGED <<now, began, t, pending, cancelled, stoppedAt>>
    BY DEF StopInv, Release, InFlight, history
  <1>3. now <= began[l] + FetchTime
    BY <1>2, TimesKnown
  <1>4. \A a \in Actors :
          /\ a \in Sharers(l) => pc'[a] = IF a = Refresher THEN "select" ELSE "settle"
          /\ a \notin Sharers(l) => pc'[a] = pc[a] /\ leader'[a] = leader[a]
    BY DEF Release
  <1>5. Place' /\ Ticks' /\ Stopping'
    <2>1. CASE Refresher \in Sharers(l)
      <3>1. /\ pc'[Refresher] = "select"
            /\ nextTick' = IF nextTick = 0 THEN now + RefreshInterval ELSE nextTick
        BY <1>1, <1>4, <2>1 DEF Release
      <3>2. l = Refresher \/ (pc[Refresher] = "wait" /\ leader[Refresher] = l)
        BY <2>1 DEF Sharers
      <3>3. ~pending /\ (nextTick = 0 \/ began[l] + RefreshInterval <= nextTick)
        BY <1>2, <3>2 DEF Ticks, Leading
      <3>4. now < nextTick'
        <4>1. /\ FetchTime \in Nat /\ VerifyTimeout \in Nat /\ RefreshInterval \in Nat
              /\ FetchTime < RefreshInterval
          BY Times, BriefTimes
        <4>2. CASE nextTick = 0
          BY <1>1, <3>1, <4>1, <4>2
        <4>3. CASE nextTick # 0
          BY <1>1, <1>3, <3>1, <3>3, <4>1, <4>3
        <4> QED
          BY <4>2, <4>3
      <3>5. cancelled => stoppedAt <= now /\ now <= stoppedAt + VerifyTimeout
        <4> SUFFICES ASSUME cancelled PROVE stoppedAt <= now /\ now <= stoppedAt + VerifyTimeout
          OBVIOUS
        <4>1. CASE l = Refresher
          BY <1>1, <1>2, <4>1, Times DEF Stopping, Leading
        <4>2. CASE pc[Refresher] = "wait" /\ leader[Refresher] = l
          <5>1. /\ l \in Requests /\ t[l] \in Nat /\ t[l] <= stoppedAt /\ stoppedAt <= now
                /\ now <= t[l] + VerifyTimeout
            BY <1>1, <1>2, <4>2 DEF Place, Stopping, Prompt
          <5> QED
            BY <1>1, <5>1, Times
        <4> QED
          BY <3>2, <4>1, <4>2
      <3> QED
        BY <1>2, <3>1, <3>3, <3>4, <3>5 DEF Place, Ticks, Stopping, Leading
    <2>2. CASE Refresher \notin Sharers(l)
      <3>1. nextTick' = nextTick /\ pc'[Refresher] = pc[Refresher] /\ leader'[Refresher] = leader[Refresher]
        BY <1>1, <1>4, <2>2 DEF Release
      <3>2. pc[Refresher] = "wait" => leader[Refresher] \in InFlight'
        <4> SUFFICES ASSUME pc[Refresher] = "wait" PROVE leader[Refresher] \in InFlight'
          OBVIOUS
        <4>1. /\ leader[Refresher] \in Actors /\ leader[Refresher] # l
              /\ pc[leader[Refresher]] \in {"fetch", "doomed", "landed"}
          <5>1. leader[Refresher] \in InFlight
            BY <1>2 DEF Place
          <5>2. leader[Refresher] # l
            BY <1>1, <2>2 DEF Sharers
          <5> QED
            BY <5>1, <5>2 DEF InFlight
        <4>2. leader[Refresher] \notin Sharers(l)
          BY <4>1 DEF Sharers
        <4> QED
          BY <1>4, <4>1, <4>2 DEF InFlight
      <3> QED
        BY <1>2, <3>1, <3>2, RefresherRests
    <2> QED
      BY <2>1, <2>2
  <1>6. ASSUME NEW s \in Requests PROVE Prompt(s)'
    <2>1. pc'[s] \in {"settle", pc[s]}
      BY <1>1, <1>4
    <2> QED
      BY <1>2, <2>1 DEF Prompt
  <1> QED
    BY <1>5, <1>6 DEF StopInv

LEMMA RefresherStop ==
  ASSUME RangesInv, StopInv, TakeTick \/ Exit \/ Stop \/ UNCHANGED vars
  PROVE  StopInv'
  <1>1. /\ TypeOK /\ now \in Nat /\ nextTick \in Nat /\ stoppedAt \in Nat /\ Refresher \in Actors
        /\ \A s \in Requests : s \in Actors /\ t[s] \in Nat /\ t[s] <= now /\ s # Refresher
    BY TimesKnown
  <1>2. /\ Place /\ Ticks /\ Stopping /\ \A s \in Requests : Prompt(s)
        /\ UNCHANGED <<now, leader, began, t, nextTick>>
    BY DEF StopInv, TakeTick, Exit, Stop, vars, history
  <1>3. \A s \in Requests : pc'[s] = pc[s]
    BY <1>1 DEF TakeTick, Exit, Stop, vars, Goto, TypeOK
  <1>4. \A s \in Requests : Prompt(s)'
    BY <1>2, <1>3 DEF Prompt
  <1>5. CASE TakeTick
    <2>1. /\ pc[Refresher] = "select" /\ pc'[Refresher] = "join" /\ pending /\ ~pending'
          /\ UNCHANGED <<cancelled, stoppedAt>>
      BY <1>1, <1>5 DEF TakeTick, Goto, TypeOK, history
    <2> QED
      BY <1>2, <1>4, <2>1 DEF StopInv, Place, Ticks, Stopping, Leading
  <1>6. CASE Exit
    <2>1. pc'[Refresher] = "exited" /\ UNCHANGED <<cancelled, stoppedAt>>
      BY <1>1, <1>6 DEF Exit, Goto, TypeOK, history
    <2> QED
      BY <1>2, <1>4, <2>1 DEF StopInv, Place, Ticks, Stopping, Leading
  <1>7. CASE Stop
    <2>1. /\ UNCHANGED <<pc, pending>> /\ cancelled' /\ stoppedAt' = now
      BY <1>7 DEF Stop
    <2>2. Place' /\ Ticks'
      BY <1>2, <2>1 DEF Place, Ticks, InFlight
    <2>3. now <= now + VerifyTimeout
      BY <1>1, Times
    <2>4. Stopping'
      BY <1>1, <1>2, <2>1, <2>3 DEF Place, Stopping
    <2> QED
      BY <1>4, <2>2, <2>4 DEF StopInv
  <1>8. CASE UNCHANGED vars
    BY <1>8 DEF StopInv, Place, Ticks, Stopping, Prompt, InFlight, vars, history
  <1> QED
    BY <1>5, <1>6, <1>7, <1>8

LEMMA TickStop ==
  ASSUME Brief, RangesInv, StopInv, Tick
  PROVE  StopInv'
  <1>1. /\ TypeOK /\ now \in Nat /\ nextTick \in Nat /\ stoppedAt \in Nat /\ Refresher \in Actors
        /\ \A s \in Requests : s \in Actors /\ t[s] \in Nat
        /\ \A a \in InFlight : a \in Actors /\ began[a] \in Nat /\ began[a] <= now
                               /\ now <= began[a] + FetchTime
    BY TimesKnown
  <1>2. /\ Place /\ Ticks /\ Stopping /\ \A s \in Requests : Prompt(s)
        /\ \A a \in Actors : Waiting(a)
        /\ now' = now + 1
        /\ IF now + 1 = nextTick
           THEN pending' = TRUE /\ nextTick' = nextTick + RefreshInterval
           ELSE UNCHANGED <<pending, nextTick>>
        /\ UNCHANGED <<pc, leader, began, t, cancelled, stoppedAt>>
    BY DEF StopInv, Tick, history
  <1>3. /\ FetchTime \in Nat /\ VerifyTimeout \in Nat /\ RefreshInterval \in Nat
        /\ FetchTime < RefreshInterval /\ 0 < RefreshInterval
    BY Times, BriefTimes
  <1>4. ASSUME NEW a \in InFlight
        PROVE  pc[a] = "fetch" /\ now < Deadline(a) /\ now + 1 <= began[a] + FetchTime
    <2>1. pc[a] = "fetch" /\ now < Deadline(a)
      BY <1>1, <1>2 DEF InFlight, Waiting
    <2> QED
      BY <1>1, <2>1, DeadlineBound
  <1>5. ASSUME NEW s \in Requests PROVE Prompt(s)'
    <2>1. pc[s] \notin {"get", "snapshot", "join"}
      BY <1>1, <1>2 DEF Waiting
    <2>2. CASE s \in InFlight
      <3>1. now < Deadline(s) /\ began[s] + FetchTime \in Nat /\ t[s] + VerifyTimeout \in Nat
        BY <1>1, <1>3, <1>4, <2>2
      <3>2. now < t[s] + VerifyTimeout
        BY <1>1, <3>1, MinOfTwo DEF Deadline
      <3>3. now + 1 <= t[s] + VerifyTimeout
        BY <1>1, <3>1, <3>2
      <3> QED
        BY <1>2, <2>1, <3>3 DEF Prompt
    <2>3. CASE s \notin InFlight
      BY <1>1, <1>2, <2>1, <2>3 DEF Prompt, InFlight
    <2> QED
      BY <2>2, <2>3
  <1>6. Place'
    BY <1>2 DEF Place, InFlight
  <1>7. Ticks' /\ Stopping'
    <2>1. CASE pc[Refresher] \in Leading
      <3>1. Refresher \in InFlight
        BY <1>1, <2>1 DEF InFlight, Leading
      <3>2. pc[Refresher] = "fetch" /\ ~cancelled
        <4>1. pc[Refresher] = "fetch" /\ now < Deadline(Refresher)
          BY <1>4, <3>1
        <4>2. cancelled => Deadline(Refresher) = now
          BY ActorsAssumption DEF Deadline
        <4> QED
          BY <1>1, <4>1, <4>2
      <3>3. now + 1 # nextTick
        BY <1>1, <1>2, <1>3, <1>4, <2>1, <3>1 DEF Ticks
      <3> QED
        BY <1>2, <3>2, <3>3 DEF Ticks, Stopping, Leading
    <2>2. CASE pc[Refresher] = "wait"
      <3>1. leader[Refresher] \in InFlight
        BY <1>2, <2>2 DEF Place
      <3>2. now + 1 # nextTick
        BY <1>1, <1>2, <1>3, <1>4, <2>2, <3>1 DEF Ticks
      <3>3. cancelled => stoppedAt <= now'
        BY <1>1, <1>2 DEF Stopping
      <3> QED
        BY <1>2, <2>2, <3>2, <3>3 DEF Ticks, Stopping, Leading
    <2>3. CASE pc[Refresher] = "select"
      <3>1. ~pending /\ ~cancelled /\ now < nextTick
        BY <1>1, <1>2, <2>3 DEF Waiting, Notices, Ticks
      <3>2. now' < nextTick' /\ (pending' => now' + RefreshInterval <= nextTick')
        BY <1>1, <1>2, <1>3, <3>1
      <3> QED
        BY <1>2, <2>3, <3>1, <3>2 DEF Ticks, Stopping, Leading
    <2>4. CASE pc[Refresher] = "exited"
      <3>1. cancelled => stoppedAt <= now'
        BY <1>1, <1>2 DEF Stopping
      <3> QED
        BY <1>2, <2>4, <3>1 DEF Ticks, Stopping, Leading
    <2>5. pc[Refresher] # "join"
      BY <1>1, <1>2 DEF Waiting
    <2> QED
      BY <1>2, <2>1, <2>2, <2>3, <2>4, <2>5 DEF Place
  <1> QED
    BY <1>5, <1>6, <1>7 DEF StopInv

LEMMA StopBound ==
  ASSUME RangesInv, StopInv
  PROVE  StopIsBounded
  <1> SUFFICES ASSUME cancelled, pc[Refresher] # "exited" PROVE now <= stoppedAt + VerifyTimeout
    BY DEF StopIsBounded
  <1>1. /\ now \in Nat /\ stoppedAt \in Nat /\ VerifyTimeout \in Nat
        /\ Place /\ Stopping /\ \A s \in Requests : t[s] \in Nat /\ Prompt(s)
    BY TimesKnown, Times DEF StopInv
  <1>2. CASE pc[Refresher] \in Leading \cup {"join", "select"}
    BY <1>1, <1>2 DEF Stopping
  <1>3. CASE pc[Refresher] = "wait"
    <2>1. /\ leader[Refresher] \in Requests /\ t[leader[Refresher]] <= stoppedAt
          /\ now <= t[leader[Refresher]] + VerifyTimeout
      BY <1>1, <1>3 DEF Place, Stopping, Prompt, InFlight
    <2> QED
      BY <1>1, <2>1
  <1> QED
    BY <1>1, <1>2, <1>3 DEF Place

\* Service.Stop waits for one verification at most, whose fetch the refresher
\* shares, as long as a fetch is over before the next tick (service.go:125).
THEOREM RangesStop == SafeSpec => []StopIsBounded
  <1>1. CASE ~Brief
    <2>1. StopIsBounded
      BY <1>1 DEF Brief, StopIsBounded
    <2> QED
      BY <2>1, PTL
  <1>2. CASE Brief
    <2>1. RangesInv /\ StopInv /\ [Next]_vars => StopInv'
      BY <1>2, VerifyStop, JoinStop, LeadStop, FetchedStop, ReleaseStop, RefresherStop, TickStop
         DEF Next, FetchAndStore
    <2>2. RangesInv /\ StopInv => StopIsBounded
      BY StopBound
    <2> QED
      BY <2>1, <2>2, InitStop, RangesInvariant, PTL DEF SafeSpec
  <1> QED
    BY <1>1, <1>2

-----------------------------------------------------------------------------
(* The cache stays warm                                                    *)

\* What refreshInterval leaves between a tick and the expiry.
Margin == Refresh \div 10

\* StaysWarm promises nothing, now or later.
Slow ==
  \/ failed \/ cancelled
  \/ took.two > Margin
  \/ \E a \in Actors : pc[a] = "fetch" /\ took.last + (now - began[a]) > Margin

\* When the last fetch ended.
Landing == cache.networks + took.last

\* Before the ticker is made only the first moment's fetches have been made.
BeforeTicks ==
  /\ ~pending /\ pc[Refresher] # "select"
  /\ cache.networks <= 1
  /\ pc[Refresher] = "join" => now = 1
  /\ \A a \in Actors : pc[a] \in Leading => began[a] = 1

\* A fetch has ended since the tick before the last one, and since the last one
\* if the refresher is back at its select.
BetweenTicks ==
  /\ now < nextTick /\ nextTick <= now + RefreshInterval
  /\ nextTick <= Landing + RefreshInterval + RefreshInterval
  /\ pending \/ pc[Refresher] = "join" => nextTick = now + RefreshInterval
  /\ pc[Refresher] = "select" /\ ~pending => nextTick <= Landing + RefreshInterval
  /\ pc[Refresher] \in Leading \cup {"wait"} =>
       \A a \in Actors : pc[a] = "fetch" => began[a] + RefreshInterval <= nextTick

Warm ==
  /\ pc[Refresher] # "exited"
  /\ pc[Refresher] \in Leading \cup {"join", "wait"} => ~pending
  /\ Landing <= now /\ took.last <= took.two
  /\ \A a \in Actors : /\ pc[a] # "doomed"
                       /\ pc[a] = "landed" => cache.networks = began[a] /\ Landing = now
  /\ IF nextTick = 0 THEN BeforeTicks ELSE BetweenTicks

WarmInv == Place /\ (Slow \/ Warm)

LEMMA MarginKnown ==
  ASSUME Refresh # 0
  PROVE  /\ Margin \in Nat /\ RefreshInterval \in Nat
         /\ Margin < RefreshInterval /\ RefreshInterval + Margin = Refresh
  <1>1. Refresh \in Nat /\ 0 < Refresh
    BY Times
  <1>2. Margin \in Nat /\ Margin + Margin < Refresh
    BY <1>1 DEF Margin
  <1>3. RefreshInterval = Refresh - Margin
    BY DEF RefreshInterval, Margin
  <1> QED
    BY <1>1, <1>2, <1>3

LEMMA WarmTypes ==
  ASSUME RangesInv
  PROVE  /\ cache.networks \in Nat /\ took.last \in Nat /\ took.two \in Nat
         /\ cache.expiresAt = IF cache.networks = 0 THEN 0 ELSE cache.networks + Refresh
         /\ \A a, b \in Actors : pc[a] \in Leading /\ pc[b] \in Leading => a = b
  BY DEF RangesInv, TypeOK, Cache, Time, CacheHolds, Single, InFlight, Leading

LEMMA InitWarm == Init => WarmInv
  <1> SUFFICES ASSUME Init PROVE Place /\ Warm
    BY DEF WarmInv
  <1>1. Refresher \in Actors /\ \A a \in Actors : pc[a] = IF a = Refresher THEN "join" ELSE "idle"
    BY DEF Init, Actors
  <1>2. Place
    BY <1>1 DEF Place
  <1>3. Landing = 0 /\ cache.networks = 0 /\ took.last = 0 /\ took.two = 0
    BY DEF Init, Landing, EmptyCache
  <1>4. BeforeTicks
    BY <1>1, <1>3 DEF Init, BeforeTicks, Leading
  <1>5. ~pending /\ now = 1 /\ nextTick = 0
    BY DEF Init
  <1> QED
    BY <1>1, <1>2, <1>3, <1>4, <1>5 DEF Warm, Leading

\* What was too slow remains so: the two fetches in a row are remembered.
LEMMA StillSlow ==
  ASSUME RangesInv, Slow, [Next]_vars
  PROVE  Slow'
  <1>1. /\ TypeOK /\ now \in Nat /\ Refresher \in Actors /\ \A r \in Requests : r \in Actors
        /\ \A a \in Actors : began[a] \in Nat
    BY TimesKnown
  <1>2. CASE \E r \in Requests : Verify(r)
    <2>1. PICK r \in Requests : Verify(r)
      BY <1>2
    <2>2. /\ pc[r] # "fetch" /\ \A a \in Actors \ {r} : pc'[a] = pc[a]
          /\ UNCHANGED <<now, began, failed, cancelled, took>>
      BY <1>1, <2>1 DEF Verify, Enter, Get, Snapshot, Settle, FallBack, Answer, Goto, TypeOK, history
    <2> QED
      BY <2>2 DEF Slow
  <1>3. CASE \E a \in Actors : Join(a) \/ Lead(a) \/ Release(a)
    <2>1. PICK a \in Actors : Join(a) \/ Lead(a) \/ Release(a)
      BY <1>3
    <2>2. /\ UNCHANGED <<now, failed, cancelled, took>>
          /\ \A b \in Actors : pc[b] = "fetch" => pc'[b] = "fetch" /\ began'[b] = began[b]
      BY <1>1, <2>1 DEF Join, Lead, Release, Sharers, Goto, TypeOK, history
    <2> QED
      BY <2>2 DEF Slow
  <1>4. CASE \E a \in Actors : Fetched(a)
    <2>1. PICK a \in Actors : Fetched(a)
      BY <1>4
    <2>2. /\ pc[a] \in {"fetch", "doomed"}
          /\ \A b \in Actors \ {a} : pc'[b] = pc[b]
          /\ Took(a) /\ UNCHANGED <<now, began, cancelled>> /\ (failed => failed')
      BY <1>1, <2>1 DEF Fetched, FetchOk, FetchFails, Goto, TypeOK
    <2>3. /\ began[a] <= now /\ took.last \in Nat /\ took.two \in Nat
      BY <1>1, <2>2, TimesKnown, WarmTypes DEF InFlight
    <2>4. took.two <= took'.two /\ took.last + (now - began[a]) <= took'.two
      <3>1. now - began[a] \in Nat /\ took.last + (now - began[a]) \in Nat
        BY <1>1, <2>3
      <3> QED
        BY <2>2, <2>3, <3>1, MaxOfTwo DEF Took
    <2>5. \A b \in Actors : pc[b] = "fetch" => b = a
      BY <2>2, WarmTypes DEF Leading
    <2>6. took'.two \in Nat /\ Margin \in Int
      <3>1. now - began[a] \in Nat /\ took.last + (now - began[a]) \in Nat
        BY <1>1, <2>3
      <3> QED
        BY <2>2, <2>3, <3>1, MaxOfTwo, Times DEF Took, Margin
    <2>7. failed \/ cancelled \/ took.two > Margin \/ took.last + (now - began[a]) > Margin
      BY <2>5 DEF Slow
    <2>8. failed' \/ cancelled' \/ took'.two > Margin
      BY <1>1, <2>2, <2>3, <2>4, <2>6, <2>7
    <2> QED
      BY <2>8 DEF Slow, Margin
  <1>5. CASE TakeTick \/ Exit \/ Stop \/ UNCHANGED vars
    <2>1. /\ UNCHANGED <<now, began, failed, took>> /\ (cancelled => cancelled')
          /\ \A a \in Actors : pc[a] = "fetch" => pc'[a] = "fetch"
      BY <1>1, <1>5 DEF TakeTick, Exit, Stop, vars, Goto, TypeOK, history
    <2> QED
      BY <2>1 DEF Slow
  <1>6. CASE Tick
    <2>1. UNCHANGED <<pc, began, cancelled, failed, took>> /\ now' = now + 1
      BY <1>6 DEF Tick, history
    <2>2. Margin \in Int /\ took.last \in Nat
      BY Times, WarmTypes DEF Margin
    <2>3. \A a \in Actors : took.last + (now - began[a]) > Margin
                              => took.last + (now' - began[a]) > Margin
      BY <1>1, <2>1, <2>2
    <2> QED
      BY <2>1, <2>3 DEF Slow, Margin
  <1> QED
    BY <1>2, <1>3, <1>4, <1>5, <1>6 DEF Next, FetchAndStore

\* The refresher keeps to its places, whatever happens.
LEMMA PlaceKept ==
  ASSUME RangesInv, Place, [Next]_vars
  PROVE  Place'
  <1>1. TypeOK /\ Refresher \in Actors /\ \A r \in Requests : r \in Actors /\ r # Refresher
    BY TimesKnown
  <1>2. CASE \E r \in Requests : Verify(r)
    <2>1. PICK r \in Requests : Verify(r)
      BY <1>2
    <2>2. /\ r \notin InFlight /\ leader' = leader
          /\ \A a \in Actors \ {r} : pc'[a] = pc[a]
      BY <1>1, <2>1 DEF Verify, Enter, Get, Snapshot, Settle, FallBack, Answer, Goto, TypeOK, InFlight
    <2> QED
      BY <1>1, <2>2 DEF Place, InFlight
  <1>3. CASE \E a \in Actors : Join(a)
    <2>1. PICK a \in Actors : Join(a)
      BY <1>3
    <2>2. PICK l \in InFlight : leader' = [leader EXCEPT ![a] = l]
      BY <2>1 DEF Join
    <2>3. /\ pc[a] = "join" /\ pc'[a] = "wait" /\ leader'[a] = l
          /\ \A b \in Actors \ {a} : pc'[b] = pc[b] /\ leader'[b] = leader[b]
      BY <1>1, <2>1, <2>2 DEF Join, Goto, TypeOK
    <2>4. InFlight' = InFlight /\ (a = Refresher => l \in Requests)
      BY <2>3 DEF InFlight, Actors
    <2> QED
      BY <1>1, <2>3, <2>4 DEF Place
  <1>4. CASE \E a \in Actors : Lead(a)
    <2>1. PICK a \in Actors : Lead(a)
      BY <1>4
    <2>2. /\ pc'[a] \in {"fetch", "doomed"} /\ InFlight = {}
          /\ \A b \in Actors \ {a} : pc'[b] = pc[b]
      BY <1>1, <2>1 DEF Lead, Alone, Goto, TypeOK
    <2> QED
      BY <1>1, <2>2 DEF Place, Leading
  <1>5. CASE \E a \in Actors : Fetched(a)
    <2>1. PICK a \in Actors : Fetched(a)
      BY <1>5
    <2>2. /\ pc[a] \in {"fetch", "doomed"} /\ pc'[a] = "landed" /\ leader' = leader
          /\ \A b \in Actors \ {a} : pc'[b] = pc[b]
      BY <1>1, <2>1 DEF Fetched, FetchOk, FetchFails, Goto, TypeOK
    <2>3. InFlight' = InFlight
      BY <2>2 DEF InFlight
    <2> QED
      BY <1>1, <2>2, <2>3 DEF Place, Leading
  <1>6. CASE \E l \in Actors : Release(l)
    <2>1. PICK l \in Actors : Release(l)
      BY <1>6
    <2>2. \A a \in Actors :
            /\ a \in Sharers(l) => pc'[a] = IF a = Refresher THEN "select" ELSE "settle"
            /\ a \notin Sharers(l) => pc'[a] = pc[a] /\ leader'[a] = leader[a]
      BY <2>1 DEF Release
    <2>3. CASE Refresher \in Sharers(l)
      BY <1>1, <2>2, <2>3 DEF Place
    <2>4. CASE Refresher \notin Sharers(l)
      <3>1. pc'[Refresher] = pc[Refresher] /\ leader'[Refresher] = leader[Refresher]
        BY <1>1, <2>2, <2>4
      <3>2. pc[Refresher] = "wait" => leader[Refresher] \in InFlight'
        <4> SUFFICES ASSUME pc[Refresher] = "wait" PROVE leader[Refresher] \in InFlight'
          OBVIOUS
        <4>1. leader[Refresher] \in InFlight /\ leader[Refresher] # l
          BY <1>1, <2>4 DEF Place, Sharers
        <4>2. leader[Refresher] \notin Sharers(l)
          BY <4>1 DEF Sharers, InFlight
        <4> QED
          BY <2>2, <4>1, <4>2 DEF InFlight
      <3> QED
        BY <3>1, <3>2 DEF Place
    <2> QED
      BY <2>3, <2>4
  <1>7. CASE TakeTick \/ Exit \/ Stop \/ Tick \/ UNCHANGED vars
    <2>1. /\ UNCHANGED leader /\ \A r \in Requests : pc'[r] = pc[r]
          /\ pc'[Refresher] \in {"join", "exited", pc[Refresher]}
      BY <1>1, <1>7 DEF TakeTick, Exit, Stop, Tick, vars, Goto, TypeOK
    <2> QED
      BY <1>1, <2>1 DEF Place, InFlight
  <1> QED
    BY <1>2, <1>3, <1>4, <1>5, <1>6, <1>7 DEF Next, FetchAndStore

\* A step that leaves the refresher and the fetches under way as they are.
LEMMA WarmRests ==
  ASSUME Warm, UNCHANGED <<now, cache, took, began, pending, nextTick>>,
         pc'[Refresher] = pc[Refresher],
         \A a \in Actors : pc'[a] = pc[a] \/ pc'[a] \notin Leading
  PROVE  Warm'
  <1>1. Landing' = Landing
    BY DEF Landing
  <1>2. BeforeTicks => BeforeTicks'
    BY DEF BeforeTicks
  <1>3. BetweenTicks => BetweenTicks'
    BY <1>1 DEF BetweenTicks, RefreshInterval, Leading
  <1> QED
    BY <1>1, <1>2, <1>3 DEF Warm, Leading

LEMMA VerifyWarm ==
  ASSUME RangesInv, Place, Warm, NEW r \in Requests, Verify(r)
  PROVE  Warm'
  <1>1. TypeOK /\ r \in Actors /\ r # Refresher
    BY TimesKnown
  <1>2. /\ \A a \in Actors \ {r} : pc'[a] = pc[a]
        /\ pc[r] \in {"idle", "get", "snapshot", "settle"}
        /\ pc'[r] \in {"get", "snapshot", "join", "done"}
        /\ UNCHANGED <<now, cache, took, began, leader, pending, nextTick>>
    BY <1>1 DEF Verify, Enter, Get, Snapshot, Settle, FallBack, Answer, Goto, TypeOK, history
  <1>3. pc'[Refresher] = pc[Refresher]
    BY <1>1, <1>2, TimesKnown
  <1> QED
    BY <1>2, <1>3, WarmRests DEF Leading

LEMMA JoinWarm ==
  ASSUME RangesInv, Place, Warm, NEW a \in Actors, Join(a)
  PROVE  Warm'
  <1>1. TypeOK /\ Refresher \in Actors /\ now \in Nat /\ \A b \in InFlight : began[b] <= now
    BY TimesKnown
  <1>2. /\ pc[a] = "join" /\ pc'[a] = "wait"
        /\ \A b \in Actors \ {a} : pc'[b] = pc[b]
        /\ UNCHANGED <<now, cache, took, began, pending, nextTick>>
    BY <1>1 DEF Join, Goto, TypeOK, history
  <1>3. CASE a = Refresher
    <2>1. BeforeTicks => BeforeTicks'
      BY <1>2, <1>3 DEF BeforeTicks, Leading
    <2>2. BetweenTicks => BetweenTicks'
      <3> SUFFICES ASSUME BetweenTicks PROVE BetweenTicks'
        OBVIOUS
      <3>1. nextTick = now + RefreshInterval
        BY <1>2, <1>3 DEF BetweenTicks
      <3>2. \A b \in Actors : pc[b] = "fetch" => began[b] + RefreshInterval <= nextTick
        <4> TAKE b \in Actors
        <4> SUFFICES ASSUME pc[b] = "fetch" PROVE began[b] + RefreshInterval <= nextTick
          OBVIOUS
        <4>1. began[b] \in Nat /\ began[b] <= now
          BY TimesKnown DEF InFlight
        <4> QED
          BY <1>1, <3>1, <4>1, Times
      <3>3. \A b \in Actors : pc'[b] = "fetch" => pc[b] = "fetch"
        BY <1>2
      <3>4. Landing' = Landing /\ ~pending
        BY <1>2, <1>3 DEF Landing, Warm
      <3> QED
        BY <1>2, <1>3, <3>2, <3>3, <3>4 DEF BetweenTicks, RefreshInterval
    <2>3. Landing' = Landing
      BY <1>2 DEF Landing
    <2> QED
      BY <1>2, <1>3, <2>1, <2>2, <2>3 DEF Warm
  <1>4. CASE a # Refresher
    <2>1. pc'[Refresher] = pc[Refresher]
      BY <1>1, <1>2, <1>4
    <2> QED
      BY <1>2, <2>1, WarmRests DEF Leading
  <1> QED
    BY <1>3, <1>4

LEMMA LeadWarm ==
  ASSUME RangesInv, Place, Warm, ~cancelled, NEW a \in Actors, Lead(a)
  PROVE  Warm'
  <1>1. TypeOK /\ Refresher \in Actors /\ now \in Nat
    BY TimesKnown
  <1>2. /\ pc[a] = "join" /\ pc'[a] = "fetch" /\ began'[a] = now
        /\ \A b \in Actors \ {a} : pc'[b] = pc[b] /\ began'[b] = began[b] /\ pc[b] \notin Leading
        /\ UNCHANGED <<now, cache, took, leader, pending, nextTick>>
    BY <1>1 DEF Lead, Alone, InFlight, Goto, TypeOK, history, Leading
  <1>3. pc[Refresher] \in {"join", "select"}
    BY <1>1, <1>2 DEF Place, Warm, InFlight, Leading
  <1>4. Landing' = Landing
    BY <1>2 DEF Landing
  <1>5. BeforeTicks => BeforeTicks'
    BY <1>1, <1>2, <1>3 DEF BeforeTicks, Leading
  <1>6. BetweenTicks => BetweenTicks'
    <2> SUFFICES ASSUME BetweenTicks PROVE BetweenTicks'
      OBVIOUS
    <2>1. CASE a = Refresher
      <3>1. nextTick = now + RefreshInterval /\ ~pending
        BY <1>2, <2>1 DEF BetweenTicks, Warm
      <3>2. \A b \in Actors : pc'[b] = "fetch" => b = a
        BY <1>2 DEF Leading
      <3>3. began'[a] + RefreshInterval <= nextTick
        BY <1>1, <1>2, <3>1, Times
      <3> QED
        BY <1>2, <1>4, <2>1, <3>1, <3>2, <3>3 DEF BetweenTicks, RefreshInterval
    <2>2. CASE a # Refresher
      BY <1>1, <1>2, <1>3, <1>4, <2>2 DEF BetweenTicks, RefreshInterval, Leading
    <2> QED
      BY <2>1, <2>2
  <1> QED
    BY <1>1, <1>2, <1>3, <1>4, <1>5, <1>6 DEF Warm, Leading

\* The fetch ends: it succeeds, or everything is slow from here.
LEMMA FetchedWarm ==
  ASSUME Refresh # 0, RangesInv, Place, Warm, NEW a \in Actors, FetchOk(a)
  PROVE  Warm'
  <1>1. TypeOK /\ Refresher \in Actors /\ now \in Nat /\ nextTick \in Nat
    BY TimesKnown
  <1>2. /\ pc[a] = "fetch" /\ pc'[a] = "landed"
        /\ \A b \in Actors \ {a} : pc'[b] = pc[b]
        /\ cache'.networks = began[a] /\ took'.last = now - began[a]
        /\ took'.two = Max({took.two, took.last + (now - began[a])})
        /\ UNCHANGED <<now, began, leader, pending, nextTick>>
    BY <1>1 DEF FetchOk, Goto, Took, TypeOK
  <1>3. began[a] \in Nat /\ began[a] <= now /\ cache.networks <= began[a]
        /\ cache.networks \in Nat /\ took.last \in Nat /\ took.two \in Nat
    BY <1>2, TimesKnown, WarmTypes DEF RangesInv, Flight, InFlight
  <1>4. \A b \in Actors \ {a} : pc[b] \notin Leading
    BY <1>2, WarmTypes DEF Leading
  <1>5. Landing' = now /\ Landing <= now
    BY <1>1, <1>2, <1>3 DEF Landing, Warm
  <1>6. took'.last <= took'.two
    <2>1. now - began[a] \in Nat /\ took.last + (now - began[a]) \in Nat
      BY <1>1, <1>3
    <2>2. took.last + (now - began[a]) <= took'.two /\ took'.two \in Nat
      BY <1>2, <1>3, <2>1, MaxOfTwo
    <2> QED
      BY <1>2, <1>3, <2>1, <2>2
  <1>7. BeforeTicks => BeforeTicks'
    BY <1>1, <1>2, <1>3 DEF BeforeTicks, Leading
  <1>8. BetweenTicks => BetweenTicks'
    <2> SUFFICES ASSUME BetweenTicks PROVE BetweenTicks'
      OBVIOUS
    <2>1. RefreshInterval \in Nat /\ RefreshInterval' = RefreshInterval
      BY Times DEF RefreshInterval
    <2>2. nextTick' <= Landing' + RefreshInterval'
      BY <1>1, <1>2, <1>5, <2>1 DEF BetweenTicks
    <2>3. nextTick' <= Landing' + RefreshInterval' + RefreshInterval'
      BY <1>1, <1>2, <1>5, <2>1, <2>2
    <2>4. \A b \in Actors : pc'[b] # "fetch"
      BY <1>2, <1>4 DEF Leading
    <2>5. pc'[Refresher] = "join" => pc[Refresher] = "join"
      BY <1>1, <1>2
    <2>6. now' < nextTick' /\ nextTick' <= now' + RefreshInterval'
      BY <1>2, <2>1 DEF BetweenTicks
    <2>7. pending' \/ pc'[Refresher] = "join" => nextTick' = now' + RefreshInterval'
      BY <1>2, <2>1, <2>5 DEF BetweenTicks
    <2> QED
      BY <2>2, <2>3, <2>4, <2>6, <2>7 DEF BetweenTicks
  <1>9. \A b \in Actors : /\ pc'[b] # "doomed"
                          /\ pc'[b] = "landed" => cache'.networks = began'[b] /\ Landing' = now'
    BY <1>2, <1>4, <1>5 DEF Warm, Leading
  <1>10. /\ pc'[Refresher] # "exited"
         /\ pc'[Refresher] \in Leading \cup {"join", "wait"} => ~pending'
    BY <1>1, <1>2 DEF Warm, Leading
  <1>11. Landing' <= now'
    BY <1>1, <1>2, <1>5
  <1>12. IF nextTick' = 0 THEN BeforeTicks' ELSE BetweenTicks'
    BY <1>2, <1>7, <1>8 DEF Warm
  <1> QED
    BY <1>6, <1>9, <1>10, <1>11, <1>12 DEF Warm

LEMMA ReleaseWarm ==
  ASSUME Refresh # 0, RangesInv, Place, Warm, NEW l \in Actors, Release(l)
  PROVE  Warm'
  <1>1. /\ TypeOK /\ Refresher \in Actors /\ now \in Nat /\ 0 < now
        /\ began[l] \in Nat /\ RefreshInterval \in Nat /\ 0 < RefreshInterval
    BY TimesKnown, MarginKnown DEF RangesInv
  <1>2. /\ pc[l] = "landed" /\ UNCHANGED <<now, cache, took, began, pending>>
        /\ \A a \in Actors :
             /\ a \in Sharers(l) => pc'[a] = IF a = Refresher THEN "select" ELSE "settle"
             /\ a \notin Sharers(l) => pc'[a] = pc[a]
    BY DEF Release, history
  <1>3. \A a \in Actors : pc'[a] \notin Leading
    <2> TAKE a \in Actors
    <2>1. CASE a \in Sharers(l)
      BY <1>2, <2>1 DEF Leading
    <2>2. CASE a \notin Sharers(l)
      <3>1. a # l
        BY <2>2 DEF Sharers
      <3>2. pc[a] \notin Leading
        BY <1>2, <3>1, WarmTypes DEF Leading
      <3> QED
        BY <1>2, <2>2, <3>2
    <2> QED
      BY <2>1, <2>2
  <1>4. Landing = now /\ cache.networks = began[l] /\ Landing' = Landing
    BY <1>2 DEF Warm, Landing
  <1>5. CASE Refresher \in Sharers(l)
    <2>1. /\ pc'[Refresher] = "select"
          /\ nextTick' = IF nextTick = 0 THEN now + RefreshInterval ELSE nextTick
      BY <1>1, <1>2, <1>5 DEF Release
    <2>2. pc[Refresher] \in Leading \cup {"wait"}
      BY <1>2, <1>5 DEF Sharers, Leading
    <2>3. ~pending'
      BY <1>2, <2>2 DEF Warm
    <2>4. now < nextTick' /\ nextTick' <= now + RefreshInterval /\ nextTick' \in Nat
      <3>1. CASE nextTick = 0
        BY <1>1, <2>1, <3>1
      <3>2. CASE nextTick # 0
        BY <2>1, <3>2, TimesKnown DEF Warm, BetweenTicks
      <3> QED
        BY <3>1, <3>2
    <2>5. nextTick' <= now + RefreshInterval + RefreshInterval
      BY <1>1, <2>4
    <2>6. BetweenTicks'
      BY <1>2, <1>4, <2>1, <2>3, <2>4, <2>5 DEF BetweenTicks, RefreshInterval, Leading
    <2>7. nextTick' # 0
      BY <1>1, <2>4
    <2> QED
      BY <1>2, <1>3, <1>4, <2>1, <2>3, <2>6, <2>7 DEF Warm, Leading
  <1>6. CASE Refresher \notin Sharers(l)
    <2>1. UNCHANGED nextTick /\ pc'[Refresher] = pc[Refresher]
      BY <1>1, <1>2, <1>6 DEF Release
    <2> QED
      BY <1>2, <1>3, <2>1, WarmRests
  <1> QED
    BY <1>5, <1>6

LEMMA TakeTickWarm ==
  ASSUME RangesInv, Warm, TakeTick
  PROVE  Warm'
  <1>1. TypeOK /\ Refresher \in Actors
    BY TimesKnown
  <1>2. /\ pc[Refresher] = "select" /\ pc'[Refresher] = "join" /\ pending /\ ~pending'
        /\ \A a \in Actors \ {Refresher} : pc'[a] = pc[a]
        /\ UNCHANGED <<now, cache, took, began, nextTick>>
    BY <1>1 DEF TakeTick, Goto, TypeOK, history
  <1>3. ~BeforeTicks /\ Landing' = Landing
    BY <1>2 DEF BeforeTicks, Landing
  <1>4. BetweenTicks => BetweenTicks'
    BY <1>2, <1>3 DEF BetweenTicks, RefreshInterval, Leading
  <1> QED
    BY <1>1, <1>2, <1>3, <1>4 DEF Warm, Leading

\* No tick comes while the refresher fetches or waits: its fetch would be slow.
LEMMA TickWarm ==
  ASSUME Refresh # 0, RangesInv, Place, Warm, ~Slow', Tick
  PROVE  Warm'
  <1>1. /\ TypeOK /\ Refresher \in Actors /\ now \in Nat /\ nextTick \in Nat
        /\ \A a \in Actors : began[a] \in Nat
        /\ took.last \in Nat /\ cache.networks \in Nat /\ Landing \in Nat
        /\ Margin \in Nat /\ RefreshInterval \in Nat /\ Margin < RefreshInterval
    BY TimesKnown, WarmTypes, MarginKnown DEF Landing
  <1>2. /\ \A a \in Actors : Waiting(a)
        /\ now' = now + 1
        /\ IF now + 1 = nextTick
           THEN pending' = TRUE /\ nextTick' = nextTick + RefreshInterval
           ELSE UNCHANGED <<pending, nextTick>>
        /\ UNCHANGED <<pc, cache, began, took>>
    BY DEF Tick, history
  <1>3. \A a \in Actors : pc[a] \notin {"landed", "doomed", "join"} /\ (pc[a] = "select" => ~pending)
    BY <1>2 DEF Waiting
  <1>4. \A a \in Actors : pc[a] = "fetch" => now + 1 <= began[a] + Margin
    <2> TAKE a \in Actors
    <2> SUFFICES ASSUME pc[a] = "fetch" PROVE now + 1 <= began[a] + Margin
      OBVIOUS
    <2>1. ~(took'.last + (now' - began'[a]) > Margin')
      BY <1>2 DEF Slow
    <2>2. took' = took /\ now' = now + 1 /\ began' = began /\ Margin' = Margin
      BY <1>2 DEF Margin
    <2>3. ~(took.last + ((now + 1) - began[a]) > Margin)
      BY <2>1, <2>2
    <2> QED
      BY <1>1, <2>3
  <1>5. Landing' = Landing /\ Landing <= now
    BY <1>2 DEF Landing, Warm
  <1>6. CASE nextTick = 0
    <2>1. BeforeTicks /\ UNCHANGED <<pending, nextTick>>
      BY <1>1, <1>2, <1>6 DEF Warm
    <2>2. BeforeTicks'
      BY <1>1, <1>2, <1>3, <2>1 DEF BeforeTicks
    <2> QED
      BY <1>1, <1>2, <1>3, <1>5, <1>6, <2>1, <2>2 DEF Warm
  <1>7. CASE nextTick # 0
    <2>1. /\ now < nextTick /\ nextTick <= now + RefreshInterval
          /\ nextTick <= Landing + RefreshInterval + RefreshInterval
          /\ pc[Refresher] = "select" => nextTick <= Landing + RefreshInterval
          /\ pc[Refresher] \in Leading \cup {"wait"} =>
               \A a \in Actors : pc[a] = "fetch" => began[a] + RefreshInterval <= nextTick
      BY <1>1, <1>3, <1>7 DEF Warm, BetweenTicks
    <2>2. CASE pc[Refresher] = "select"
      <3>1. /\ now' < nextTick' /\ nextTick' <= now' + RefreshInterval /\ nextTick' # 0
            /\ pending' => nextTick' = now' + RefreshInterval
            /\ nextTick' <= Landing + RefreshInterval + RefreshInterval
            /\ ~pending' => nextTick' <= Landing + RefreshInterval
        BY <1>1, <1>2, <1>3, <2>1, <2>2
      <3>2. BetweenTicks'
        BY <1>2, <1>5, <2>2, <3>1 DEF BetweenTicks, RefreshInterval, Leading
      <3> QED
        BY <1>1, <1>2, <1>3, <1>5, <2>2, <3>1, <3>2 DEF Warm, Leading
    <2>3. CASE pc[Refresher] # "select"
      <3>1. PICK f \in Actors : pc[f] = "fetch"
        BY <1>1, <1>3, <2>3 DEF Place, Warm, Leading, InFlight
      <3>2. pc[Refresher] \in Leading \cup {"wait"} /\ ~pending
        BY <1>1, <1>3, <2>3 DEF Place, Warm
      <3>3. now + 1 < nextTick
        BY <1>1, <1>4, <2>1, <3>1, <3>2
      <3>4. BetweenTicks'
        BY <1>1, <1>2, <1>5, <2>1, <2>3, <3>2, <3>3 DEF BetweenTicks, RefreshInterval, Leading
      <3> QED
        BY <1>1, <1>2, <1>3, <1>5, <1>7, <3>2, <3>3, <3>4 DEF Warm
    <2> QED
      BY <2>2, <2>3
  <1> QED
    BY <1>6, <1>7

LEMMA StepWarm ==
  ASSUME Refresh # 0, RangesInv, WarmInv, [Next]_vars
  PROVE  WarmInv'
  <1>1. Place'
    BY PlaceKept DEF WarmInv
  <1>2. SUFFICES ASSUME ~Slow' PROVE Warm'
    BY <1>1 DEF WarmInv
  <1>3. /\ Place /\ Warm /\ ~Slow
        /\ ~cancelled /\ ~cancelled' /\ ~failed'
    BY <1>2, StillSlow DEF WarmInv, Slow
  <1>4. CASE \E r \in Requests : Verify(r)
    BY <1>3, <1>4, VerifyWarm
  <1>5. CASE \E a \in Actors : Join(a) \/ Lead(a) \/ Release(a)
    BY <1>3, <1>5, JoinWarm, LeadWarm, ReleaseWarm
  <1>6. CASE \E a \in Actors : Fetched(a)
    BY <1>3, <1>6, FetchedWarm DEF Fetched, FetchFails
  <1>7. CASE Exit \/ Stop
    BY <1>3, <1>7 DEF Exit, Notices, Stop
  <1>8. CASE UNCHANGED vars
    BY <1>3, <1>8, WarmRests DEF vars, history
  <1> QED
    BY <1>2, <1>3, <1>4, <1>5, <1>6, <1>7, <1>8, TakeTickWarm, TickWarm DEF Next, FetchAndStore

LEMMA WarmBound ==
  ASSUME Refresh # 0, RangesInv, WarmInv
  PROVE  StaysWarm
  <1> SUFFICES ASSUME cache.networks # 0, ~failed, ~cancelled, took.two <= Margin,
                      \A a \in Actors : pc[a] = "fetch" => took.last + (now - began[a]) <= Margin
               PROVE  now <= cache.networks + Refresh
    BY WarmTypes DEF StaysWarm, Margin
  <1>1. /\ TypeOK /\ Refresher \in Actors /\ now \in Nat /\ nextTick \in Nat
        /\ \A a \in Actors : began[a] \in Nat
        /\ took.last \in Nat /\ took.two \in Nat /\ cache.networks \in Nat
        /\ Margin \in Nat /\ RefreshInterval \in Nat /\ RefreshInterval + Margin = Refresh
    BY TimesKnown, WarmTypes, MarginKnown
  <1>2. Place /\ Warm
    <2>1. \A a \in Actors : pc[a] = "fetch" => ~(took.last + (now - began[a]) > Margin)
      BY <1>1
    <2> QED
      BY <1>1, <2>1 DEF WarmInv, Slow
  <1>3. took.last <= Margin
    BY <1>1, <1>2 DEF Warm
  <1>4. ASSUME NEW a \in Actors, pc[a] \in Leading, nextTick = 0
        PROVE  now <= cache.networks + Refresh
    <2>1. began[a] = 1 /\ pc[a] \in {"fetch", "landed"}
      BY <1>2, <1>4 DEF Warm, BeforeTicks, Leading
    <2>2. CASE pc[a] = "fetch"
      BY <1>1, <2>1, <2>2
    <2>3. CASE pc[a] = "landed"
      BY <1>1, <1>2, <1>3, <2>3 DEF Warm, Landing
    <2> QED
      BY <2>1, <2>2, <2>3
  <1>5. CASE nextTick = 0
    <2>1. CASE pc[Refresher] = "join"
      BY <1>1, <1>2, <1>5, <2>1 DEF Warm, BeforeTicks
    <2>2. CASE pc[Refresher] # "join"
      <3>1. \E a \in Actors : pc[a] \in Leading
        BY <1>1, <1>2, <1>5, <2>2 DEF Place, Warm, BeforeTicks, InFlight, Leading
      <3> QED
        BY <1>4, <1>5, <3>1
    <2> QED
      BY <2>1, <2>2
  <1>6. CASE nextTick # 0
    <2>1. BetweenTicks
      BY <1>2, <1>6 DEF Warm
    <2>2. CASE pc[Refresher] = "select" \/ pc[Refresher] = "join"
      BY <1>1, <1>3, <2>1, <2>2 DEF BetweenTicks, Landing
    <2>3. CASE pc[Refresher] \in Leading \cup {"wait"}
      <3>1. PICK f \in Actors : pc[f] \in {"fetch", "landed"}
        BY <1>1, <1>2, <2>3 DEF Place, Warm, InFlight, Leading
      <3>2. CASE pc[f] = "fetch"
        <4>1. began[f] + RefreshInterval <= nextTick
          BY <2>1, <2>3, <3>2 DEF BetweenTicks
        <4>2. nextTick <= cache.networks + took.last + RefreshInterval + RefreshInterval
          BY <2>1 DEF BetweenTicks, Landing
        <4>3. took.last + (now - began[f]) <= Margin
          BY <3>2
        <4> QED
          BY <1>1, <4>1, <4>2, <4>3
      <3>3. CASE pc[f] = "landed"
        BY <1>1, <1>2, <1>3, <3>3 DEF Warm, Landing
      <3> QED
        BY <3>1, <3>2, <3>3
    <2> QED
      BY <1>2, <2>2, <2>3 DEF Place, Warm
  <1> QED
    BY <1>5, <1>6

\* While every fetch succeeds and any two in a row fit the margin, the networks
\* never expire before they are renewed (ip_ranges.go:168); the refresher's fetch
\* after a tick is one of the two, and whatever fetch ended before it the other.
THEOREM RangesStayWarm ==
  ASSUME Refresh # 0
  PROVE  SafeSpec => []StaysWarm
  <1>1. RangesInv /\ WarmInv /\ [Next]_vars => WarmInv'
    BY StepWarm
  <1>2. RangesInv /\ WarmInv => StaysWarm
    BY WarmBound
  <1> QED
    BY <1>1, <1>2, InitWarm, RangesInvariant, PTL DEF SafeSpec
=============================================================================
