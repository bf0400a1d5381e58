-------------------------- MODULE ReverseDNSProofs --------------------------
(***************************************************************************)
(* Theorems about ReverseDNS, for any requests, addresses, names, lifetime *)
(* and size of the cache, and timeout, and about the Trim it shares with   *)
(* the rate limiter.                                                       *)
(***************************************************************************)
EXTENDS ReverseDNS, FiniteSetTheorems, WellFoundedInduction, TLAPS

-----------------------------------------------------------------------------
(* What lru.Trim does to a map of any size; the limiter's goes by it too.   *)

\* A set of times has a first one.
LEMMA FirstTime ==
  ASSUME NEW T, T \subseteq Nat, T # {}
  PROVE  \E first \in T : \A time \in T : first <= time
  <1>1. PICK first \in T : \A time \in T : ~(<<time, first>> \in OpToRel(<, Nat))
    BY NatLessThanWellFounded, WFMin
  <1>2. ASSUME NEW time \in T PROVE first <= time
    <2>1. <<time, first>> \in Nat \X Nat
      OBVIOUS
    <2>2. ~(time < first)
      BY <1>1, <2>1 DEF OpToRel
    <2> QED
      BY <2>2
  <1> QED
    BY <1>2

\* Trim leaves no more than it is asked to, of a map of any size, and changes no
\* entry that stays.
THEOREM TrimBounds ==
  ASSUME NEW map, IsFiniteSet(DOMAIN map), \A k \in DOMAIN map : map[k].lastAccess \in Nat,
         NEW maxEntries \in Nat
  PROVE  /\ DOMAIN Trim(map, maxEntries) \subseteq DOMAIN map
         /\ IsFiniteSet(DOMAIN Trim(map, maxEntries))
         /\ Cardinality(DOMAIN Trim(map, maxEntries)) <= maxEntries
         /\ \A k \in DOMAIN Trim(map, maxEntries) : Trim(map, maxEntries)[k] = map[k]
  <1> DEFINE n == Cardinality(DOMAIN map)
             headroom == maxEntries \div HeadroomDivisor
             surplus == n - (maxEntries - headroom)
             Older(k) == {j \in DOMAIN map : map[j].lastAccess < map[k].lastAccess}
             kept == {k \in DOMAIN map : Cardinality(Older(k)) >= surplus}
  <1>1. /\ DOMAIN Trim(map, maxEntries) = kept
        /\ \A k \in kept : Trim(map, maxEntries)[k] = map[k]
    BY DEF Trim, Restrict
  <1>2. n \in Nat /\ headroom \in Nat
    BY FS_CardinalityType, HeadroomAssumption
  <1>3. kept \subseteq DOMAIN map /\ IsFiniteSet(kept) /\ Cardinality(kept) \in Nat
    BY FS_Subset, FS_CardinalityType
  <1>4. Cardinality(kept) <= maxEntries
    <2>1. CASE kept = {}
      <3>1. Cardinality({}) = 0
        BY FS_EmptySet
      <3> HIDE DEF kept
      <3> QED
        BY <2>1, <3>1
    <2>2. CASE kept # {}
      <3>1. PICK first \in {map[k].lastAccess : k \in kept} :
              \A time \in {map[k].lastAccess : k \in kept} : first <= time
        BY <2>2, FirstTime
      <3>2. PICK oldest \in kept : map[oldest].lastAccess = first
        BY <3>1
      <3>3. ASSUME NEW k \in kept PROVE k \notin Older(oldest)
        <4>1. map[oldest].lastAccess <= map[k].lastAccess
          BY <3>1, <3>2
        <4>2. map[oldest].lastAccess \in Nat /\ map[k].lastAccess \in Nat
          BY <1>3
        <4> HIDE DEF kept
        <4> QED
          BY <4>1, <4>2
      <3>4. /\ Older(oldest) \subseteq DOMAIN map /\ IsFiniteSet(Older(oldest))
            /\ Cardinality(Older(oldest)) \in Nat
        BY FS_Subset, FS_CardinalityType
      <3>5. kept \cap Older(oldest) = {} /\ Cardinality(Older(oldest)) >= surplus
        BY <3>2, <3>3
      <3> HIDE DEF kept, Older, n
      <3>6. Cardinality(kept \cup Older(oldest)) = Cardinality(kept) + Cardinality(Older(oldest))
        <4>1. Cardinality(kept \cap Older(oldest)) = 0
          BY <3>5, FS_EmptySet
        <4>2. Cardinality(kept \cup Older(oldest)) =
                Cardinality(kept) + Cardinality(Older(oldest)) - Cardinality(kept \cap Older(oldest))
          BY <1>3, <3>4, FS_Union
        <4> QED
          BY <1>3, <3>4, <4>1, <4>2
      <3>7. Cardinality(kept \cup Older(oldest)) <= n
        <4>1. kept \cup Older(oldest) \in SUBSET DOMAIN map
          BY <1>3, <3>4
        <4> QED
          BY <4>1, FS_Subset DEF n
      <3> HIDE DEF headroom
      <3> QED
        BY <1>2, <1>3, <3>4, <3>5, <3>6, <3>7
    <2> QED
      BY <2>1, <2>2
  <1> QED
    BY <1>1, <1>3, <1>4

\* What Trim drops was used before everything that it keeps.
THEOREM TrimDropsOldest ==
  ASSUME NEW map, IsFiniteSet(DOMAIN map), \A k \in DOMAIN map : map[k].lastAccess \in Nat,
         NEW maxEntries \in Nat,
         NEW kept \in DOMAIN Trim(map, maxEntries),
         NEW dropped \in DOMAIN map \ DOMAIN Trim(map, maxEntries)
  PROVE  map[dropped].lastAccess < map[kept].lastAccess
  <1> DEFINE surplus == Cardinality(DOMAIN map) - (maxEntries - maxEntries \div HeadroomDivisor)
             Older(k) == {j \in DOMAIN map : map[j].lastAccess < map[k].lastAccess}
  <1>1. /\ kept \in DOMAIN map /\ Cardinality(Older(kept)) >= surplus
        /\ ~(Cardinality(Older(dropped)) >= surplus)
    BY DEF Trim, Restrict
  <1>2. /\ IsFiniteSet(Older(kept)) /\ IsFiniteSet(Older(dropped))
        /\ Cardinality(Older(kept)) \in Nat /\ Cardinality(Older(dropped)) \in Nat
    BY FS_Subset, FS_CardinalityType
  <1>3. surplus \in Int
    BY FS_CardinalityType, HeadroomAssumption
  <1> SUFFICES ASSUME map[kept].lastAccess <= map[dropped].lastAccess PROVE FALSE
    BY <1>1
  <1>4. Older(kept) \in SUBSET Older(dropped)
    BY <1>1
  <1> HIDE DEF Older, surplus
  <1>5. Cardinality(Older(kept)) <= Cardinality(Older(dropped))
    BY <1>2, <1>4, FS_Subset
  <1> QED
    BY <1>1, <1>2, <1>3, <1>5

-----------------------------------------------------------------------------
(* The invariant                                                           *)

\* What a lookup that has ended says of the DNS.
Sound(res) ==
  /\ 0 < res.ptr /\ res.ptr <= now
  /\ IF res.verified THEN res.ptr <= res.forward ELSE res.untried = 0

\* An entry was put there before its lookup's leader had waited for too long.
Fresh(k, entry) ==
  /\ Sound(entry.result) /\ entry.result.ip = k
  /\ entry.expiresAt <= entry.result.ptr + VerifyTimeout + CacheTTL

Answered(r) ==
  pc[r] = "done" =>
    /\ Sound(answer[r]) /\ answer[r].ip = ip[r]
    /\ t[r] <= answer[r].ptr + VerifyTimeout + CacheTTL

\* The lookup that a request leads, or the one it shares, which was there when it
\* came.
Looking(r) ==
  /\ pc[r] \in {"idle", "get", "join", "ptr", "forward"} => ~result[r].verified
  /\ pc[r] \in {"ptr", "forward"} => result[r].ip = ip[r]
  /\ pc[r] = "forward" => /\ 0 < result[r].ptr /\ result[r].ptr <= now
                          /\ t[r] <= result[r].ptr /\ 0 < result[r].untried
  /\ pc[r] = "wait" => /\ leader[r] \in Requests /\ pc[leader[r]] \in {"ptr", "forward"}
                       /\ ip[leader[r]] = ip[r] /\ t[leader[r]] <= t[r]

Timely(r) ==
  /\ t[r] <= now
  /\ pc[r] # "idle" => ip[r] \in IPs
  /\ pc[r] \in {"get", "join"} => t[r] = now
  /\ pc[r] \in {"ptr", "forward", "wait"} => now <= t[r] + VerifyTimeout

Cached ==
  /\ IsFiniteSet(DOMAIN items) /\ DOMAIN items \subseteq IPs
  /\ Cardinality(DOMAIN items) <= MaxResults
  /\ \A k \in DOMAIN items : items[k] \in Entries /\ Fresh(k, items[k])

RequestTypes ==
  /\ pc \in [Requests -> {"idle", "get", "join", "ptr", "forward", "wait", "failed", "done"}]
  /\ ip \in [Requests -> IPs \cup {None}]
  /\ t \in [Requests -> Times]
  /\ leader \in [Requests -> Requests \cup {None}]
  /\ result \in [Requests -> Results]
  /\ answer \in [Requests -> Results]

Moment == now \in Times /\ 0 < now

DNSInv ==
  /\ Moment /\ Cached /\ RequestTypes
  /\ \A r \in Requests : Timely(r) /\ Looking(r) /\ Answered(r)

LEMMA TimesAreNaturals ==
  /\ MaxTime \in Nat \ {0} /\ VerifyTimeout \in Nat \ {0} /\ MaxNames \in Nat \ {0}
  /\ MaxResults \in Nat \ {0} /\ CacheTTL \in Nat
  /\ Times \subseteq Nat /\ 0 \in Times /\ 1 \in Times
  /\ 0..MaxNames \subseteq Nat /\ MaxNames \in 0..MaxNames
  BY BoundsAssumption, VerifierAssumption DEF Times

LEMMA InitInv == Init => DNSInv
  <1> SUFFICES ASSUME Init PROVE DNSInv
    OBVIOUS
  <1> USE TimesAreNaturals
  <1>1. Moment
    BY DEF Init, Moment
  <1>2. Cached
    BY FS_EmptySet DEF Init, Cached
  <1>3. NoResult \in Results /\ ~NoResult.verified
    BY DEF NoResult, Results
  <1>4. RequestTypes
    BY <1>3 DEF Init, RequestTypes
  <1>5. ASSUME NEW r \in Requests PROVE Timely(r) /\ Looking(r) /\ Answered(r)
    BY <1>3 DEF Init, Timely, Looking, Answered
  <1> QED
    BY <1>1, <1>2, <1>4, <1>5 DEF DNSInv

-----------------------------------------------------------------------------
(* The cache                                                               *)

LEMMA GetKeeps ==
  ASSUME DNSInv, NEW r \in Requests, Get(r)
  PROVE  DNSInv'
  <1> USE TimesAreNaturals
  <1> DEFINE k == ip[r]
  <1>1. /\ Moment /\ Cached /\ RequestTypes
        /\ \A q \in Requests : Timely(q) /\ Looking(q) /\ Answered(q)
    BY DEF DNSInv
  <1>2. pc[r] = "get" /\ UNCHANGED <<now, ip, t, leader, result>>
    BY DEF Get
  <1>3. Moment'
    BY <1>1, <1>2 DEF Moment
  <1>4. CASE /\ k \in DOMAIN items /\ ~Expired(k)
             /\ answer' = [answer EXCEPT ![r] = items[k].result]
             /\ items' = [items EXCEPT ![k].lastAccess = now]
             /\ Goto(r, "done")
    <2>1. items[k] \in Entries /\ items[k].result \in Results /\ Fresh(k, items[k])
          /\ now <= items[k].expiresAt
      BY <1>1, <1>4 DEF Cached, Entries, Expired, Moment
    <2>2. /\ DOMAIN items' = DOMAIN items /\ \A j \in DOMAIN items \ {k} : items'[j] = items[j]
          /\ items'[k] = [items[k] EXCEPT !.lastAccess = now]
      BY <1>4
    <2>3. items'[k] \in Entries /\ Fresh(k, items'[k])
      BY <1>1, <2>1, <2>2 DEF Entries, Fresh, Moment
    <2>4. Cached'
      <3>1. /\ IsFiniteSet(DOMAIN items') /\ DOMAIN items' \subseteq IPs
            /\ Cardinality(DOMAIN items') <= MaxResults
        <4>1. /\ IsFiniteSet(DOMAIN items) /\ DOMAIN items \subseteq IPs
              /\ Cardinality(DOMAIN items) <= MaxResults
          BY <1>1 DEF Cached
        <4>2. DOMAIN items' = DOMAIN items
          BY <2>2
        <4> QED
          BY <4>1, <4>2
      <3>2. ASSUME NEW j \in DOMAIN items' PROVE (items[j] \in Entries /\ Fresh(j, items[j]))'
        <4>1. CASE j = k
          BY <1>2, <2>3, <4>1 DEF Fresh, Sound
        <4>2. CASE j # k
          <5>1. j \in DOMAIN items /\ items'[j] = items[j]
            BY <2>2, <4>2
          <5>2. items[j] \in Entries /\ Fresh(j, items[j])
            BY <1>1, <5>1 DEF Cached
          <5> QED
            BY <1>2, <5>1, <5>2 DEF Fresh, Sound
        <4> QED
          BY <4>1, <4>2
      <3> QED
        BY <3>1, <3>2 DEF Cached
    <2>5. RequestTypes'
      BY <1>1, <1>2, <1>4, <2>1 DEF RequestTypes, Goto
    <2>6. /\ pc'[r] = "done" /\ answer'[r] = items[k].result
          /\ \A q \in Requests \ {r} : pc'[q] = pc[q] /\ answer'[q] = answer[q]
      BY <1>1, <1>4 DEF RequestTypes, Goto
    <2>7. Answered(r)'
      <3>1. t[r] = now
        BY <1>1, <1>2 DEF Timely
      <3>2. /\ Sound(items[k].result) /\ items[k].result.ip = k
            /\ items[k].expiresAt <= items[k].result.ptr + VerifyTimeout + CacheTTL
        BY <2>1 DEF Fresh
      <3>3. items[k].expiresAt \in Nat /\ items[k].result.ptr \in Nat /\ now \in Nat
        <4>1. items[k].expiresAt \in 0..(MaxTime + CacheTTL)
          BY <2>1 DEF Entries
        <4>2. items[k].result.ptr \in Times /\ now \in Times
          BY <1>1, <2>1 DEF Results, Moment
        <4>3. items[k].expiresAt \in Nat
          BY <4>1
        <4> QED
          BY <4>2, <4>3
      <3>4. t[r] <= items[k].result.ptr + VerifyTimeout + CacheTTL
        BY <2>1, <3>1, <3>2, <3>3
      <3> QED
        BY <1>2, <2>6, <3>2, <3>4 DEF Answered, Sound
    <2>8. ASSUME NEW q \in Requests PROVE Timely(q)' /\ Looking(q)' /\ (q # r => Answered(q)')
      BY <1>1, <1>2, <2>6 DEF Timely, Looking, Answered, Sound
    <2> QED
      BY <1>3, <2>4, <2>5, <2>7, <2>8 DEF DNSInv
  <1>5. CASE /\ items' = Restrict(items, DOMAIN items \ {k})
             /\ Goto(r, "join")
             /\ UNCHANGED answer
    <2>1. DOMAIN items' = DOMAIN items \ {k} /\ \A j \in DOMAIN items' : items'[j] = items[j]
      BY <1>5 DEF Restrict
    <2>2. /\ IsFiniteSet(DOMAIN items') /\ Cardinality(DOMAIN items') <= Cardinality(DOMAIN items)
          /\ Cardinality(DOMAIN items') \in Nat /\ Cardinality(DOMAIN items) \in Nat
      BY <1>1, <2>1, FS_Subset, FS_CardinalityType DEF Cached
    <2>3. Cached'
      BY <1>1, <1>2, <2>1, <2>2 DEF Cached, Fresh, Sound
    <2>4. RequestTypes'
      BY <1>1, <1>2, <1>5 DEF RequestTypes, Goto
    <2>5. pc'[r] = "join" /\ \A q \in Requests \ {r} : pc'[q] = pc[q]
      BY <1>1, <1>5 DEF RequestTypes, Goto
    <2>6. ASSUME NEW q \in Requests PROVE Timely(q)' /\ Looking(q)' /\ Answered(q)'
      BY <1>1, <1>2, <1>5, <2>5 DEF Timely, Looking, Answered, Sound
    <2> QED
      BY <1>3, <2>3, <2>4, <2>6 DEF DNSInv
  <1> QED
    BY <1>4, <1>5 DEF Get

\* What evict leaves of a cache.
LEMMA EvictedBounds ==
  ASSUME Moment, NEW cache, IsFiniteSet(DOMAIN cache), \A k \in DOMAIN cache : cache[k] \in Entries
  PROVE  /\ DOMAIN Evicted(cache) \subseteq DOMAIN cache
         /\ IsFiniteSet(DOMAIN Evicted(cache)) /\ Cardinality(DOMAIN Evicted(cache)) <= MaxResults
         /\ \A k \in DOMAIN Evicted(cache) : Evicted(cache)[k] = cache[k]
  <1> USE TimesAreNaturals
  <1> DEFINE live == Restrict(cache, {k \in DOMAIN cache : now <= cache[k].expiresAt})
  <1>1. DOMAIN live \subseteq DOMAIN cache /\ \A k \in DOMAIN live : live[k] = cache[k]
    BY DEF Restrict
  <1>2. IsFiniteSet(DOMAIN live)
    BY <1>1, FS_Subset
  <1>3. \A k \in DOMAIN live : live[k].lastAccess \in Nat
    BY <1>1 DEF Entries
  <1> HIDE DEF live
  <1>4. /\ DOMAIN Trim(live, MaxResults) \subseteq DOMAIN live
        /\ IsFiniteSet(DOMAIN Trim(live, MaxResults))
        /\ Cardinality(DOMAIN Trim(live, MaxResults)) <= MaxResults
        /\ \A k \in DOMAIN Trim(live, MaxResults) : Trim(live, MaxResults)[k] = live[k]
    BY <1>2, <1>3, TrimBounds
  <1>5. Evicted(cache) = IF Cardinality(DOMAIN cache) <= MaxResults THEN cache ELSE Trim(live, MaxResults)
    BY DEF Evicted, live
  <1> QED
    BY <1>1, <1>4, <1>5

\* A result that a lookup led by l has come to, in time.
Timed(l, res) ==
  /\ res \in Results /\ Sound(res) /\ res.ip = ip[l] /\ ip[l] \in IPs
  /\ now <= t[l] + VerifyTimeout /\ t[l] <= res.ptr

LEMMA StoredKeeps ==
  ASSUME Moment, Cached, RequestTypes, NEW l \in Requests, NEW res, Timed(l, res),
         items' = Stored(ip[l], res), now' = now
  PROVE  Cached'
  <1> USE TimesAreNaturals
  <1> DEFINE entry == [result |-> res, expiresAt |-> now + CacheTTL, lastAccess |-> now]
             cache == [j \in DOMAIN items \cup {ip[l]} |-> IF j = ip[l] THEN entry ELSE items[j]]
  <1>1. items' = Evicted(cache)
    BY DEF Stored
  <1>2. entry \in Entries
    BY DEF Moment, Timed, Entries, Times
  <1>3. Fresh(ip[l], entry)
    <2>1. now + CacheTTL <= res.ptr + VerifyTimeout + CacheTTL
      <3>1. now \in Nat /\ t[l] \in Nat /\ res.ptr \in Nat
        BY DEF Moment, RequestTypes, Timed, Results
      <3> QED
        BY <3>1 DEF Timed
    <2> QED
      BY <2>1 DEF Fresh, Timed
  <1>4. /\ DOMAIN cache = DOMAIN items \cup {ip[l]}
        /\ \A k \in DOMAIN cache : cache[k] \in Entries /\ Fresh(k, cache[k])
    BY <1>2, <1>3 DEF Cached
  <1>5. IsFiniteSet(DOMAIN cache)
    BY <1>4, FS_AddElement DEF Cached
  <1>6. DOMAIN cache \subseteq IPs
    BY <1>4 DEF Cached, Timed
  <1> HIDE DEF cache
  <1>7. /\ DOMAIN items' \subseteq DOMAIN cache
        /\ IsFiniteSet(DOMAIN items') /\ Cardinality(DOMAIN items') <= MaxResults
        /\ \A k \in DOMAIN items' : items'[k] = cache[k]
    BY <1>1, <1>4, <1>5, EvictedBounds
  <1> QED
    BY <1>4, <1>6, <1>7 DEF Cached, Fresh, Sound

-----------------------------------------------------------------------------
(* Lookups                                                                 *)

LEMMA EnterKeeps ==
  ASSUME DNSInv, NEW r \in Requests, NEW k \in IPs, Enter(r, k)
  PROVE  DNSInv'
  <1> USE TimesAreNaturals
  <1>1. /\ Moment /\ Cached /\ RequestTypes
        /\ \A q \in Requests : Timely(q) /\ Looking(q) /\ Answered(q)
    BY DEF DNSInv
  <1>2. /\ pc[r] = "idle" /\ ip' = [ip EXCEPT ![r] = k] /\ t' = [t EXCEPT ![r] = now]
        /\ Goto(r, "get") /\ UNCHANGED <<now, items, leader, result, answer>>
    BY DEF Enter
  <1>3. Moment' /\ Cached'
    BY <1>1, <1>2 DEF Moment, Cached, Fresh, Sound
  <1>4. RequestTypes'
    BY <1>1, <1>2 DEF RequestTypes, Goto, Moment
  <1>5. /\ pc'[r] = "get" /\ ip'[r] = k /\ t'[r] = now
        /\ \A q \in Requests \ {r} : pc'[q] = pc[q] /\ ip'[q] = ip[q] /\ t'[q] = t[q]
    BY <1>1, <1>2 DEF RequestTypes, Goto
  <1>6. now \in Nat /\ now <= now
    BY <1>1 DEF Moment
  <1>7. ASSUME NEW q \in Requests PROVE Timely(q)' /\ Answered(q)'
    BY <1>1, <1>2, <1>5, <1>6 DEF Timely, Answered, Sound
  <1>8. ASSUME NEW q \in Requests PROVE Looking(q)'
    BY <1>1, <1>2, <1>5 DEF Looking
  <1> QED
    BY <1>3, <1>4, <1>7, <1>8 DEF DNSInv

LEMMA JoinKeeps ==
  ASSUME DNSInv, NEW r \in Requests, Join(r)
  PROVE  DNSInv'
  <1> USE TimesAreNaturals
  <1>1. /\ Moment /\ Cached /\ RequestTypes
        /\ \A q \in Requests : Timely(q) /\ Looking(q) /\ Answered(q)
    BY DEF DNSInv
  <1>2. pc[r] = "join" /\ UNCHANGED <<now, items, ip, t, answer>>
    BY DEF Join
  <1>3. Moment' /\ Cached'
    BY <1>1, <1>2 DEF Moment, Cached, Fresh, Sound
  <1>4. now \in Nat /\ t[r] = now /\ now <= t[r] + VerifyTimeout
    <2>1. now \in Nat /\ t[r] = now
      BY <1>1, <1>2 DEF Moment, Timely
    <2> QED
      BY <2>1
  <1>5. CASE \E l \in InFlight(ip[r]) :
               leader' = [leader EXCEPT ![r] = l] /\ Goto(r, "wait") /\ UNCHANGED result
    <2>1. PICK l \in InFlight(ip[r]) :
            leader' = [leader EXCEPT ![r] = l] /\ Goto(r, "wait") /\ UNCHANGED result
      BY <1>5
    <2>2. l \in Requests /\ l # r /\ pc[l] \in {"ptr", "forward"} /\ ip[l] = ip[r] /\ t[l] <= t[r]
      BY <1>1, <1>2, <1>4 DEF InFlight, Timely
    <2>3. RequestTypes'
      BY <1>1, <1>2, <2>1, <2>2 DEF RequestTypes, Goto
    <2>4. /\ pc'[r] = "wait" /\ leader'[r] = l /\ result' = result
          /\ \A q \in Requests \ {r} : pc'[q] = pc[q] /\ leader'[q] = leader[q]
      BY <1>1, <2>1 DEF RequestTypes, Goto
    <2>5. ASSUME NEW q \in Requests PROVE Timely(q)' /\ Answered(q)'
      BY <1>1, <1>2, <1>4, <2>4 DEF Timely, Answered, Sound
    <2>6. ASSUME NEW q \in Requests PROVE Looking(q)'
      BY <1>1, <1>2, <2>2, <2>4 DEF Looking
    <2> QED
      BY <1>3, <2>3, <2>5, <2>6 DEF DNSInv
  <1>6. CASE /\ InFlight(ip[r]) = {}
             /\ result' = [result EXCEPT ![r].ip = ip[r]]
             /\ Goto(r, "ptr")
             /\ UNCHANGED leader
    <2>1. result[r] \in Results /\ ip[r] \in IPs
      BY <1>1, <1>2 DEF RequestTypes, Timely
    <2>2. [result[r] EXCEPT !.ip = ip[r]] \in Results
      BY <2>1 DEF Results
    <2>3. /\ pc'[r] = "ptr" /\ result'[r] = [result[r] EXCEPT !.ip = ip[r]]
          /\ \A q \in Requests \ {r} : pc'[q] = pc[q] /\ result'[q] = result[q]
      BY <1>1, <1>6 DEF RequestTypes, Goto
    <2>4. RequestTypes'
      BY <1>1, <1>2, <1>6, <2>2 DEF RequestTypes, Goto
    <2>5. ASSUME NEW q \in Requests PROVE Timely(q)' /\ Answered(q)'
      BY <1>1, <1>2, <1>4, <2>3 DEF Timely, Answered, Sound
    <2>6. result'[r].ip = ip[r] /\ result'[r].verified = result[r].verified
      BY <2>1, <2>3 DEF Results
    <2>7. ASSUME NEW q \in Requests PROVE Looking(q)'
      BY <1>1, <1>2, <1>6, <2>3, <2>6 DEF Looking
    <2> QED
      BY <1>3, <2>4, <2>5, <2>7 DEF DNSInv
  <1> QED
    BY <1>5, <1>6 DEF Join

\* A lookup ends, and everyone who shares it goes the same way.
LEMMA FoundKeeps ==
  ASSUME DNSInv, NEW l \in Requests, pc[l] \in {"ptr", "forward"}, NEW res, Timed(l, res),
         Found(l, res), result' \in [Requests -> Results],
         \A q \in Requests \ {l} : result'[q] = result[q],
         UNCHANGED <<now, ip, t, leader>>
  PROVE  DNSInv'
  <1> USE TimesAreNaturals
  <1>1. /\ Moment /\ Cached /\ RequestTypes
        /\ \A q \in Requests : Timely(q) /\ Looking(q) /\ Answered(q)
    BY DEF DNSInv
  <1>2. Moment'
    BY <1>1 DEF Moment
  <1>3. Cached'
    BY <1>1, StoredKeeps DEF Found
  <1>4. RequestTypes'
    BY <1>1 DEF RequestTypes, Found, Return, Timed
  <1>5. \A q \in Requests :
          /\ q \in Sharers(l) => pc'[q] = "done" /\ answer'[q] = res
          /\ q \notin Sharers(l) => pc'[q] = pc[q] /\ answer'[q] = answer[q]
    BY DEF Found, Return
  <1>6. ASSUME NEW q \in Requests PROVE Timely(q)'
    BY <1>1, <1>5 DEF Timely, Sharers
  <1>7. ASSUME NEW q \in Requests PROVE Looking(q)'
    <2>1. CASE q \in Sharers(l)
      BY <1>5, <2>1 DEF Looking
    <2>2. CASE q \notin Sharers(l)
      <3>1. q # l /\ pc'[q] = pc[q] /\ result'[q] = result[q]
        BY <1>5, <2>2 DEF Sharers
      <3>2. pc[q] = "wait" => leader[q] \in Requests /\ leader[q] \notin Sharers(l)
        BY <1>1, <2>2 DEF Looking, Sharers
      <3> QED
        BY <1>1, <1>5, <3>1, <3>2 DEF Looking
    <2> QED
      BY <2>1, <2>2
  <1>8. ASSUME NEW q \in Requests PROVE Answered(q)'
    <2>1. CASE q \in Sharers(l)
      <3>1. ip[q] = ip[l] /\ t[q] <= now
        BY <1>1, <2>1 DEF Sharers, Looking, Timely
      <3>2. t[q] <= res.ptr + VerifyTimeout + CacheTTL
        <4>1. t[q] \in Nat /\ t[l] \in Nat /\ now \in Nat /\ res.ptr \in Nat
          BY <1>1 DEF RequestTypes, Moment, Timed, Results
        <4> QED
          BY <3>1, <4>1 DEF Timed
      <3> QED
        BY <1>5, <2>1, <3>1, <3>2 DEF Answered, Timed, Sound
    <2>2. CASE q \notin Sharers(l)
      BY <1>1, <1>5, <2>2 DEF Answered, Sound
    <2> QED
      BY <2>1, <2>2
  <1> QED
    BY <1>2, <1>3, <1>4, <1>6, <1>7, <1>8 DEF DNSInv

LEMMA PTRKeeps ==
  ASSUME DNSInv, NEW l \in Requests, PTR(l)
  PROVE  DNSInv'
  <1> USE TimesAreNaturals
  <1>1. /\ Moment /\ Cached /\ RequestTypes
        /\ \A q \in Requests : Timely(q) /\ Looking(q) /\ Answered(q)
    BY DEF DNSInv
  <1>2. pc[l] = "ptr" /\ UNCHANGED <<now, ip, t, leader>>
    BY DEF PTR
  <1>3. PICK n \in 0..MaxNames :
          LET res == [result[l] EXCEPT !.ptr = now, !.untried = n]
          IN /\ result' = [result EXCEPT ![l] = res]
             /\ IF n = 0 THEN Found(l, res)
                         ELSE Goto(l, "forward") /\ UNCHANGED <<items, answer>>
    BY DEF PTR
  <1> DEFINE res == [result[l] EXCEPT !.ptr = now, !.untried = n]
  <1>4. result[l] \in Results /\ ip[l] \in IPs /\ result[l].ip = ip[l] /\ ~result[l].verified
    BY <1>1, <1>2 DEF RequestTypes, Looking, Timely
  <1>5. res \in Results /\ res.ptr = now /\ res.untried = n /\ res.ip = ip[l] /\ ~res.verified
    BY <1>1, <1>4 DEF Results, Moment
  <1>6. /\ result' \in [Requests -> Results] /\ result'[l] = res
        /\ \A q \in Requests \ {l} : result'[q] = result[q]
    BY <1>1, <1>3, <1>5 DEF RequestTypes
  <1>7. t[l] <= now /\ now <= t[l] + VerifyTimeout /\ 0 < now /\ now \in Nat
    BY <1>1, <1>2 DEF Timely, Moment
  <1>8. CASE n = 0
    <2>1. Found(l, res)
      BY <1>3, <1>8
    <2>2. Timed(l, res)
      BY <1>4, <1>5, <1>7, <1>8 DEF Timed, Sound
    <2> HIDE DEF res
    <2> QED
      BY <1>2, <1>6, <2>1, <2>2, FoundKeeps
  <1>9. CASE n # 0
    <2>1. Goto(l, "forward") /\ UNCHANGED <<items, answer>>
      BY <1>3, <1>9
    <2> HIDE DEF res
    <2>2. Moment' /\ Cached'
      BY <1>1, <1>2, <2>1 DEF Moment, Cached, Fresh, Sound
    <2>3. RequestTypes'
      BY <1>1, <1>2, <1>6, <2>1 DEF RequestTypes, Goto
    <2>4. pc'[l] = "forward" /\ \A q \in Requests \ {l} : pc'[q] = pc[q]
      BY <1>1, <2>1 DEF RequestTypes, Goto
    <2>5. ASSUME NEW q \in Requests PROVE Timely(q)' /\ Answered(q)'
      BY <1>1, <1>2, <2>1, <2>4 DEF Timely, Answered, Sound
    <2>6. 0 < n
      BY <1>9
    <2>7. Looking(l)'
      BY <1>2, <1>5, <1>6, <1>7, <2>4, <2>6 DEF Looking
    <2>8. ASSUME NEW q \in Requests \ {l} PROVE Looking(q)'
      BY <1>1, <1>2, <1>6, <2>4 DEF Looking
    <2> QED
      BY <2>2, <2>3, <2>5, <2>7, <2>8 DEF DNSInv
  <1> QED
    BY <1>8, <1>9

LEMMA ForwardKeeps ==
  ASSUME DNSInv, NEW l \in Requests, Forward(l)
  PROVE  DNSInv'
  <1> USE TimesAreNaturals
  <1>1. /\ Moment /\ Cached /\ RequestTypes
        /\ \A q \in Requests : Timely(q) /\ Looking(q) /\ Answered(q)
    BY DEF DNSInv
  <1>2. pc[l] = "forward" /\ UNCHANGED <<now, ip, t, leader>>
    BY DEF Forward
  <1>3. PICK match \in BOOLEAN :
          LET res == [result[l] EXCEPT !.verified = match,
                                       !.forward = IF match THEN now ELSE @,
                                       !.untried = @ - 1]
          IN /\ result' = [result EXCEPT ![l] = res]
             /\ IF res.verified \/ res.untried = 0
                THEN Found(l, res)
                ELSE UNCHANGED <<items, answer, pc>>
    BY DEF Forward
  <1> DEFINE res == [result[l] EXCEPT !.verified = match,
                                      !.forward = IF match THEN now ELSE @,
                                      !.untried = @ - 1]
  <1>4. /\ result[l] \in Results /\ ip[l] \in IPs /\ result[l].ip = ip[l] /\ ~result[l].verified
        /\ 0 < result[l].ptr /\ result[l].ptr <= now /\ t[l] <= result[l].ptr /\ 0 < result[l].untried
    BY <1>1, <1>2 DEF RequestTypes, Looking, Timely
  <1>5. /\ res.verified = match /\ res.ptr = result[l].ptr /\ res.ip = ip[l]
        /\ res.untried = result[l].untried - 1
        /\ res.forward = IF match THEN now ELSE result[l].forward
        /\ res \in Results
    <2>1. result[l].untried - 1 \in 0..MaxNames
      BY <1>4 DEF Results
    <2>2. (IF match THEN now ELSE result[l].forward) \in Times
      BY <1>1, <1>4 DEF Results, Moment
    <2> QED
      BY <1>4, <2>1, <2>2 DEF Results
  <1>6. result' = [result EXCEPT ![l] = res]
    BY <1>3
  <1>7. res.verified \/ res.untried = 0 => Found(l, res)
    BY <1>3
  <1>8. ~(res.verified \/ res.untried = 0) => UNCHANGED <<items, answer, pc>>
    BY <1>3
  <1> HIDE DEF res
  <1>9. /\ result' \in [Requests -> Results] /\ result'[l] = res
        /\ \A q \in Requests \ {l} : result'[q] = result[q]
    BY <1>1, <1>5, <1>6 DEF RequestTypes
  <1>10. now <= t[l] + VerifyTimeout
    BY <1>1, <1>2 DEF Timely
  <1>11. CASE res.verified \/ res.untried = 0
    <2>1. Sound(res)
      BY <1>4, <1>5, <1>11 DEF Sound
    <2>2. Timed(l, res)
      BY <1>4, <1>5, <1>10, <2>1 DEF Timed
    <2> QED
      BY <1>2, <1>7, <1>9, <1>11, <2>2, FoundKeeps
  <1>12. CASE ~(res.verified \/ res.untried = 0)
    <2>1. UNCHANGED <<items, answer, pc>>
      BY <1>8, <1>12
    <2>2. Moment' /\ Cached'
      BY <1>1, <1>2, <2>1 DEF Moment, Cached, Fresh, Sound
    <2>3. RequestTypes'
      BY <1>1, <1>2, <1>9, <2>1 DEF RequestTypes
    <2>4. ASSUME NEW q \in Requests PROVE Timely(q)' /\ Answered(q)'
      BY <1>1, <1>2, <2>1 DEF Timely, Answered, Sound
    <2>5. 0 < res.untried
      <3>1. res.untried \in 0..MaxNames
        BY <1>5 DEF Results
      <3> QED
        BY <1>12, <3>1
    <2>6. Looking(l)'
      BY <1>2, <1>4, <1>5, <1>9, <1>12, <2>1, <2>5 DEF Looking
    <2>7. ASSUME NEW q \in Requests \ {l} PROVE Looking(q)'
      BY <1>1, <1>2, <1>9, <2>1 DEF Looking
    <2> QED
      BY <2>2, <2>3, <2>4, <2>6, <2>7 DEF DNSInv
  <1> QED
    BY <1>11, <1>12

LEMMA LookupFailsKeeps ==
  ASSUME DNSInv, NEW l \in Requests, LookupFails(l)
  PROVE  DNSInv'
  <1>1. /\ Moment /\ Cached /\ RequestTypes
        /\ \A q \in Requests : Timely(q) /\ Looking(q) /\ Answered(q)
    BY DEF DNSInv
  <1>2. /\ pc[l] \in {"ptr", "forward"} /\ Return(l, "failed")
        /\ UNCHANGED <<items, now, ip, t, leader, result, answer>>
    BY DEF LookupFails, AfterError
  <1>3. Moment' /\ Cached'
    BY <1>1, <1>2 DEF Moment, Cached, Fresh, Sound
  <1>4. RequestTypes'
    BY <1>1, <1>2 DEF RequestTypes, Return
  <1>5. \A q \in Requests : /\ q \in Sharers(l) => pc'[q] = "failed"
                            /\ q \notin Sharers(l) => pc'[q] = pc[q]
    BY <1>2 DEF Return
  <1>6. ASSUME NEW q \in Requests PROVE Timely(q)' /\ Answered(q)'
    BY <1>1, <1>2, <1>5 DEF Timely, Answered, Sound, Sharers
  <1>7. ASSUME NEW q \in Requests PROVE Looking(q)'
    <2>1. CASE q \in Sharers(l)
      BY <1>5, <2>1 DEF Looking
    <2>2. CASE q \notin Sharers(l)
      <3>1. pc[q] = "wait" => leader[q] \in Requests /\ leader[q] \notin Sharers(l)
        BY <1>1, <2>2 DEF Looking, Sharers
      <3> QED
        BY <1>1, <1>2, <1>5, <2>2, <3>1 DEF Looking
    <2> QED
      BY <2>1, <2>2
  <1> QED
    BY <1>3, <1>4, <1>6, <1>7 DEF DNSInv

LEMMA TickKeeps ==
  ASSUME DNSInv, Tick
  PROVE  DNSInv'
  <1> USE TimesAreNaturals
  <1>1. /\ Moment /\ Cached /\ RequestTypes
        /\ \A q \in Requests : Timely(q) /\ Looking(q) /\ Answered(q)
    BY DEF DNSInv
  <1>2. /\ now < MaxTime /\ now' = now + 1 /\ now \in Nat
        /\ \A q \in Requests : Waiting(q)
        /\ UNCHANGED <<items, pc, ip, t, leader, result, answer>>
    BY <1>1 DEF Tick, Moment
  <1>3. Moment'
    BY <1>1, <1>2 DEF Moment, Times
  <1>4. \A p \in Nat : p <= now => p <= now'
    BY <1>2
  <1>5. ASSUME NEW res \in Results, Sound(res) PROVE Sound(res)'
    <2>1. res.ptr \in Nat
      BY DEF Results
    <2> QED
      BY <1>4, <1>5, <2>1 DEF Sound
  <1>6. Cached'
    BY <1>1, <1>2, <1>5 DEF Cached, Fresh, Entries
  <1>7. RequestTypes'
    BY <1>1, <1>2 DEF RequestTypes
  <1>8. ASSUME NEW q \in Requests PROVE Answered(q)'
    BY <1>1, <1>2, <1>5 DEF Answered, RequestTypes
  <1>9. ASSUME NEW q \in Requests PROVE Looking(q)'
    <2>1. result[q].ptr \in Nat
      BY <1>1 DEF RequestTypes, Results
    <2> QED
      BY <1>1, <1>2, <1>4, <2>1 DEF Looking
  <1>10. ASSUME NEW q \in Requests PROVE Timely(q)'
    <2>1. t[q] \in Nat /\ Timely(q) /\ Waiting(q)
      BY <1>1, <1>2 DEF RequestTypes
    <2>2. pc[q] \in {"ptr", "forward"} => now' <= t[q] + VerifyTimeout
      BY <1>2, <2>1 DEF Waiting, Deadline
    <2>3. pc[q] = "wait" => now' <= t[q] + VerifyTimeout
      <3> SUFFICES ASSUME pc[q] = "wait" PROVE now' <= t[q] + VerifyTimeout
        OBVIOUS
      <3>1. /\ leader[q] \in Requests /\ pc[leader[q]] \in {"ptr", "forward"}
            /\ t[leader[q]] <= t[q] /\ t[leader[q]] \in Nat
        BY <1>1 DEF Looking, RequestTypes
      <3>2. now < t[leader[q]] + VerifyTimeout
        BY <1>2, <3>1 DEF Waiting, Deadline
      <3> QED
        BY <1>2, <2>1, <3>1, <3>2
    <2>4. pc[q] \notin {"get", "join"}
      BY <2>1 DEF Waiting
    <2> QED
      BY <1>2, <1>4, <2>1, <2>2, <2>3, <2>4 DEF Timely
  <1> QED
    BY <1>3, <1>6, <1>7, <1>8, <1>9, <1>10 DEF DNSInv

-----------------------------------------------------------------------------
(* Theorems                                                                *)

LEMMA StutterKeeps ==
  ASSUME DNSInv, UNCHANGED vars
  PROVE  DNSInv'
  <1>1. UNCHANGED <<now, items, pc, ip, t, leader, result, answer>>
    BY DEF vars
  <1>2. (Moment /\ Cached /\ RequestTypes)'
    BY <1>1 DEF DNSInv, Moment, Cached, Fresh, Sound, RequestTypes
  <1>3. ASSUME NEW q \in Requests PROVE Timely(q)' /\ Looking(q)' /\ Answered(q)'
    BY <1>1 DEF DNSInv, Timely, Looking, Answered, Sound
  <1> QED
    BY <1>2, <1>3 DEF DNSInv

LEMMA StepKeeps ==
  ASSUME DNSInv, [Next]_vars
  PROVE  DNSInv'
  BY EnterKeeps, GetKeeps, JoinKeeps, PTRKeeps, ForwardKeeps, LookupFailsKeeps, TickKeeps,
     StutterKeeps DEF Next, Verify

LEMMA InvTypes == DNSInv => TypeOK
  BY DEF DNSInv, Moment, Cached, RequestTypes, TypeOK

LEMMA InvHonest == DNSInv => HonestAnswer
  BY DEF DNSInv, Answered, Sound, HonestAnswer

LEMMA InvEnds == DNSInv => EndsInTime
  <1> SUFFICES ASSUME DNSInv, NEW r \in Requests, pc[r] \notin {"idle", "failed", "done"}
               PROVE  now <= t[r] + VerifyTimeout
    BY DEF EndsInTime
  <1>1. /\ now \in Nat /\ VerifyTimeout \in Nat /\ Timely(r)
        /\ pc[r] \in {"get", "join", "ptr", "forward", "wait"}
    BY TimesAreNaturals DEF DNSInv, Moment, RequestTypes
  <1>2. CASE pc[r] \in {"get", "join"}
    BY <1>1, <1>2 DEF Timely
  <1>3. CASE pc[r] \in {"ptr", "forward", "wait"}
    BY <1>3, <1>1 DEF Timely
  <1> QED
    BY <1>1, <1>2, <1>3

\* The invariant that the theorems below rest on: what a cached entry says was
\* true not long before it was stored, and a request shares a lookup that was
\* there when it came.
THEOREM ReverseDNSInvariant == Spec => []DNSInv
  BY InitInv, StepKeeps, PTL DEF Spec

\* A request is verified only by a round trip for its own address, not older than
\* the cache's lifetime allows (reverse_dns.go: Verify, lookup).
THEOREM ReverseDNSHonest == Spec => []HonestAnswer
  BY ReverseDNSInvariant, InvHonest, PTL

\* A verification is over when its own deadline has passed, shared or not.
THEOREM ReverseDNSEnds == Spec => []EndsInTime
  BY ReverseDNSInvariant, InvEnds, PTL
=============================================================================
