------------------------- MODULE BoundedMapsProofs -------------------------
(***************************************************************************)
(* Theorems about BoundedMaps, for any bounds of the two maps.  While one  *)
(* is exercised the other rests as it began.                               *)
(***************************************************************************)
EXTENDS BoundedMaps, FiniteSetTheorems, WellFoundedInduction, TLAPS

\* The verifier, with the facts that are proved of it.
VP == INSTANCE ReverseDNSProofs WITH pc <- step

-----------------------------------------------------------------------------
(* The limiter                                                             *)

\* A bucket that a call may take a token from was made for a limit.
Made(c) == c \in Limiter!Calls /\ buckets[c].rpm \in Limiter!Rpms

MapTypes ==
  /\ IsFiniteSet(DOMAIN entries) /\ DOMAIN entries \subseteq Limiter!BucketKeys
  /\ Cardinality(DOMAIN entries) <= MaxBuckets
  /\ \A k \in DOMAIN entries : entries[k] \in Limiter!Entries /\ Made(entries[k].bucket)

CallTypes ==
  /\ buckets \in [Limiter!Calls -> Limiter!Buckets]
  /\ call \in [Limiter!Calls -> {"idle", "found", "allowed", "denied"}]
  /\ asked \in [Limiter!Calls -> Limiter!Asks]
  /\ bucket \in [Limiter!Calls -> Limiter!Calls \cup {Limiter!None}]
  /\ endedAt \in [Limiter!Calls -> 0..MaxTime]
  /\ trimmed \subseteq Limiter!BucketKeys
  /\ \A c \in Limiter!Calls : call[c] = "found" => Made(bucket[c])

LimiterInv == now \in 0..MaxTime /\ 0 < now /\ MapTypes /\ CallTypes

LEMMA LimiterNumbers ==
  /\ MaxTime \in Nat \ {0} /\ Minute \in Nat \ {0} /\ MaxBuckets \in Nat \ {0}
  /\ 0 \in 0..MaxTime /\ 1 \in 0..MaxTime
  /\ \A rpm \in Limiter!Rpms : rpm \in 1..Minute
  BY BoundsAssumption, LimiterAssumption DEF Limiter!Rpms

LEMMA LimiterBegins == Limiter!Init => LimiterInv
  <1> SUFFICES ASSUME Limiter!Init PROVE LimiterInv
    OBVIOUS
  <1> USE LimiterNumbers
  <1>1. Limiter!NoBucket \in Limiter!Buckets
    BY DEF Limiter!NoBucket, Limiter!Buckets
  <1>2. [key |-> Blank, rpm |-> 0, at |-> 0] \in Limiter!Asks
    BY DEF Limiter!Asks
  <1>3. CallTypes
    BY <1>1, <1>2 DEF Limiter!Init, CallTypes
  <1>4. MapTypes
    BY FS_EmptySet DEF Limiter!Init, MapTypes
  <1> QED
    BY <1>3, <1>4 DEF Limiter!Init, LimiterInv

LEMMA SameFinite == ASSUME NEW S PROVE VP!IsFiniteSet(S) <=> IsFiniteSet(S)
  BY DEF VP!IsFiniteSet, IsFiniteSet

LEMMA SameCardinality ==
  ASSUME NEW S
  PROVE  Limiter!Cardinality(S) = Cardinality(S) /\ VP!Cardinality(S) = Cardinality(S)
  BY DEF Limiter!Cardinality, VP!Cardinality, Cardinality, Limiter!IsFiniteSet, VP!IsFiniteSet, IsFiniteSet

\* What evictIdle leaves of the map.
LEMMA LimiterEvicts ==
  ASSUME NEW map, NEW time, IsFiniteSet(DOMAIN map),
         \A k \in DOMAIN map : map[k] \in Limiter!Entries
  PROVE  /\ DOMAIN Limiter!InUse(map, time) \subseteq DOMAIN map
         /\ DOMAIN Limiter!Evicted(map, time) \subseteq DOMAIN map
         /\ IsFiniteSet(DOMAIN Limiter!Evicted(map, time))
         /\ Cardinality(DOMAIN Limiter!Evicted(map, time)) <= MaxBuckets
         /\ \A k \in DOMAIN Limiter!Evicted(map, time) : Limiter!Evicted(map, time)[k] = map[k]
  <1> USE LimiterNumbers
  <1> DEFINE used == Limiter!InUse(map, time)
  <1>1. DOMAIN used \subseteq DOMAIN map /\ \A k \in DOMAIN used : used[k] = map[k]
    BY DEF Limiter!InUse, Limiter!Restrict
  <1>2. IsFiniteSet(DOMAIN used)
    BY <1>1, FS_Subset
  <1>3. \A k \in DOMAIN used : used[k].lastAccess \in Nat
    BY <1>1 DEF Limiter!Entries
  <1> HIDE DEF used
  <1>4. /\ DOMAIN VP!Trim(used, MaxBuckets) \subseteq DOMAIN used
        /\ VP!IsFiniteSet(DOMAIN VP!Trim(used, MaxBuckets))
        /\ VP!Cardinality(DOMAIN VP!Trim(used, MaxBuckets)) <= MaxBuckets
        /\ \A k \in DOMAIN VP!Trim(used, MaxBuckets) : VP!Trim(used, MaxBuckets)[k] = used[k]
    <2>1. VP!IsFiniteSet(DOMAIN used)
      BY <1>2, SameFinite
    <2> QED
      BY <1>3, <2>1, LimiterNumbers, VP!TrimBounds, HeadroomAssumption, BoundsAssumption,
         LimiterAssumption, VerifierAssumption
  <1>5. /\ Limiter!Trim(used, MaxBuckets) = VP!Trim(used, MaxBuckets)
        /\ IsFiniteSet(DOMAIN Limiter!Trim(used, MaxBuckets))
        /\ Cardinality(DOMAIN Limiter!Trim(used, MaxBuckets)) <= MaxBuckets
    <2>1. Limiter!Trim(used, MaxBuckets) = VP!Trim(used, MaxBuckets)
      BY SameCardinality DEF Limiter!Trim, VP!Trim, Limiter!Restrict, VP!Restrict
    <2> QED
      BY <1>4, <2>1, SameFinite, SameCardinality
  <1>6. Limiter!Evicted(map, time) =
          IF Cardinality(DOMAIN map) <= MaxBuckets THEN map ELSE Limiter!Trim(used, MaxBuckets)
    BY SameCardinality DEF Limiter!Evicted, used
  <1> QED
    BY <1>1, <1>4, <1>5, <1>6 DEF used

\* A bucket's level stays between nothing and a full minute.
LEMMA LevelBounds ==
  ASSUME NEW b \in Limiter!Buckets, NEW time \in 0..MaxTime
  PROVE  Limiter!Level(b, time) \in 0..Minute
  <1> USE LimiterNumbers
  <1> DEFINE earned == b.level + (IF time > b.last THEN time - b.last ELSE 0)
  <1>1. b.level \in 0..Minute /\ b.last \in 0..MaxTime
    BY DEF Limiter!Buckets
  <1>2. earned \in Nat
    BY <1>1
  <1> HIDE DEF earned
  <1>3. \E x \in {Minute, earned} : \A y \in {Minute, earned} : x <= y
    BY <1>2
  <1>4. /\ Limiter!Min({Minute, earned}) \in {Minute, earned}
        /\ \A y \in {Minute, earned} : Limiter!Min({Minute, earned}) <= y
    BY <1>3 DEF Limiter!Min
  <1>5. Limiter!Min({Minute, earned}) \in 0..Minute
    BY <1>2, <1>4
  <1> QED
    BY <1>5 DEF Limiter!Level, earned

LEMMA FindKeeps ==
  ASSUME LimiterInv, NEW c \in Limiter!Calls, NEW l \in Limits, NEW time \in 1..now,
         Limiter!Find(c, Limiter!BucketKey(l.key), l.rpm, time)
  PROVE  LimiterInv'
  <1> USE LimiterNumbers
  <1> DEFINE k == Limiter!BucketKey(l.key)
             found == IF k \in DOMAIN entries THEN entries[k].bucket ELSE c
             touched == Limiter!Touched(c, k, time)
             kept == Limiter!Evicted(touched, time)
             Stays(d) == d \in Limiter!Calls /\ buckets'[d].rpm \in Limiter!Rpms
  <1>1. /\ MapTypes /\ CallTypes /\ now \in 0..MaxTime /\ 0 < now
        /\ time \in 0..MaxTime
    BY DEF LimiterInv
  <1>2. l.rpm \in Limiter!Rpms /\ k \in Limiter!BucketKeys
    BY DEF Limiter!Rpms, Limiter!BucketKeys
  <1>3. /\ asked' = [asked EXCEPT ![c] = [key |-> k, rpm |-> l.rpm, at |-> time]]
        /\ bucket' = [bucket EXCEPT ![c] = touched[k].bucket]
        /\ buckets' = IF k \in DOMAIN entries THEN buckets
                      ELSE [buckets EXCEPT ![c] = Limiter!NewBucket(l.rpm)]
        /\ entries' = kept
        /\ trimmed' = IF Limiter!Cardinality(DOMAIN touched) <= MaxBuckets THEN trimmed
                      ELSE trimmed \cup (DOMAIN Limiter!InUse(touched, time) \ DOMAIN kept)
        /\ call' = [call EXCEPT ![c] = "found"]
        /\ now' = now /\ endedAt' = endedAt
    BY DEF Limiter!Find, Limiter!Goto
  <1>4. /\ DOMAIN touched = DOMAIN entries \cup {k}
        /\ touched[k] = [bucket |-> found, lastAccess |-> time]
        /\ \A j \in DOMAIN entries \ {k} : touched[j] = entries[j]
    BY DEF Limiter!Touched, Limiter!Accessed
  <1> HIDE DEF k, touched, kept
  <1>5. Limiter!NewBucket(l.rpm) \in Limiter!Buckets /\ Limiter!NewBucket(l.rpm).rpm = l.rpm
    BY <1>2 DEF Limiter!NewBucket, Limiter!Buckets
  <1>6. /\ buckets' \in [Limiter!Calls -> Limiter!Buckets]
        /\ \A d \in Limiter!Calls : Made(d) => buckets'[d].rpm \in Limiter!Rpms
        /\ k \notin DOMAIN entries => buckets'[c].rpm \in Limiter!Rpms
    BY <1>1, <1>2, <1>3, <1>5 DEF CallTypes, Made
  <1>7. found \in Limiter!Calls /\ buckets'[found].rpm \in Limiter!Rpms
    BY <1>1, <1>6 DEF MapTypes, Made
  <1>8. /\ \A j \in DOMAIN touched : touched[j] \in Limiter!Entries /\ Stays(touched[j].bucket)
        /\ IsFiniteSet(DOMAIN touched) /\ DOMAIN touched \subseteq Limiter!BucketKeys
    <2>1. [bucket |-> found, lastAccess |-> time] \in Limiter!Entries
      BY <1>1, <1>7 DEF Limiter!Entries
    <2>2. \A j \in DOMAIN entries : entries[j] \in Limiter!Entries /\ Stays(entries[j].bucket)
      BY <1>1, <1>6 DEF MapTypes, Made
    <2>3. IsFiniteSet(DOMAIN entries \cup {k})
      BY <1>1, FS_AddElement DEF MapTypes
    <2> QED
      BY <1>1, <1>2, <1>4, <1>7, <2>1, <2>2, <2>3 DEF MapTypes, Made
  <1>9. /\ DOMAIN Limiter!InUse(touched, time) \subseteq DOMAIN touched
        /\ DOMAIN kept \subseteq DOMAIN touched
        /\ IsFiniteSet(DOMAIN kept) /\ Cardinality(DOMAIN kept) <= MaxBuckets
        /\ \A j \in DOMAIN kept : kept[j] = touched[j]
    BY <1>8, LimiterEvicts DEF kept
  <1>10. MapTypes'
    BY <1>3, <1>8, <1>9 DEF MapTypes, Made
  <1>11. trimmed' \subseteq Limiter!BucketKeys
    BY <1>1, <1>3, <1>8, <1>9 DEF CallTypes
  <1>12. asked' \in [Limiter!Calls -> Limiter!Asks]
    <2>1. [key |-> k, rpm |-> l.rpm, at |-> time] \in Limiter!Asks
      BY <1>1, <1>2 DEF Limiter!Asks
    <2> QED
      BY <1>1, <1>3, <2>1 DEF CallTypes
  <1>13. /\ call' \in [Limiter!Calls -> {"idle", "found", "allowed", "denied"}]
         /\ bucket' \in [Limiter!Calls -> Limiter!Calls \cup {Limiter!None}]
    BY <1>1, <1>3, <1>4, <1>7 DEF CallTypes
  <1>14. ASSUME NEW d \in Limiter!Calls, call'[d] = "found" PROVE Made(bucket[d])'
    <2>1. CASE d = c
      BY <1>1, <1>3, <1>4, <1>7, <2>1 DEF CallTypes, Made
    <2>2. CASE d # c
      <3>1. call[d] = "found" /\ bucket'[d] = bucket[d]
        BY <1>1, <1>3, <1>14, <2>2 DEF CallTypes
      <3> QED
        BY <1>1, <1>6, <3>1 DEF CallTypes, Made
    <2> QED
      BY <2>1, <2>2
  <1>15. CallTypes'
    BY <1>1, <1>3, <1>6, <1>11, <1>12, <1>13, <1>14 DEF CallTypes
  <1> QED
    BY <1>1, <1>3, <1>10, <1>15 DEF LimiterInv

LEMMA AllowNKeeps ==
  ASSUME LimiterInv, NEW c \in Limiter!Calls, Limiter!AllowN(c)
  PROVE  LimiterInv'
  <1> USE LimiterNumbers
  <1> DEFINE b == buckets[bucket[c]]
             level == Limiter!Level(b, asked[c].at)
  <1>1. MapTypes /\ CallTypes /\ now \in 0..MaxTime /\ 0 < now
    BY DEF LimiterInv
  <1>2. /\ call[c] = "found"
        /\ \/ /\ level >= Limiter!Interval(b)
              /\ buckets' = [buckets EXCEPT ![bucket[c]] =
                               [@ EXCEPT !.level = level - Limiter!Interval(b), !.last = asked[c].at]]
              /\ endedAt' = [endedAt EXCEPT ![c] = now]
              /\ call' = [call EXCEPT ![c] = "allowed"]
           \/ /\ call' = [call EXCEPT ![c] = "denied"]
              /\ UNCHANGED <<buckets, endedAt>>
        /\ bucket' = [bucket EXCEPT ![c] = Limiter!None]
        /\ UNCHANGED <<now, entries, asked, trimmed>>
    BY DEF Limiter!AllowN, Limiter!Goto
  <1>3. /\ bucket[c] \in Limiter!Calls /\ b \in Limiter!Buckets /\ b.rpm \in Limiter!Rpms
        /\ asked[c].at \in 0..MaxTime
    BY <1>1, <1>2 DEF CallTypes, Made, Limiter!Asks
  <1>4. level \in 0..Minute
    BY <1>3, LevelBounds
  <1>5. Limiter!Interval(b) \in Nat
    <2>1. b.rpm \in 1..Minute
      BY <1>3
    <2> QED
      BY <2>1 DEF Limiter!Interval
  <1> HIDE DEF level
  <1>6. /\ buckets' \in [Limiter!Calls -> Limiter!Buckets]
        /\ endedAt' \in [Limiter!Calls -> 0..MaxTime]
        /\ \A d \in Limiter!Calls : buckets'[d].rpm = buckets[d].rpm
    <2>1. CASE level >= Limiter!Interval(b) /\
               buckets' = [buckets EXCEPT ![bucket[c]] =
                             [@ EXCEPT !.level = level - Limiter!Interval(b), !.last = asked[c].at]]
      <3>1. level - Limiter!Interval(b) \in 0..Minute
        BY <1>4, <1>5, <2>1
      <3>2. [b EXCEPT !.level = level - Limiter!Interval(b), !.last = asked[c].at] \in Limiter!Buckets
        BY <1>3, <3>1 DEF Limiter!Buckets
      <3>3. [b EXCEPT !.level = level - Limiter!Interval(b), !.last = asked[c].at].rpm = b.rpm
        BY <1>3 DEF Limiter!Buckets
      <3> QED
        BY <1>1, <1>2, <1>3, <2>1, <3>2, <3>3 DEF CallTypes
    <2>2. CASE UNCHANGED <<buckets, endedAt>>
      BY <1>1, <2>2 DEF CallTypes
    <2> QED
      BY <1>2, <2>1, <2>2
  <1>7. \A d \in Limiter!Calls : Made(d) => Made(d)'
    BY <1>6 DEF Made
  <1>8. MapTypes'
    BY <1>1, <1>2, <1>7 DEF MapTypes, Made
  <1>9. /\ call' \in [Limiter!Calls -> {"idle", "found", "allowed", "denied"}]
        /\ \A d \in Limiter!Calls : call'[d] = "found" =>
             d # c /\ call[d] = "found" /\ bucket'[d] = bucket[d]
        /\ bucket' \in [Limiter!Calls -> Limiter!Calls \cup {Limiter!None}]
    BY <1>1, <1>2 DEF CallTypes
  <1>10. \A d \in Limiter!Calls : call'[d] = "found" => Made(bucket[d])'
    BY <1>1, <1>7, <1>9 DEF CallTypes, Made
  <1>11. CallTypes'
    BY <1>1, <1>2, <1>6, <1>9, <1>10 DEF CallTypes
  <1> QED
    BY <1>1, <1>2, <1>8, <1>11 DEF LimiterInv

LEMMA LimiterKeeps ==
  ASSUME LimiterInv, Limiter!Next
  PROVE  LimiterInv'
  <1>1. CASE \E c \in Limiter!Calls : Limiter!Allow(c)
    BY <1>1, FindKeeps, AllowNKeeps DEF Limiter!Allow
  <1>2. CASE Limiter!Tick
    <2>1. /\ now' \in 0..MaxTime /\ 0 < now'
          /\ UNCHANGED <<entries, buckets, call, asked, bucket, endedAt, trimmed>>
      BY <1>2, LimiterNumbers DEF Limiter!Tick, LimiterInv
    <2> QED
      BY <2>1 DEF LimiterInv, MapTypes, CallTypes, Made
  <1> QED
    BY <1>1, <1>2 DEF Limiter!Next

-----------------------------------------------------------------------------
(* The verifier                                                            *)

\* It is the one that ReverseDNSProofs is about.
LEMMA SameVerifier ==
  /\ Verifier!Init <=> VP!Init
  /\ Verifier!Next <=> VP!Next
  /\ Verifier!TypeOK <=> VP!TypeOK
  /\ Verifier!HonestAnswer <=> VP!HonestAnswer
  /\ Verifier!EndsInTime <=> VP!EndsInTime
  <1>1. \A S : Verifier!Cardinality(S) = VP!Cardinality(S)
    BY DEF Verifier!Cardinality, VP!Cardinality
  <1>2. Verifier!Init <=> VP!Init
    BY Zenon DEF Verifier!Init, VP!Init, Verifier!Requests, VP!Requests, Verifier!None, VP!None,
      Verifier!NoResult, VP!NoResult
  <1>3. Verifier!TypeOK <=> VP!TypeOK
    BY <1>1, Zenon DEF Verifier!TypeOK, VP!TypeOK, Verifier!Requests, VP!Requests, Verifier!None, VP!None,
      Verifier!Times, VP!Times, Verifier!Results, VP!Results, Verifier!Entries, VP!Entries
  <1>4. (Verifier!HonestAnswer <=> VP!HonestAnswer) /\ (Verifier!EndsInTime <=> VP!EndsInTime)
    BY Zenon DEF Verifier!HonestAnswer, VP!HonestAnswer, Verifier!EndsInTime, VP!EndsInTime,
      Verifier!Requests, VP!Requests
  <1>5. ASSUME NEW k, NEW res PROVE Verifier!Stored(k, res) = VP!Stored(k, res)
    <2>1. ASSUME NEW map, NEW n PROVE Verifier!Trim(map, n) = VP!Trim(map, n)
      BY <1>1, SMT DEF Verifier!Trim, VP!Trim, Verifier!Restrict, VP!Restrict
    <2>2. ASSUME NEW map PROVE Verifier!Evicted(map) = VP!Evicted(map)
      BY <1>1, <2>1, SMT DEF Verifier!Evicted, VP!Evicted, Verifier!Restrict, VP!Restrict
    <2> QED
      BY <2>2, SMT DEF Verifier!Stored, VP!Stored
  <1>6. ASSUME NEW r PROVE Verifier!Verify(r) <=> VP!Verify(r)
    BY <1>5, Zenon DEF Verifier!Verify, VP!Verify, Verifier!Enter, VP!Enter, Verifier!Get, VP!Get,
      Verifier!Join, VP!Join, Verifier!PTR, VP!PTR, Verifier!Forward, VP!Forward,
      Verifier!LookupFails, VP!LookupFails, Verifier!Goto, VP!Goto, Verifier!Expired, VP!Expired,
      Verifier!Restrict, VP!Restrict, Verifier!InFlight, VP!InFlight, Verifier!Sharers, VP!Sharers,
      Verifier!Return, VP!Return, Verifier!Found, VP!Found, Verifier!AfterError, VP!AfterError,
      Verifier!Requests, VP!Requests
  <1>7. Verifier!Tick <=> VP!Tick
    BY Zenon DEF Verifier!Tick, VP!Tick, Verifier!Waiting, VP!Waiting, Verifier!Deadline, VP!Deadline,
      Verifier!Requests, VP!Requests
  <1>8. Verifier!Next <=> VP!Next
    BY <1>6, <1>7, Zenon DEF Verifier!Next, VP!Next, Verifier!Requests, VP!Requests
  <1> QED
    BY <1>2, <1>3, <1>4, <1>8

-----------------------------------------------------------------------------
(* Both                                                                    *)

VerifierRests == items = <<>> /\ VP!RequestTypes /\ \A r \in VP!Requests : step[r] = "idle"

MapsInv ==
  \/ busy = "limiter" /\ LimiterInv /\ VerifierRests
  \/ busy = "verifier" /\ VP!DNSInv /\ MapTypes /\ CallTypes

LEMMA InitMaps == Init => MapsInv
  <1> SUFFICES ASSUME Init PROVE MapsInv
    OBVIOUS
  <1>1. LimiterInv
    BY LimiterBegins DEF Init
  <1>2. VP!Init
    BY SameVerifier DEF Init
  <1>3. VP!DNSInv
    BY <1>2, VP!InitInv, HeadroomAssumption, BoundsAssumption, LimiterAssumption, VerifierAssumption
  <1>4. VerifierRests
    BY <1>2, <1>3 DEF VP!Init, VP!DNSInv, VerifierRests
  <1> QED
    BY <1>1, <1>3, <1>4 DEF Init, MapsInv, LimiterInv

LEMMA MapsKeep ==
  ASSUME MapsInv, [Next]_vars
  PROVE  MapsInv'
  <1>1. CASE busy = "limiter" /\ Limiter!Next /\ UNCHANGED <<busy, verifying>>
    <2>1. LimiterInv' /\ VerifierRests
      BY <1>1, LimiterKeeps DEF MapsInv
    <2>2. VerifierRests'
      BY <1>1, <2>1 DEF VerifierRests, verifying, VP!RequestTypes
    <2> QED
      BY <1>1, <2>1, <2>2 DEF MapsInv
  <1>2. CASE busy = "verifier" /\ Verifier!Next /\ UNCHANGED <<busy, limiting>>
    <2>1. VP!DNSInv /\ MapTypes /\ CallTypes /\ VP!Next
      BY <1>2, SameVerifier DEF MapsInv
    <2>2. VP!DNSInv'
      BY <2>1, VP!StepKeeps, HeadroomAssumption, BoundsAssumption, LimiterAssumption, VerifierAssumption
    <2>3. MapTypes' /\ CallTypes'
      BY <1>2, <2>1 DEF limiting, MapTypes, CallTypes, Made
    <2> QED
      BY <1>2, <2>2, <2>3 DEF MapsInv
  <1>3. CASE UNCHANGED vars
    <2>1. UNCHANGED <<busy, now, limiting, verifying>>
      BY <1>3 DEF vars
    <2>2. LimiterInv => LimiterInv'
      BY <2>1 DEF limiting, LimiterInv, MapTypes, CallTypes, Made
    <2>3. VerifierRests => VerifierRests'
      BY <2>1 DEF VerifierRests, verifying, VP!RequestTypes
    <2>4. VP!DNSInv => VP!DNSInv'
      <3>1. UNCHANGED VP!vars
        BY <2>1 DEF verifying, VP!vars
      <3> QED
        BY <3>1, VP!StepKeeps, HeadroomAssumption, BoundsAssumption, LimiterAssumption, VerifierAssumption
    <2>5. MapTypes /\ CallTypes => MapTypes' /\ CallTypes'
      BY <2>1 DEF limiting, MapTypes, CallTypes, Made
    <2> QED
      BY <2>1, <2>2, <2>3, <2>4, <2>5 DEF MapsInv
  <1> QED
    BY <1>1, <1>2, <1>3 DEF Next

\* The invariant that the theorems below rest on.
THEOREM BoundedMapsInvariant == Spec => []MapsInv
  BY InitMaps, MapsKeep, PTL DEF Spec

\* Neither map ever holds more than its bound, whatever the bounds: the limiter's
\* buckets and the results of a verifier, and their variables keep their types.
THEOREM BoundedMapsTypes == Spec => []TypeOK
  <1>1. MapsInv => TypeOK
    <2> SUFFICES ASSUME MapsInv PROVE TypeOK
      OBVIOUS
    <2>1. MapTypes /\ CallTypes /\ now \in 0..MaxTime
      <3>1. CASE busy = "limiter"
        BY <3>1 DEF MapsInv, LimiterInv
      <3>2. CASE busy = "verifier"
        BY <3>2 DEF MapsInv, VP!DNSInv, VP!Moment, VP!Times
      <3> QED
        BY <3>1, <3>2 DEF MapsInv
    <2>2. Limiter!TypeOK
      BY <2>1, SameCardinality DEF MapTypes, CallTypes, Limiter!TypeOK
    <2>3. VP!TypeOK
      <3>1. CASE busy = "limiter"
        <4>1. VP!Cardinality({}) = 0
          BY FS_EmptySet DEF VP!Cardinality, Cardinality
        <4>2. DOMAIN items = {}
          BY <3>1 DEF MapsInv, VerifierRests
        <4>3. VP!RequestTypes
          BY <3>1 DEF MapsInv, VerifierRests
        <4> QED
          BY <2>1, <4>1, <4>2, <4>3, VerifierAssumption DEF VP!TypeOK, VP!RequestTypes, VP!Times
      <3>2. CASE busy = "verifier"
        BY <3>2, VP!InvTypes, HeadroomAssumption, BoundsAssumption, LimiterAssumption, VerifierAssumption
        DEF MapsInv
      <3> QED
        BY <3>1, <3>2 DEF MapsInv
    <2> QED
      BY <2>2, <2>3, SameVerifier DEF TypeOK
  <1> QED
    BY <1>1, BoundedMapsInvariant, PTL

\* A request is verified only by a round trip for its own address, and whatever it
\* is told was true of the DNS within the cache's lifetime (reverse_dns.go:
\* Verify, lookup), whatever the lifetime, the timeout and the bound of the cache.
THEOREM BoundedMapsHonest == Spec => []HonestAnswer
  <1>1. MapsInv => HonestAnswer
    <2>1. VP!DNSInv => VP!HonestAnswer
      BY VP!InvHonest, HeadroomAssumption, BoundsAssumption, LimiterAssumption, VerifierAssumption
    <2>2. VerifierRests => VP!HonestAnswer
      BY DEF VerifierRests, VP!HonestAnswer
    <2> QED
      BY <2>1, <2>2, SameVerifier DEF MapsInv, HonestAnswer
  <1> QED
    BY <1>1, BoundedMapsInvariant, PTL

\* A verification is over when its own deadline has passed, whether the lookup is
\* its own or shared.
THEOREM BoundedMapsEnd == Spec => []EndsInTime
  <1>1. MapsInv => EndsInTime
    <2>1. VP!DNSInv => VP!EndsInTime
      BY VP!InvEnds, HeadroomAssumption, BoundsAssumption, LimiterAssumption, VerifierAssumption
    <2>2. VerifierRests => VP!EndsInTime
      BY DEF VerifierRests, VP!EndsInTime
    <2> QED
      BY <2>1, <2>2, SameVerifier DEF MapsInv, EndsInTime
  <1> QED
    BY <1>1, BoundedMapsInvariant, PTL

-----------------------------------------------------------------------------
(* Sums over finite sets                                                   *)

\* The element that a fold takes out first, and the function it is computed by.
First(s) == CHOOSE x \in s : TRUE
Folds(F, S, g) ==
  g = [s \in SUBSET S |-> IF s = {} THEN 0 ELSE F[First(s)] + g[s \ {First(s)}]]

LEMMA SumIsFold ==
  ASSUME NEW F, NEW S
  PROVE  Limiter!SumFunctionOnSet(F, S) = (CHOOSE g : Folds(F, S, g))[S]
  BY DEF Limiter!SumFunctionOnSet, Limiter!FoldFunctionOnSet, Limiter!MapThenFoldSet, Folds, First

\* Of some finite sets, one has none of the others in it: what allows of an
\* induction over finite sets without a predicate for a parameter.
LEMMA SmallestSet ==
  ASSUME NEW S, IsFiniteSet(S), NEW Bad, Bad \subseteq SUBSET S, Bad # {}
  PROVE  \E T \in Bad : \A U \in SUBSET T : U # T => U \notin Bad
  <1>1. Bad \subseteq FiniteSubsetsOf(S)
    BY FS_FiniteSubsetsOfFinite
  <1>2. PICK T \in Bad : \A U \in Bad : ~(<<U, T>> \in StrictSubsetOrdering(S))
    BY <1>1, FS_StrictSubsetOrderingWellFounded, WFMin
  <1>3. ASSUME NEW U \in SUBSET T, U # T, U \in Bad PROVE FALSE
    BY <1>2, <1>3 DEF StrictSubsetOrdering
  <1> QED
    BY <1>3

LEMMA FirstIn == ASSUME NEW S, S # {} PROVE First(S) \in S
  BY DEF First

LEMMA FoldValue ==
  ASSUME NEW F, NEW S, NEW g, Folds(F, S, g), NEW s \in SUBSET S
  PROVE  g[s] = IF s = {} THEN 0 ELSE F[First(s)] + g[s \ {First(s)}]
  <1> DEFINE e == [T \in SUBSET S |-> IF T = {} THEN 0 ELSE F[First(T)] + g[T \ {First(T)}]]
  <1>1. g[s] = e[s]
    BY DEF Folds
  <1>2. e[s] = IF s = {} THEN 0 ELSE F[First(s)] + g[s \ {First(s)}]
    OBVIOUS
  <1> HIDE DEF e
  <1> QED
    BY <1>1, <1>2

\* Folds over a set and over a part of it agree.
LEMMA FoldsAgree ==
  ASSUME NEW F, NEW S, IsFiniteSet(S), NEW T \in SUBSET S, NEW g, NEW h, Folds(F, S, g), Folds(F, T, h)
  PROVE  \A s \in SUBSET T : g[s] = h[s]
  <1> DEFINE Bad == {s \in SUBSET T : g[s] # h[s]}
  <1> SUFFICES ASSUME Bad # {} PROVE FALSE
    OBVIOUS
  <1>1. PICK s \in Bad : \A u \in SUBSET s : u # s => u \notin Bad
    <2>1. IsFiniteSet(T) /\ Bad \subseteq SUBSET T
      BY FS_Subset
    <2> HIDE DEF Bad
    <2> QED
      BY <2>1, SmallestSet
  <1>2. s \in SUBSET T /\ s \in SUBSET S /\ g[s] # h[s]
    BY <1>1
  <1>3. /\ g[s] = IF s = {} THEN 0 ELSE F[First(s)] + g[s \ {First(s)}]
        /\ h[s] = IF s = {} THEN 0 ELSE F[First(s)] + h[s \ {First(s)}]
    BY <1>2, FoldValue
  <1>4. s # {}
    BY <1>2, <1>3
  <1>5. s \ {First(s)} \in SUBSET s /\ s \ {First(s)} # s
    BY <1>4, FirstIn
  <1>6. s \ {First(s)} \in SUBSET T
    BY <1>2, <1>5
  <1>7. g[s \ {First(s)}] = h[s \ {First(s)}]
    BY <1>1, <1>5, <1>6
  <1> QED
    BY <1>2, <1>3, <1>7

\* There is a fold over every finite set.
LEMMA FoldExists ==
  ASSUME NEW F, NEW S, IsFiniteSet(S)
  PROVE  \E g : Folds(F, S, g)
  <1> DEFINE Bad == {T \in SUBSET S : ~ \E g : Folds(F, T, g)}
  <1> SUFFICES ASSUME Bad # {} PROVE FALSE
    OBVIOUS
  <1>1. PICK T \in Bad : \A U \in SUBSET T : U # T => U \notin Bad
    <2>1. Bad \subseteq SUBSET S
      OBVIOUS
    <2> HIDE DEF Bad
    <2> QED
      BY <2>1, SmallestSet
  <1> HIDE DEF Bad
  <1>2. T \in SUBSET S /\ ~ \E g : Folds(F, T, g)
    BY <1>1 DEF Bad
  <1>3. \A U \in SUBSET T : U # T => \E g : Folds(F, U, g)
    BY <1>1, <1>2 DEF Bad
  <1> DEFINE G(U) == CHOOSE g : Folds(F, U, g)
             rest == T \ {First(T)}
             h == [s \in SUBSET T |-> IF s # T THEN G(s)[s]
                                      ELSE IF T = {} THEN 0 ELSE F[First(T)] + G(rest)[rest]]
  <1>4. ASSUME NEW U \in SUBSET T, U # T PROVE Folds(F, U, G(U))
    BY <1>3, <1>4
  <1> HIDE DEF G
  <1>5. ASSUME NEW s \in SUBSET T
        PROVE  h[s] = IF s = {} THEN 0 ELSE F[First(s)] + h[s \ {First(s)}]
    <2> DEFINE less == s \ {First(s)}
    <2>1. CASE s = {} /\ s # T
      <3>1. h[s] = G(s)[s]
        BY <2>1
      <3>2. Folds(F, s, G(s))
        BY <1>4, <2>1
      <3>3. G(s)[s] = 0
        BY <2>1, <3>2, FoldValue
      <3> QED
        BY <2>1, <3>1, <3>3
    <2>2. CASE s = {} /\ s = T
      BY <2>2
    <2>3. CASE s # {}
      <3>1. less \in SUBSET T /\ less \in SUBSET s /\ less # s /\ less # T
        BY <2>3, FirstIn
      <3>2. h[less] = G(less)[less] /\ Folds(F, less, G(less))
        BY <1>4, <3>1
      <3> HIDE DEF less, h
      <3>3. CASE s = T
        BY <2>3, <3>2, <3>3 DEF h, less
      <3>4. CASE s # T
        <4>1. h[s] = G(s)[s] /\ Folds(F, s, G(s))
          BY <1>4, <3>4 DEF h
        <4>2. G(s)[s] = F[First(s)] + G(s)[less]
          BY <2>3, <4>1, FoldValue DEF less
        <4>3. IsFiniteSet(s)
          BY <1>2, FS_Subset
        <4>4. G(s)[less] = G(less)[less]
          BY <3>1, <3>2, <4>1, <4>3, FoldsAgree
        <4> QED
          BY <2>3, <3>2, <4>1, <4>2, <4>4 DEF less
      <3> QED
        BY <3>3, <3>4
    <2> QED
      BY <2>1, <2>2, <2>3
  <1>6. Folds(F, T, h)
    <2>1. h = [s \in SUBSET T |-> h[s]]
      OBVIOUS
    <2> HIDE DEF h
    <2> QED
      BY <1>5, <2>1, Zenon DEF Folds
  <1> QED
    BY <1>2, <1>6

LEMMA SumValue ==
  ASSUME NEW F, NEW S, IsFiniteSet(S)
  PROVE  Limiter!SumFunctionOnSet(F, S) =
           IF S = {} THEN 0 ELSE F[First(S)] + Limiter!SumFunctionOnSet(F, S \ {First(S)})
  <1> DEFINE G(T) == CHOOSE g : Folds(F, T, g)
             rest == S \ {First(S)}
  <1>1. IsFiniteSet(rest) /\ rest \in SUBSET S
    BY FS_Subset
  <1>2. Folds(F, S, G(S)) /\ Folds(F, rest, G(rest))
    BY <1>1, FoldExists
  <1>3. /\ Limiter!SumFunctionOnSet(F, S) = G(S)[S]
        /\ Limiter!SumFunctionOnSet(F, rest) = G(rest)[rest]
    BY SumIsFold
  <1> HIDE DEF G
  <1>4. G(S)[S] = IF S = {} THEN 0 ELSE F[First(S)] + G(S)[rest]
    BY <1>2, FoldValue
  <1>5. G(S)[rest] = G(rest)[rest]
    BY <1>1, <1>2, FoldsAgree
  <1> QED
    BY <1>3, <1>4, <1>5

\* A sum is over the values that a function has on the set.
LEMMA SumOfSame ==
  ASSUME NEW F, NEW H, NEW S, IsFiniteSet(S), \A x \in S : F[x] = H[x]
  PROVE  Limiter!SumFunctionOnSet(F, S) = Limiter!SumFunctionOnSet(H, S)
  <1> DEFINE Bad == {T \in SUBSET S : Limiter!SumFunctionOnSet(F, T) # Limiter!SumFunctionOnSet(H, T)}
  <1> SUFFICES ASSUME Bad # {} PROVE FALSE
    OBVIOUS
  <1>1. Bad \subseteq SUBSET S
    OBVIOUS
  <1> HIDE DEF Bad
  <1>2. PICK T \in Bad : \A U \in SUBSET T : U # T => U \notin Bad
    BY <1>1, SmallestSet
  <1> DEFINE rest == T \ {First(T)}
  <1>3. T \in SUBSET S /\ IsFiniteSet(T)
    BY <1>1, FS_Subset
  <1>4. /\ Limiter!SumFunctionOnSet(F, T) = IF T = {} THEN 0 ELSE F[First(T)] + Limiter!SumFunctionOnSet(F, rest)
        /\ Limiter!SumFunctionOnSet(H, T) = IF T = {} THEN 0 ELSE H[First(T)] + Limiter!SumFunctionOnSet(H, rest)
    BY <1>3, SumValue
  <1>5. T # {}
    BY <1>2, <1>4 DEF Bad
  <1>6. First(T) \in T
    BY <1>5, FirstIn
  <1>7. F[First(T)] = H[First(T)]
    BY <1>3, <1>6
  <1>8. rest \in SUBSET T /\ rest # T /\ rest \in SUBSET S
    BY <1>3, <1>6
  <1> HIDE DEF rest
  <1>9. Limiter!SumFunctionOnSet(F, rest) = Limiter!SumFunctionOnSet(H, rest)
    BY <1>2, <1>8 DEF Bad
  <1> QED
    BY <1>2, <1>4, <1>5, <1>7, <1>9 DEF Bad

LEMMA SumNat ==
  ASSUME NEW F, NEW S, IsFiniteSet(S), \A x \in S : F[x] \in Nat
  PROVE  Limiter!SumFunctionOnSet(F, S) \in Nat
  <1> DEFINE Bad == {T \in SUBSET S : Limiter!SumFunctionOnSet(F, T) \notin Nat}
  <1> SUFFICES ASSUME Bad # {} PROVE FALSE
    OBVIOUS
  <1>1. Bad \subseteq SUBSET S
    OBVIOUS
  <1> HIDE DEF Bad
  <1>2. PICK T \in Bad : \A U \in SUBSET T : U # T => U \notin Bad
    BY <1>1, SmallestSet
  <1> DEFINE rest == T \ {First(T)}
  <1>3. T \in SUBSET S /\ IsFiniteSet(T)
    BY <1>1, FS_Subset
  <1>4. Limiter!SumFunctionOnSet(F, T) = IF T = {} THEN 0 ELSE F[First(T)] + Limiter!SumFunctionOnSet(F, rest)
    BY <1>3, SumValue
  <1>5. T # {}
    BY <1>2, <1>4 DEF Bad
  <1>6. First(T) \in T
    BY <1>5, FirstIn
  <1>7. F[First(T)] \in Nat
    BY <1>3, <1>6
  <1>8. rest \in SUBSET T /\ rest # T /\ rest \in SUBSET S
    BY <1>3, <1>6
  <1> HIDE DEF rest
  <1>9. Limiter!SumFunctionOnSet(F, rest) \in Nat
    BY <1>2, <1>8 DEF Bad
  <1>10. Limiter!SumFunctionOnSet(F, T) \in Nat
    BY <1>4, <1>5, <1>7, <1>9
  <1> QED
    BY <1>2, <1>10 DEF Bad

\* It does not matter which element is taken out.
LEMMA SumWithout ==
  ASSUME NEW F, NEW S, IsFiniteSet(S), \A x \in S : F[x] \in Nat, NEW e \in S
  PROVE  Limiter!SumFunctionOnSet(F, S) = F[e] + Limiter!SumFunctionOnSet(F, S \ {e})
  <1> DEFINE Sum(T) == Limiter!SumFunctionOnSet(F, T)
             Bad == {T \in SUBSET S : \E x \in T : Sum(T) # F[x] + Sum(T \ {x})}
  <1>1. ASSUME NEW T \in SUBSET S PROVE IsFiniteSet(T) /\ Sum(T) \in Nat
    <2>1. IsFiniteSet(T)
      BY FS_Subset
    <2> QED
      BY <2>1, SumNat
  <1>2. ASSUME NEW T \in SUBSET S, T # {} PROVE Sum(T) = F[First(T)] + Sum(T \ {First(T)})
    BY <1>1, <1>2, SumValue
  <1>3. S \in Bad \/ Sum(S) = F[e] + Sum(S \ {e})
    BY FS_Subset
  <1>4. Bad \subseteq SUBSET S
    OBVIOUS
  <1> HIDE DEF Sum
  <1> SUFFICES ASSUME Bad # {} PROVE FALSE
    BY <1>3 DEF Sum
  <1> HIDE DEF Bad
  <1>5. PICK T \in Bad : \A U \in SUBSET T : U # T => U \notin Bad
    BY <1>4, SmallestSet
  <1>6. T \in SUBSET S
    BY <1>4, <1>5
  <1>7. PICK x \in T : Sum(T) # F[x] + Sum(T \ {x})
    BY <1>5 DEF Bad
  <1> DEFINE c == First(T)
  <1>8. c \in T /\ Sum(T) = F[c] + Sum(T \ {c})
    BY <1>2, <1>6, <1>7, FirstIn
  <1> HIDE DEF c
  <1>9. c # x
    BY <1>7, <1>8
  <1>10. /\ T \ {c} \in SUBSET S /\ T \ {x} \in SUBSET S /\ T \ {c} \in SUBSET T /\ T \ {x} \in SUBSET T
         /\ T \ {c} # T /\ T \ {x} # T /\ x \in T \ {c} /\ c \in T \ {x}
    BY <1>6, <1>7, <1>8, <1>9
  <1>11. Sum(T \ {c}) = F[x] + Sum((T \ {c}) \ {x}) /\ Sum(T \ {x}) = F[c] + Sum((T \ {x}) \ {c})
    BY <1>5, <1>10 DEF Bad
  <1>12. (T \ {c}) \ {x} = (T \ {x}) \ {c} /\ (T \ {c}) \ {x} \in SUBSET S
    BY <1>6
  <1>13. F[x] \in Nat /\ F[c] \in Nat /\ Sum((T \ {c}) \ {x}) \in Nat
    BY <1>1, <1>6, <1>7, <1>8, <1>12
  <1> QED
    BY <1>7, <1>8, <1>11, <1>12, <1>13

LEMMA SumWith ==
  ASSUME NEW F, NEW S, IsFiniteSet(S), NEW e, e \notin S, \A x \in S \cup {e} : F[x] \in Nat
  PROVE  Limiter!SumFunctionOnSet(F, S \cup {e}) = F[e] + Limiter!SumFunctionOnSet(F, S)
  <1>1. IsFiniteSet(S \cup {e}) /\ e \in S \cup {e}
    BY FS_AddElement
  <1>2. Limiter!SumFunctionOnSet(F, S \cup {e}) = F[e] + Limiter!SumFunctionOnSet(F, (S \cup {e}) \ {e})
    BY <1>1, SumWithout
  <1>3. (S \cup {e}) \ {e} = S
    OBVIOUS
  <1> QED
    BY <1>2, <1>3

-----------------------------------------------------------------------------
(* What a bucket holds                                                     *)

\* What a bucket holds for a call whose clock is `time'.
LEMMA LevelIs ==
  ASSUME NEW b \in Limiter!Buckets, NEW time \in 0..MaxTime
  PROVE  LET earned == b.level + (IF time > b.last THEN time - b.last ELSE 0)
         IN  Limiter!Level(b, time) = IF earned < Minute THEN earned ELSE Minute
  <1> USE LimiterNumbers
  <1> DEFINE earned == b.level + (IF time > b.last THEN time - b.last ELSE 0)
  <1>1. b.level \in 0..Minute /\ b.last \in 0..MaxTime
    BY DEF Limiter!Buckets
  <1>2. earned \in Nat
    BY <1>1
  <1> HIDE DEF earned
  <1>3. \E x \in {Minute, earned} : \A y \in {Minute, earned} : x <= y
    BY <1>2
  <1>4. /\ Limiter!Min({Minute, earned}) \in {Minute, earned}
        /\ \A y \in {Minute, earned} : Limiter!Min({Minute, earned}) <= y
    BY <1>3 DEF Limiter!Min
  <1>5. Limiter!Min({Minute, earned}) = IF earned < Minute THEN earned ELSE Minute
    BY <1>2, <1>4
  <1> QED
    BY <1>5 DEF Limiter!Level, earned

\* While time passes a bucket earns no more than that time.
LEMMA LevelTicks ==
  ASSUME NEW b \in Limiter!Buckets, NEW time \in 0..MaxTime, time + 1 \in 0..MaxTime
  PROVE  Limiter!Level(b, time + 1) <= Limiter!Level(b, time) + 1
  <1>1. b.level \in Nat /\ b.last \in Nat
    BY DEF Limiter!Buckets
  <1> QED
    BY <1>1, LevelIs, LimiterNumbers

\* A bucket whose clock is a minute behind is full.
LEMMA LevelFull ==
  ASSUME NEW b \in Limiter!Buckets, NEW time \in 0..MaxTime, b.last + Minute <= time
  PROVE  Limiter!Level(b, time) = Minute
  <1>1. b.level \in Nat /\ b.last \in Nat
    BY DEF Limiter!Buckets
  <1> QED
    BY <1>1, LevelIs, LimiterNumbers

\* A token taken by a call that is late is paid for by the bucket, and by the
\* call's delay, which the bucket may earn a second time.
LEMMA LevelTaken ==
  ASSUME NEW b \in Limiter!Buckets, NEW time \in 0..MaxTime, NEW at \in 0..MaxTime, at <= time,
         NEW cost \in Nat, cost <= Limiter!Level(b, at),
         NEW left \in Limiter!Buckets, left.level = Limiter!Level(b, at) - cost, left.last = at
  PROVE  Limiter!Level(left, time) + cost <= Limiter!Level(b, time) + (time - at)
  <1>1. b.level \in Nat /\ b.last \in Nat
    BY DEF Limiter!Buckets
  <1>2. Limiter!Level(b, at) \in Nat /\ Limiter!Level(b, at) <= Limiter!Level(b, time)
    BY <1>1, LevelIs, LimiterNumbers
  <1>3. Limiter!Level(left, time) <= left.level + (time - at)
    BY <1>1, <1>2, LevelIs, LimiterNumbers
  <1> QED
    <2>1. Limiter!Level(left, time) \in Nat /\ Limiter!Level(b, time) \in Nat
      BY LevelBounds, LimiterNumbers
    <2> QED
      BY <1>2, <1>3, <2>1

LEMMA Divided ==
  ASSUME NEW n \in Nat \ {0}, NEW m \in Nat \ {0}, n % m = 0
  PROVE  n = m * (n \div m) /\ n \div m \in Nat \ {0} /\ n \div m <= n
  <1> DEFINE q == n \div m
  <1>1. n = m * q /\ q \in Nat
    <2>1. n = m * (n \div m)
      BY Z3
    <2>2. n \div m \in Nat
      OBVIOUS
    <2> QED
      BY <2>1, <2>2
  <1> HIDE DEF q
  <1>2. q # 0
    BY <1>1
  <1>3. q <= m * q
    BY <1>1, <1>2
  <1> QED
    BY <1>1, <1>2, <1>3 DEF q

\* The tokens of a minute cost a minute.
LEMMA IntervalIs ==
  ASSUME NEW b \in Limiter!Buckets, b.rpm \in Limiter!Rpms
  PROVE  /\ Limiter!Interval(b) \in 1..Minute
         /\ b.rpm * Limiter!Interval(b) = Minute
  <1>1. b.rpm \in Nat \ {0} /\ Minute % b.rpm = 0 /\ Minute \in Nat \ {0}
    BY LimiterAssumption DEF Limiter!Rpms
  <1>2. /\ Minute = b.rpm * (Minute \div b.rpm) /\ Minute \div b.rpm \in Nat \ {0}
        /\ Minute \div b.rpm <= Minute
    BY <1>1, Divided
  <1> QED
    BY <1>1, <1>2 DEF Limiter!Interval

-----------------------------------------------------------------------------
(* The ledger of a key                                                     *)

\* What calls were late by, those for a key that were allowed from one time to
\* another, what they spent, and what they had to spend under a limit of one token
\* a minute.
Delay == [c \in Limiter!Calls |-> endedAt[c] - asked[c].at]
Between(k, from, to) == {c \in Limiter!Allowed(k) : from <= endedAt[c] /\ endedAt[c] <= to}
Spent(k, from, to) == Cardinality(Between(k, from, to)) * Minute
Budget(k, from, to) == Minute + (to - from) + Limiter!SumFunctionOnSet(Delay, Between(k, from, to))

\* What a key has left: a key that is not in the map would get a full bucket.
Left(k) == IF k \in DOMAIN entries THEN Limiter!Level(buckets[entries[k].bucket], now) ELSE Minute

LimitedBy(k, rpm) == \A c \in Limiter!CallsFor(k) : asked[c].rpm <= rpm

\* No stretch of time spends more than its budget; one that lasts until now leaves
\* room for what the key has left.
Paid(k) ==
  \A rpm \in Nat : LimitedBy(k, rpm) =>
    \A from, to \in 0..now : from <= to =>
      Spent(k, from, to) + rpm * (IF to = now THEN Left(k) ELSE 0) <= rpm * Budget(k, from, to)

\* A bucket was made by a call for the key it serves.
MadeFor(b, k) ==
  b \in Limiter!Calls /\ call[b] # "idle" /\ asked[b].key = k /\ asked[b].rpm = buckets[b].rpm

Held(k) ==
  k \in DOMAIN entries =>
    /\ MadeFor(entries[k].bucket, k)
    /\ buckets[entries[k].bucket].last <= entries[k].lastAccess + MaxDelay
    /\ \A c \in Limiter!CallsFor(k) : asked[c].at <= entries[k].lastAccess + MaxDelay

\* A call on its way has the bucket that its key has, unless that was let go: the
\* call is then more than a minute late.
Current(k, b) == k \in DOMAIN entries /\ entries[k].bucket = b
Flying(c) ==
  call[c] = "found" =>
    /\ asked[c].key \in Limiter!BucketKeys /\ MadeFor(bucket[c], asked[c].key)
    /\ asked[c].key \in trimmed \/ Current(asked[c].key, bucket[c]) \/ asked[c].at + Minute < now

Clocks(c) ==
  /\ call[c] = "idle" => asked[c] = [key |-> Blank, rpm |-> 0, at |-> 0]
  /\ asked[c].at <= now /\ buckets[c].last <= now
  /\ call[c] = "allowed" => asked[c].at <= endedAt[c] /\ endedAt[c] <= now

RateInv ==
  /\ LimiterInv
  /\ \A c \in Limiter!Calls : Flying(c) /\ Clocks(c)
  /\ \A k \in Limiter!BucketKeys : Held(k)
  /\ \A k \in Limiter!BucketKeys \ trimmed : Paid(k)

LEMMA LimiterTimes ==
  /\ MaxDelay \in Nat /\ EntryTTL \in Nat /\ Minute + MaxDelay <= EntryTTL
  /\ MaxCalls \in Nat /\ IsFiniteSet(Limiter!Calls)
  <1>1. MaxCalls \in Nat
    BY BoundsAssumption
  <1>2. IsFiniteSet(Limiter!Calls)
    BY <1>1, FS_Interval DEF Limiter!Calls
  <1> QED
    BY <1>1, <1>2, LimiterAssumption

\* The variables, as the arithmetic needs them.
LEMMA CallNumbers ==
  ASSUME LimiterInv, NEW c \in Limiter!Calls
  PROVE  /\ endedAt[c] \in 0..MaxTime /\ asked[c].at \in 0..MaxTime /\ asked[c].rpm \in Nat
         /\ buckets[c] \in Limiter!Buckets /\ buckets[c].last \in 0..MaxTime /\ buckets[c].rpm \in Nat
  <1>1. CallTypes /\ asked[c] \in Limiter!Asks /\ buckets[c] \in Limiter!Buckets
    BY DEF LimiterInv, CallTypes
  <1>2. \A rpm \in Limiter!Rpms \cup {0} : rpm \in Nat
    BY LimiterNumbers
  <1> QED
    BY <1>1, <1>2 DEF CallTypes, Limiter!Asks, Limiter!Buckets

LEMMA AllowedFinite ==
  ASSUME LimiterInv, \A c \in Limiter!Calls : Clocks(c), NEW k, NEW from, NEW to
  PROVE  /\ Between(k, from, to) \subseteq Limiter!Calls /\ IsFiniteSet(Between(k, from, to))
         /\ Cardinality(Between(k, from, to)) \in Nat
         /\ \A c \in Between(k, from, to) : Delay[c] \in Nat
         /\ Limiter!SumFunctionOnSet(Delay, Between(k, from, to)) \in Nat
  <1>1. Between(k, from, to) \subseteq Limiter!Calls
    BY DEF Between, Limiter!Allowed, Limiter!CallsFor
  <1>2. IsFiniteSet(Between(k, from, to)) /\ Cardinality(Between(k, from, to)) \in Nat
    BY <1>1, LimiterTimes, FS_Subset, FS_CardinalityType
  <1>3. ASSUME NEW c \in Between(k, from, to) PROVE Delay[c] \in Nat
    <2>1. c \in Limiter!Calls /\ call[c] = "allowed"
      BY DEF Between, Limiter!Allowed, Limiter!CallsFor
    <2>2. Clocks(c)
      BY <2>1
    <2>3. asked[c].at <= endedAt[c]
      BY <2>1, <2>2 DEF Clocks
    <2>4. asked[c].at \in Nat /\ endedAt[c] \in Nat
      BY <2>1, CallNumbers
    <2>5. Delay[c] = endedAt[c] - asked[c].at
      BY <2>1 DEF Delay
    <2> QED
      BY <2>3, <2>4, <2>5
  <1> QED
    BY <1>1, <1>2, <1>3, SumNat

LEMMA LeftBounds ==
  ASSUME LimiterInv, NEW k
  PROVE  Left(k) \in 0..Minute
  <1>1. CASE k \in DOMAIN entries
    <2>1. buckets[entries[k].bucket] \in Limiter!Buckets /\ now \in 0..MaxTime
      BY <1>1 DEF LimiterInv, MapTypes, CallTypes, Made
    <2> QED
      BY <1>1, <2>1, LevelBounds DEF Left
  <1>2. CASE k \notin DOMAIN entries
    BY <1>2, LimiterNumbers DEF Left
  <1> QED
    BY <1>1, <1>2

\* Calls that were allowed are not allowed otherwise.
LEMMA SameLedger ==
  ASSUME LimiterInv, \A c \in Limiter!Calls : Clocks(c), NEW k, NEW from, NEW to,
         Between(k, from, to)' = Between(k, from, to),
         \A c \in Between(k, from, to) : Delay'[c] = Delay[c]
  PROVE  Spent(k, from, to)' = Spent(k, from, to) /\ Budget(k, from, to)' = Budget(k, from, to)
  <1>1. IsFiniteSet(Between(k, from, to))
    BY AllowedFinite
  <1>2. Limiter!SumFunctionOnSet(Delay', Between(k, from, to)) =
          Limiter!SumFunctionOnSet(Delay, Between(k, from, to))
    BY <1>1, SumOfSame
  <1>3. Budget(k, from, to)' = Minute + (to - from) + Limiter!SumFunctionOnSet(Delay', Between(k, from, to)')
    BY DEF Budget
  <1> QED
    BY <1>2, <1>3 DEF Spent, Budget

LEMMA SamePaid ==
  ASSUME LimiterInv, \A c \in Limiter!Calls : Clocks(c), NEW k, Paid(k), now' = now,
         Limiter!Allowed(k)' = Limiter!Allowed(k),
         \A c \in Limiter!Allowed(k) : endedAt'[c] = endedAt[c] /\ asked'[c].at = asked[c].at,
         \A rpm \in Nat : LimitedBy(k, rpm)' => LimitedBy(k, rpm),
         Left(k)' = Left(k)
  PROVE  Paid(k)'
  <1>1. ASSUME NEW from, NEW to
        PROVE  Spent(k, from, to)' = Spent(k, from, to) /\ Budget(k, from, to)' = Budget(k, from, to)
    <2>1. Between(k, from, to)' = Between(k, from, to)
      BY DEF Between
    <2>2. ASSUME NEW c \in Between(k, from, to) PROVE Delay'[c] = Delay[c]
      BY DEF Between, Limiter!Allowed, Limiter!CallsFor, Delay
    <2> QED
      BY <2>1, <2>2, SameLedger
  <1> SUFFICES ASSUME NEW rpm \in Nat, LimitedBy(k, rpm)', NEW from \in 0..now, NEW to \in 0..now, from <= to
               PROVE  Spent(k, from, to)' + rpm * (IF to = now THEN Left(k)' ELSE 0)
                        <= rpm * Budget(k, from, to)'
    BY DEF Paid
  <1>2. LimitedBy(k, rpm)
    OBVIOUS
  <1>3. Spent(k, from, to) + rpm * (IF to = now THEN Left(k) ELSE 0) <= rpm * Budget(k, from, to)
    BY <1>2 DEF Paid
  <1> QED
    BY <1>1, <1>3

-----------------------------------------------------------------------------
(* A call finds its bucket                                                 *)

\* What a call that finds its bucket does to the map: a key that goes without
\* being trimmed was idle.
LEMMA FindDoes ==
  ASSUME LimiterInv, NEW c \in Limiter!Calls, NEW k \in Limiter!BucketKeys, NEW rpm \in Limiter!Rpms,
         NEW time \in 1..now, Limiter!Find(c, k, rpm, time),
         NEW found, found = IF k \in DOMAIN entries THEN entries[k].bucket ELSE c
  PROVE  /\ call[c] = "idle" /\ UNCHANGED <<now, endedAt>>
         /\ asked' = [asked EXCEPT ![c] = [key |-> k, rpm |-> rpm, at |-> time]]
         /\ call' = [call EXCEPT ![c] = "found"]
         /\ bucket' = [bucket EXCEPT ![c] = found]
         /\ k \in DOMAIN entries' => entries'[k] = [bucket |-> found, lastAccess |-> time]
         /\ buckets' = IF k \in DOMAIN entries THEN buckets
                       ELSE [buckets EXCEPT ![c] = Limiter!NewBucket(rpm)]
         /\ DOMAIN entries' \subseteq DOMAIN entries \cup {k}
         /\ \A j \in DOMAIN entries' : j # k => entries'[j] = entries[j]
         /\ trimmed \subseteq trimmed'
         /\ k \in DOMAIN entries' \cup trimmed'
         /\ \A j \in DOMAIN entries \ {k} :
              j \in DOMAIN entries' \cup trimmed' \/ entries[j].lastAccess + EntryTTL < time
  <1> USE LimiterNumbers, LimiterTimes
  <1> DEFINE touched == Limiter!Touched(c, k, time)
             kept == Limiter!Evicted(touched, time)
             used == Limiter!InUse(touched, time)
  <1>1. /\ call[c] = "idle" /\ UNCHANGED <<now, endedAt>>
        /\ asked' = [asked EXCEPT ![c] = [key |-> k, rpm |-> rpm, at |-> time]]
        /\ bucket' = [bucket EXCEPT ![c] = touched[k].bucket]
        /\ buckets' = IF k \in DOMAIN entries THEN buckets
                      ELSE [buckets EXCEPT ![c] = Limiter!NewBucket(rpm)]
        /\ entries' = kept
        /\ trimmed' = IF Cardinality(DOMAIN touched) <= MaxBuckets THEN trimmed
                      ELSE trimmed \cup (DOMAIN used \ DOMAIN kept)
        /\ call' = [call EXCEPT ![c] = "found"]
    BY SameCardinality DEF Limiter!Find, Limiter!Goto
  <1>2. /\ DOMAIN touched = DOMAIN entries \cup {k}
        /\ touched[k] = [bucket |-> found, lastAccess |-> time]
        /\ \A j \in DOMAIN entries \ {k} : touched[j] = entries[j]
    BY DEF Limiter!Touched, Limiter!Accessed
  <1>3. /\ MapTypes /\ CallTypes /\ now \in 0..MaxTime
        /\ time \in 0..MaxTime
    BY DEF LimiterInv
  <1>4. found \in Limiter!Calls
    BY <1>3 DEF MapTypes, Made
  <1>5. \A j \in DOMAIN entries : entries[j] \in Limiter!Entries
    BY <1>3 DEF MapTypes
  <1>6. [bucket |-> found, lastAccess |-> time] \in Limiter!Entries
    BY <1>3, <1>4 DEF Limiter!Entries
  <1>7. DOMAIN used = {j \in DOMAIN touched : time <= touched[j].lastAccess + EntryTTL}
    BY DEF Limiter!InUse, Limiter!Restrict
  <1> HIDE DEF touched, kept, used
  <1>8. IsFiniteSet(DOMAIN touched) /\ \A j \in DOMAIN touched : touched[j] \in Limiter!Entries
    <2>1. IsFiniteSet(DOMAIN entries)
      BY <1>3 DEF MapTypes
    <2>2. IsFiniteSet(DOMAIN entries \cup {k})
      BY <2>1, FS_AddElement
    <2> QED
      BY <1>2, <1>5, <1>6, <2>2
  <1>9. DOMAIN kept \subseteq DOMAIN touched /\ \A j \in DOMAIN kept : kept[j] = touched[j]
    BY <1>8, LimiterEvicts DEF kept
  <1>10. Cardinality(DOMAIN touched) <= MaxBuckets => kept = touched
    BY SameCardinality DEF Limiter!Evicted, kept
  <1>11. ASSUME NEW j \in DOMAIN touched, j \notin DOMAIN kept, j \notin trimmed'
         PROVE  touched[j].lastAccess + EntryTTL < time
    <2>1. ~(Cardinality(DOMAIN touched) <= MaxBuckets)
      BY <1>10, <1>11
    <2>2. j \notin DOMAIN used
      BY <1>1, <1>11, <2>1
    <2>3. touched[j].lastAccess \in Nat /\ time \in Nat
      BY <1>3, <1>8 DEF Limiter!Entries
    <2> QED
      BY <1>7, <2>2, <2>3
  <1>12. k \in DOMAIN entries' \cup trimmed'
    <2> SUFFICES ASSUME k \notin DOMAIN entries', k \notin trimmed' PROVE FALSE
      OBVIOUS
    <2>1. touched[k].lastAccess + EntryTTL < time
      BY <1>1, <1>2, <1>11
    <2>2. touched[k].lastAccess = time
      BY <1>2
    <2>3. time \in Nat
      BY <1>3
    <2> QED
      BY <2>1, <2>2, <2>3
  <1>13. \A j \in DOMAIN entries \ {k} :
           j \in DOMAIN entries' \cup trimmed' \/ entries[j].lastAccess + EntryTTL < time
    BY <1>1, <1>2, <1>11
  <1>14. /\ bucket' = [bucket EXCEPT ![c] = found]
         /\ k \in DOMAIN entries' => entries'[k] = [bucket |-> found, lastAccess |-> time]
    BY <1>1, <1>2, <1>9
  <1>15. trimmed \subseteq trimmed'
    BY <1>1
  <1>16. DOMAIN entries' \subseteq DOMAIN entries \cup {k}
         /\ \A j \in DOMAIN entries' : j # k => entries'[j] = entries[j]
    BY <1>1, <1>2, <1>9
  <1> QED
    BY <1>1, <1>12, <1>13, <1>14, <1>15, <1>16

\* A key that nobody has asked for within a minute is full, in the map or not.
LEMMA IdleIsFull ==
  ASSUME RateInv, NEW k \in Limiter!BucketKeys, k \in DOMAIN entries,
         NEW time \in 1..now, entries[k].lastAccess + EntryTTL < time
  PROVE  /\ Left(k) = Minute
         /\ \A c \in Limiter!CallsFor(k) : asked[c].at + Minute < now
  <1> USE LimiterNumbers, LimiterTimes
  <1> DEFINE b == buckets[entries[k].bucket]
  <1>1. LimiterInv /\ Held(k) /\ MapTypes /\ CallTypes /\ now \in 0..MaxTime
    BY DEF RateInv, LimiterInv
  <1>2. entries[k].lastAccess \in Nat /\ b \in Limiter!Buckets /\ b.last \in Nat
    BY <1>1 DEF MapTypes, CallTypes, Made, Limiter!Entries, Limiter!Buckets
  <1>3. entries[k].lastAccess + MaxDelay + Minute < now /\ now \in Nat
    BY <1>1, <1>2
  <1>4. Limiter!Level(b, now) = Minute
    <2>1. b.last <= entries[k].lastAccess + MaxDelay
      BY <1>1 DEF Held
    <2>2. b.last + Minute <= now
      BY <1>2, <1>3, <2>1
    <2> QED
      BY <1>1, <1>2, <2>2, LevelFull
  <1>5. ASSUME NEW c \in Limiter!CallsFor(k) PROVE asked[c].at + Minute < now
    <2>1. asked[c].at <= entries[k].lastAccess + MaxDelay
      BY <1>1 DEF Held
    <2>2. asked[c].at \in Nat
      BY <1>1, CallNumbers DEF Limiter!CallsFor
    <2> QED
      BY <1>2, <1>3, <2>1, <2>2
  <1> QED
    BY <1>4, <1>5 DEF Left

LEMMA FindPays ==
  ASSUME RateInv, NEW c \in Limiter!Calls, NEW l \in Limits, NEW time \in 1..now, now <= time + MaxDelay,
         Limiter!Find(c, Limiter!BucketKey(l.key), l.rpm, time)
  PROVE  RateInv'
  <1> USE LimiterNumbers, LimiterTimes
  <1> PICK k, found : /\ k = Limiter!BucketKey(l.key)
                      /\ found = IF k \in DOMAIN entries THEN entries[k].bucket ELSE c
    OBVIOUS
  <1>1. /\ LimiterInv /\ CallTypes /\ now \in 0..MaxTime /\ time \in 0..MaxTime
        /\ \A d \in Limiter!Calls : Flying(d) /\ Clocks(d)
        /\ \A j \in Limiter!BucketKeys : Held(j)
        /\ \A j \in Limiter!BucketKeys \ trimmed : Paid(j)
    BY DEF RateInv, LimiterInv
  <1>2. l.rpm \in Limiter!Rpms /\ k \in Limiter!BucketKeys
    BY DEF Limiter!Rpms, Limiter!BucketKeys
  <1>3. LimiterInv'
    BY <1>1, FindKeeps
  <1>4. /\ call[c] = "idle" /\ UNCHANGED <<now, endedAt>>
        /\ asked' = [asked EXCEPT ![c] = [key |-> k, rpm |-> l.rpm, at |-> time]]
        /\ call' = [call EXCEPT ![c] = "found"]
        /\ bucket' = [bucket EXCEPT ![c] = found]
        /\ k \in DOMAIN entries' => entries'[k] = [bucket |-> found, lastAccess |-> time]
        /\ buckets' = IF k \in DOMAIN entries THEN buckets
                      ELSE [buckets EXCEPT ![c] = Limiter!NewBucket(l.rpm)]
        /\ DOMAIN entries' \subseteq DOMAIN entries \cup {k}
        /\ \A j \in DOMAIN entries' : j # k => entries'[j] = entries[j]
        /\ trimmed \subseteq trimmed'
        /\ k \in DOMAIN entries' \cup trimmed'
        /\ \A j \in DOMAIN entries \ {k} :
             j \in DOMAIN entries' \cup trimmed' \/ entries[j].lastAccess + EntryTTL < time
    BY <1>1, <1>2, FindDoes
  <1>5. /\ asked'[c] = [key |-> k, rpm |-> l.rpm, at |-> time] /\ call'[c] = "found" /\ bucket'[c] = found
        /\ \A d \in Limiter!Calls \ {c} :
             asked'[d] = asked[d] /\ call'[d] = call[d] /\ bucket'[d] = bucket[d] /\ buckets'[d] = buckets[d]
    BY <1>1, <1>4 DEF CallTypes
  <1>6. ASSUME NEW b, NEW j, MadeFor(b, j) PROVE MadeFor(b, j)' /\ b # c /\ buckets'[b] = buckets[b]
    BY <1>4, <1>5, <1>6 DEF MadeFor
  <1>7. k \in DOMAIN entries => MadeFor(found, k)
    BY <1>1, <1>2 DEF Held
  <1>8. k \notin DOMAIN entries => found = c /\ buckets'[c] = Limiter!NewBucket(l.rpm)
    BY <1>1, <1>4 DEF CallTypes
  <1>9. Limiter!NewBucket(l.rpm) = [rpm |-> l.rpm, level |-> Minute, last |-> 0]
    BY DEF Limiter!NewBucket
  <1>10. MadeFor(found, k)'
    <2>1. CASE k \in DOMAIN entries
      BY <1>6, <1>7, <2>1
    <2>2. CASE k \notin DOMAIN entries
      BY <1>5, <1>8, <1>9, <2>2 DEF MadeFor
    <2> QED
      BY <2>1, <2>2
  <1>11. \A d \in Limiter!Calls : buckets'[d].last <= now /\ asked'[d].at <= now
    <2>1. \A d \in Limiter!Calls : buckets[d].last <= now /\ asked[d].at <= now
      BY <1>1 DEF Clocks
    <2>2. buckets'[c] = buckets[c] \/ buckets'[c].last = 0
      BY <1>1, <1>4, <1>8, <1>9
    <2>3. 0 <= now /\ time <= now
      BY <1>1
    <2> QED
      BY <1>5, <2>1, <2>2, <2>3
  <1>12. ASSUME NEW d \in Limiter!Calls PROVE Clocks(d)'
    <2>1. Clocks(d)
      BY <1>1
    <2>2. CASE d = c
      BY <1>4, <1>5, <1>11, <2>2 DEF Clocks
    <2>3. CASE d # c
      BY <1>4, <1>5, <1>11, <2>1, <2>3 DEF Clocks
    <2> QED
      BY <2>2, <2>3
  <1>13. ASSUME NEW j \in Limiter!BucketKeys, j # k, NEW d \in Limiter!CallsFor(j)'
         PROVE  d \in Limiter!CallsFor(j) /\ asked'[d] = asked[d]
    BY <1>5, <1>13 DEF Limiter!CallsFor
  <1>14. ASSUME NEW j \in Limiter!BucketKeys PROVE Held(j)'
    <2> SUFFICES ASSUME j \in DOMAIN entries'
                 PROVE  /\ MadeFor(entries[j].bucket, j)'
                        /\ buckets'[entries'[j].bucket].last <= entries'[j].lastAccess + MaxDelay
                        /\ \A d \in Limiter!CallsFor(j)' : asked'[d].at <= entries'[j].lastAccess + MaxDelay
      BY DEF Held
    <2>1. CASE j = k
      <3>1. entries'[j].bucket = found /\ entries'[j].lastAccess = time
        BY <1>4, <2>1
      <3>2. MadeFor(entries[j].bucket, j)'
        BY <1>10, <2>1, <3>1 DEF MadeFor
      <3>3. found \in Limiter!Calls
        BY <1>10 DEF MadeFor
      <3>4. buckets'[found].last <= now /\ \A d \in Limiter!CallsFor(j)' : asked'[d].at <= now
        BY <1>11, <3>3 DEF Limiter!CallsFor
      <3>5. now \in Nat /\ time + MaxDelay \in Nat
        BY <1>1
      <3>6. buckets'[found].last \in Nat
        <4>1. buckets'[found] \in Limiter!Buckets
          BY <1>3, <3>3 DEF LimiterInv, CallTypes
        <4> QED
          BY <4>1 DEF Limiter!Buckets
      <3>7. ASSUME NEW d \in Limiter!CallsFor(j)' PROVE asked'[d].at \in Nat
        <4>1. asked'[d] \in Limiter!Asks
          BY <1>3 DEF Limiter!CallsFor, LimiterInv, CallTypes
        <4> QED
          BY <4>1 DEF Limiter!Asks
      <3> QED
        BY <3>1, <3>2, <3>4, <3>5, <3>6, <3>7
    <2>2. CASE j # k
      <3>1. j \in DOMAIN entries /\ entries'[j] = entries[j]
        BY <1>4, <2>2
      <3>2. /\ MadeFor(entries[j].bucket, j)
            /\ buckets[entries[j].bucket].last <= entries[j].lastAccess + MaxDelay
            /\ \A d \in Limiter!CallsFor(j) : asked[d].at <= entries[j].lastAccess + MaxDelay
        BY <1>1, <3>1 DEF Held
      <3>3. ASSUME NEW b, b = entries[j].bucket PROVE MadeFor(b, j)' /\ buckets'[b] = buckets[b]
        BY <1>6, <3>2, <3>3
      <3>4. MadeFor(entries[j].bucket, j)'
        BY <3>1, <3>3 DEF MadeFor
      <3> QED
        BY <1>13, <2>2, <3>1, <3>2, <3>3, <3>4
    <2> QED
      BY <2>1, <2>2
  <1>15. ASSUME NEW d \in Limiter!Calls PROVE Flying(d)'
    <2>1. CASE d = c
      <3>1. asked'[d].key = k /\ bucket'[d] = found
        BY <1>5, <2>1
      <3>2. MadeFor(bucket[d], asked[d].key)'
        BY <1>10, <3>1 DEF MadeFor
      <3>3. k \in trimmed' \/ Current(k, found)'
        BY <1>4 DEF Current
      <3>4. Current(k, found)' => Current(asked[d].key, bucket[d])'
        BY <3>1 DEF Current
      <3> QED
        BY <1>2, <3>1, <3>2, <3>3, <3>4 DEF Flying
    <2>2. CASE d # c
      <3> SUFFICES ASSUME call'[d] = "found" PROVE Flying(d)'
        BY DEF Flying
      <3> PICK j : j = asked[d].key
        OBVIOUS
      <3>1. call[d] = "found" /\ asked'[d] = asked[d] /\ bucket'[d] = bucket[d]
        BY <1>5, <2>2
      <3>2. /\ j \in Limiter!BucketKeys /\ MadeFor(bucket[d], j)
            /\ j \in trimmed \/ Current(j, bucket[d]) \/ asked[d].at + Minute < now
        BY <1>1, <3>1 DEF Flying
      <3>3. ASSUME NEW b, b = bucket[d] PROVE MadeFor(b, j)'
        BY <1>6, <3>2, <3>3
      <3>4. MadeFor(bucket[d], asked[d].key)'
        BY <3>1, <3>3 DEF MadeFor
      <3>5. CASE Current(j, bucket[d])
        <4>1. j \in DOMAIN entries /\ entries[j].bucket = bucket[d]
          BY <3>5 DEF Current
        <4>2. CASE j \in DOMAIN entries'
          <5>1. entries'[j].bucket = bucket[d]
            BY <1>4, <4>1, <4>2
          <5>2. Current(asked[d].key, bucket[d])'
            BY <3>1, <4>2, <5>1 DEF Current
          <5> QED
            BY <3>1, <3>2, <3>4, <5>2 DEF Flying
        <4>3. CASE j \in trimmed'
          BY <3>1, <3>2, <3>4, <4>3 DEF Flying
        <4>4. CASE j \notin DOMAIN entries' /\ j \notin trimmed'
          <5>1. j # k /\ entries[j].lastAccess + EntryTTL < time
            BY <1>4, <4>1, <4>4
          <5>2. d \in Limiter!CallsFor(j)
            BY DEF Limiter!CallsFor
          <5>3. asked[d].at + Minute < now
            BY <3>2, <4>1, <5>1, <5>2, IdleIsFull
          <5> QED
            BY <1>4, <3>1, <3>2, <3>4, <5>3 DEF Flying
        <4> QED
          BY <4>2, <4>3, <4>4
      <3>6. CASE j \in trimmed \/ asked[d].at + Minute < now
        BY <1>4, <3>1, <3>2, <3>4, <3>6 DEF Flying
      <3> QED
        BY <3>2, <3>5, <3>6
    <2> QED
      BY <2>1, <2>2
  <1>16. ASSUME NEW j \in Limiter!BucketKeys \ trimmed' PROVE Paid(j)'
    <2>1. Paid(j)
      BY <1>1, <1>4
    <2>2. Limiter!Allowed(j)' = Limiter!Allowed(j)
      BY <1>4, <1>5 DEF Limiter!Allowed, Limiter!CallsFor
    <2>3. \A d \in Limiter!Allowed(j) : endedAt'[d] = endedAt[d] /\ asked'[d].at = asked[d].at
      BY <1>4, <1>5 DEF Limiter!Allowed, Limiter!CallsFor
    <2>4. ASSUME NEW rpm \in Nat, LimitedBy(j, rpm)' PROVE LimitedBy(j, rpm)
      <3> SUFFICES ASSUME NEW d \in Limiter!CallsFor(j) PROVE asked[d].rpm <= rpm
        BY DEF LimitedBy
      <3>1. CASE d = c
        <4>1. asked[c] = [key |-> Blank, rpm |-> 0, at |-> 0]
          BY <1>1, <1>4 DEF Clocks
        <4> QED
          BY <3>1, <4>1
      <3>2. CASE d # c
        <4>1. d \in Limiter!CallsFor(j)' /\ asked'[d] = asked[d]
          BY <1>5, <3>2 DEF Limiter!CallsFor
        <4> QED
          BY <2>4, <4>1 DEF LimitedBy
      <3> QED
        BY <3>1, <3>2
    <2>5. Left(j)' = Left(j)
      <3>1. CASE j # k /\ j \in DOMAIN entries'
        <4>1. j \in DOMAIN entries /\ entries'[j] = entries[j]
          BY <1>4, <3>1
        <4>2. MadeFor(entries[j].bucket, j)
          BY <1>1, <4>1 DEF Held
        <4>3. ASSUME NEW b, b = entries[j].bucket PROVE buckets'[b] = buckets[b]
          BY <1>6, <4>2, <4>3
        <4> QED
          BY <1>4, <3>1, <4>1, <4>3 DEF Left
      <3>2. CASE j # k /\ j \notin DOMAIN entries'
        <4>1. Left(j)' = Minute
          BY <3>2 DEF Left
        <4>2. CASE j \in DOMAIN entries
          <5>1. entries[j].lastAccess + EntryTTL < time
            BY <1>4, <3>2, <4>2
          <5> QED
            BY <4>1, <4>2, <5>1, IdleIsFull
        <4>3. CASE j \notin DOMAIN entries
          BY <4>1, <4>3 DEF Left
        <4> QED
          BY <4>2, <4>3
      <3>3. CASE j = k
        <4>1. j \in DOMAIN entries' /\ entries'[j].bucket = found
          BY <1>4, <3>3
        <4>2. CASE k \in DOMAIN entries
          BY <1>4, <3>3, <4>1, <4>2 DEF Left
        <4>3. CASE k \notin DOMAIN entries
          <5> DEFINE fresh == Limiter!NewBucket(l.rpm)
          <5>1. fresh \in Limiter!Buckets /\ fresh.level = Minute /\ fresh.last = 0
            BY <1>2, <1>9 DEF Limiter!Buckets
          <5>2. Limiter!Level(fresh, now) = Minute
            BY <1>1, <5>1, LevelIs
          <5>3. buckets'[entries'[j].bucket] = fresh
            BY <1>8, <4>1, <4>3
          <5> QED
            BY <1>4, <3>3, <4>1, <4>3, <5>2, <5>3 DEF Left
        <4> QED
          BY <4>2, <4>3
      <3> QED
        BY <3>1, <3>2, <3>3
    <2> QED
      BY <1>1, <1>4, <2>1, <2>2, <2>3, <2>4, <2>5, SamePaid
  <1> QED
    BY <1>3, <1>12, <1>14, <1>15, <1>16 DEF RateInv

-----------------------------------------------------------------------------
(* A call takes a token, or is refused                                     *)

\* One more token, of a bucket whose tokens cost at least a minute together.
LEMMA TokenPaid ==
  ASSUME NEW spent \in Nat, NEW rpm \in Nat, NEW left \in Nat, NEW rest \in Nat, NEW budget \in Nat,
         NEW delay \in Nat, NEW cost \in Nat,
         spent + rpm * left <= rpm * budget, rest + cost <= left + delay, Minute <= rpm * cost
  PROVE  spent + Minute + rpm * rest <= rpm * (budget + delay)
  <1>1. rpm * (rest + cost) <= rpm * (left + delay)
    <2> DEFINE x == rest + cost
               y == left + delay
    <2>1. x \in Nat /\ y \in Nat /\ x <= y
      OBVIOUS
    <2> HIDE DEF x, y
    <2>2. rpm * x <= rpm * y
      BY <2>1
    <2> QED
      BY <2>2 DEF x, y
  <1>2. /\ rpm * (rest + cost) = rpm * rest + rpm * cost
        /\ rpm * (left + delay) = rpm * left + rpm * delay
        /\ rpm * (budget + delay) = rpm * budget + rpm * delay
    OBVIOUS
  <1>3. /\ rpm * rest \in Nat /\ rpm * cost \in Nat /\ rpm * left \in Nat /\ rpm * delay \in Nat
        /\ rpm * budget \in Nat
    OBVIOUS
  <1>4. Minute \in Nat
    BY LimiterNumbers
  <1> DEFINE a == rpm * rest
             b == rpm * cost
             d == rpm * left
             e == rpm * delay
             f == rpm * budget
  <1>5. a \in Nat /\ b \in Nat /\ d \in Nat /\ e \in Nat /\ f \in Nat
    BY <1>3
  <1>6. a + b <= d + e /\ spent + d <= f /\ Minute <= b
    BY <1>1, <1>2
  <1>7. rpm * (budget + delay) = f + e
    BY <1>2
  <1> HIDE DEF a, b, d, e, f
  <1>8. spent + Minute + a <= f + e
    BY <1>4, <1>5, <1>6
  <1> QED
    BY <1>7, <1>8 DEF a

\* What a call that takes a token does.
Takes(c) ==
  /\ buckets' = [buckets EXCEPT ![bucket[c]] =
                   [@ EXCEPT !.level = Limiter!Level(buckets[bucket[c]], asked[c].at)
                                         - Limiter!Interval(buckets[bucket[c]]),
                             !.last = asked[c].at]]
  /\ endedAt' = [endedAt EXCEPT ![c] = now]
  /\ call' = [call EXCEPT ![c] = "allowed"]
  /\ bucket' = [bucket EXCEPT ![c] = Limiter!None]
  /\ UNCHANGED <<now, entries, asked, trimmed>>
  /\ Limiter!Interval(buckets[bucket[c]]) <= Limiter!Level(buckets[bucket[c]], asked[c].at)

\* The bucket it was taken from: the one its key has, or one that was let go, which
\* is paid for by the call's delay.
LEMMA TakesFrom ==
  ASSUME RateInv, NEW c \in Limiter!Calls, call[c] = "found", Takes(c)
  PROVE  /\ bucket[c] \in Limiter!Calls /\ buckets'[bucket[c]].rpm = buckets[bucket[c]].rpm
         /\ buckets'[bucket[c]].last = asked[c].at
         /\ \A b \in Limiter!Calls \ {bucket[c]} : buckets'[b] = buckets[b]
         /\ \A k \in Limiter!BucketKeys : k # asked[c].key => Left(k)' = Left(k)
         /\ asked[c].key \notin trimmed =>
              \E cost \in Nat : /\ Left(asked[c].key)' + cost <= Left(asked[c].key) + (now - asked[c].at)
                                /\ Minute <= buckets[bucket[c]].rpm * cost
  <1> USE LimiterNumbers
  <1> PICK k, b : k = asked[c].key /\ b = bucket[c]
    OBVIOUS
  <1>1. /\ LimiterInv /\ CallTypes /\ now \in 0..MaxTime
        /\ Flying(c) /\ Clocks(c) /\ \A j \in Limiter!BucketKeys : Held(j)
    BY DEF RateInv, LimiterInv
  <1>2. /\ b \in Limiter!Calls /\ MadeFor(b, k) /\ buckets[b] \in Limiter!Buckets
        /\ buckets[b].rpm \in Limiter!Rpms /\ asked[c].at \in 0..MaxTime /\ asked[c].at <= now
    BY <1>1 DEF Flying, Clocks, CallTypes, Made, Limiter!Asks
  <1> DEFINE cost == Limiter!Interval(buckets[b])
             level == Limiter!Level(buckets[b], asked[c].at)
  <1>3. cost \in 1..Minute /\ buckets[b].rpm * cost = Minute
    BY <1>2, IntervalIs
  <1>4. level \in 0..Minute /\ cost <= level
    BY <1>2, LevelBounds DEF Takes
  <1> HIDE DEF cost, level
  <1>5. buckets'[b] = [buckets[b] EXCEPT !.level = level - cost, !.last = asked[c].at]
    <2>1. buckets' = [buckets EXCEPT ![b] = [buckets[b] EXCEPT !.level = level - cost, !.last = asked[c].at]]
      BY DEF Takes, cost, level
    <2> QED
      BY <1>1, <1>2, <2>1 DEF CallTypes
  <1>6. /\ buckets'[b].level = level - cost /\ buckets'[b].last = asked[c].at
        /\ buckets'[b].rpm = buckets[b].rpm
    BY <1>2, <1>5 DEF Limiter!Buckets
  <1>7. \A d \in Limiter!Calls \ {b} : buckets'[d] = buckets[d]
    BY <1>1, <1>2 DEF Takes, CallTypes
  <1>8. buckets'[b] \in Limiter!Buckets
    <2>1. level - cost \in 0..Minute
      BY <1>3, <1>4
    <2> QED
      BY <1>2, <1>5, <2>1 DEF Limiter!Buckets
  <1>9. Limiter!Level(buckets'[b], now) + cost <= Limiter!Level(buckets[b], now) + (now - asked[c].at)
    <2>1. cost \in Nat
      BY <1>3
    <2> QED
      BY <1>1, <1>2, <1>4, <1>6, <1>8, <2>1, LevelTaken DEF level
  <1>10. ASSUME NEW j \in Limiter!BucketKeys, ~Current(j, b) PROVE Left(j)' = Left(j)
    <2>1. CASE j \in DOMAIN entries
      <3>1. entries[j].bucket \in Limiter!Calls \ {b}
        BY <1>1, <1>10, <2>1 DEF Current, Held, MadeFor
      <3> QED
        BY <1>7, <2>1, <3>1 DEF Takes, Left
    <2>2. CASE j \notin DOMAIN entries
      BY <2>2 DEF Takes, Left
    <2> QED
      BY <2>1, <2>2
  <1>11. ASSUME NEW j \in Limiter!BucketKeys, j # k PROVE ~Current(j, b)
    BY <1>1, <1>2, <1>11 DEF Current, Held, MadeFor
  <1>12. ASSUME k \notin trimmed
         PROVE  \E x \in Nat : Left(k)' + x <= Left(k) + (now - asked[c].at) /\ Minute <= buckets[b].rpm * x
    <2>1. CASE Current(k, b)
      <3>1. Left(k) = Limiter!Level(buckets[b], now) /\ Left(k)' = Limiter!Level(buckets'[b], now)
        BY <2>1 DEF Current, Left, Takes
      <3>2. cost \in Nat /\ Minute <= buckets[b].rpm * cost
        BY <1>3
      <3> QED
        BY <1>9, <3>1, <3>2
    <2>2. CASE ~Current(k, b)
      <3>1. Left(k)' = Left(k) /\ asked[c].at + Minute < now
        BY <1>1, <1>10, <1>12, <2>2 DEF Flying
      <3>2. Left(k) + Minute <= Left(k) + (now - asked[c].at)
        <4>1. Left(k) \in Nat /\ now \in Nat /\ asked[c].at \in Nat
          BY <1>1, <1>2, LeftBounds
        <4> QED
          BY <3>1, <4>1
      <3>3. buckets[b].rpm \in Nat \ {0} /\ Minute \in Nat
        BY <1>2
      <3>4. Minute <= buckets[b].rpm * Minute
        BY <3>3
      <3> QED
        BY <3>1, <3>2, <3>3, <3>4
    <2> QED
      BY <2>1, <2>2
  <1>13. \A j \in Limiter!BucketKeys : j # asked[c].key => Left(j)' = Left(j)
    BY <1>10, <1>11
  <1>14. /\ b \in Limiter!Calls /\ buckets'[b].rpm = buckets[b].rpm
         /\ buckets'[b].last = asked[c].at
         /\ \A d \in Limiter!Calls \ {b} : buckets'[d] = buckets[d]
    BY <1>2, <1>6, <1>7
  <1>15. ASSUME asked[c].key \notin trimmed
         PROVE  \E x \in Nat : /\ Left(asked[c].key)' + x <= Left(asked[c].key) + (now - asked[c].at)
                              /\ Minute <= buckets[bucket[c]].rpm * x
    <2>1. asked'[c].key = k
      BY DEF Takes
    <2>2. Left(asked[c].key)' = Left(k)'
      BY <2>1 DEF Left
    <2> QED
      BY <1>12, <1>15, <2>2
  <1>16. b = bucket[c]
    OBVIOUS
  <1> QED
    BY <1>13, <1>14, <1>15, <1>16

Denied(c) ==
  /\ call' = [call EXCEPT ![c] = "denied"]
  /\ bucket' = [bucket EXCEPT ![c] = Limiter!None]
  /\ UNCHANGED <<now, entries, buckets, asked, endedAt, trimmed>>

LEMMA AllowNDoes ==
  ASSUME NEW c \in Limiter!Calls, Limiter!AllowN(c)
  PROVE  call[c] = "found" /\ (Denied(c) \/ Takes(c))
  BY DEF Limiter!AllowN, Limiter!Goto, Denied, Takes

\* A call that was allowed adds one to a stretch that lasts until now, and its delay.
LEMMA OneMore ==
  ASSUME RateInv, NEW c \in Limiter!Calls, call[c] = "found", Takes(c), NEW k, k = asked[c].key,
         NEW from \in 0..now
  PROVE  /\ Spent(k, from, now)' = Spent(k, from, now) + Minute
         /\ Budget(k, from, now)' = Budget(k, from, now) + (now - asked[c].at)
  <1> USE LimiterNumbers
  <1> PICK old, moment : old = Between(k, from, now) /\ moment = now
    OBVIOUS
  <1>1. LimiterInv /\ CallTypes /\ (\A d \in Limiter!Calls : Clocks(d)) /\ now \in 0..MaxTime
    BY DEF RateInv, LimiterInv
  <1>2. /\ endedAt'[c] = now /\ call'[c] = "allowed" /\ asked' = asked /\ now' = now
        /\ \A d \in Limiter!Calls \ {c} : endedAt'[d] = endedAt[d] /\ call'[d] = call[d]
    BY <1>1 DEF Takes, CallTypes
  <1>3. Between(k, from, moment)' = old \cup {c}
    <2>1. now <= moment /\ from <= now
      BY <1>1
    <2> QED
      BY <1>2, <2>1 DEF Between, Limiter!Allowed, Limiter!CallsFor
  <1>4. c \notin old
    BY DEF Between, Limiter!Allowed
  <1>5. /\ old \subseteq Limiter!Calls /\ IsFiniteSet(old) /\ Cardinality(old) \in Nat
        /\ \A d \in old : Delay[d] \in Nat /\ Delay'[d] = Delay[d]
        /\ Limiter!SumFunctionOnSet(Delay, old) \in Nat
    <2>1. /\ old \subseteq Limiter!Calls /\ IsFiniteSet(old) /\ Cardinality(old) \in Nat
          /\ \A d \in old : Delay[d] \in Nat
          /\ Limiter!SumFunctionOnSet(Delay, old) \in Nat
      BY <1>1, AllowedFinite
    <2>2. ASSUME NEW d \in old PROVE Delay'[d] = Delay[d]
      BY <1>2, <1>4, <2>1 DEF Delay
    <2> QED
      BY <2>1, <2>2
  <1>6. Delay'[c] = now - asked[c].at /\ Delay'[c] \in Nat
    <2>1. asked[c].at \in Nat /\ asked[c].at <= now
      BY <1>1, CallNumbers DEF Clocks
    <2>2. Delay'[c] = endedAt'[c] - asked'[c].at
      BY DEF Delay
    <2> QED
      BY <1>1, <1>2, <2>1, <2>2
  <1>7. Cardinality(old \cup {c}) = Cardinality(old) + 1
    BY <1>4, <1>5, FS_AddElement
  <1>8. Limiter!SumFunctionOnSet(Delay', old \cup {c}) = Delay'[c] + Limiter!SumFunctionOnSet(Delay, old)
    <2> PICK F, G : F = Delay' /\ G = Delay
      OBVIOUS
    <2>1. \A d \in old \cup {c} : F[d] \in Nat
      BY <1>5, <1>6
    <2>2. Limiter!SumFunctionOnSet(F, old \cup {c}) = F[c] + Limiter!SumFunctionOnSet(F, old)
      BY <1>4, <1>5, <2>1, SumWith
    <2>3. Limiter!SumFunctionOnSet(F, old) = Limiter!SumFunctionOnSet(G, old)
      BY <1>5, SumOfSame
    <2> QED
      BY <2>2, <2>3
  <1>9. Spent(k, from, moment)' = Spent(k, from, moment) + Minute
    <2>1. Spent(k, from, moment)' = Cardinality(old \cup {c}) * Minute
      BY <1>3 DEF Spent
    <2>2. Spent(k, from, moment) = Cardinality(old) * Minute
      BY DEF Spent
    <2> QED
      BY <1>5, <1>7, <2>1, <2>2
  <1>10. Budget(k, from, moment)' = Budget(k, from, moment) + (now - asked[c].at)
    <2>1. Budget(k, from, moment)' = Minute + (moment - from) + Limiter!SumFunctionOnSet(Delay', old \cup {c})
      BY <1>3 DEF Budget
    <2>2. Budget(k, from, moment) = Minute + (moment - from) + Limiter!SumFunctionOnSet(Delay, old)
      BY DEF Budget
    <2> QED
      BY <1>1, <1>5, <1>6, <1>8, <2>1, <2>2
  <1>11. /\ Spent(k, from, now)' = Spent(k, from, moment)' /\ Spent(k, from, now) = Spent(k, from, moment)
         /\ Budget(k, from, now)' = Budget(k, from, moment)' /\ Budget(k, from, now) = Budget(k, from, moment)
    BY <1>2 DEF Spent, Budget, Between
  <1> QED
    BY <1>9, <1>10, <1>11

LEMMA TakePays ==
  ASSUME RateInv, NEW c \in Limiter!Calls, call[c] = "found", Takes(c), LimiterInv'
  PROVE  RateInv'
  <1> USE LimiterNumbers
  <1> PICK k, b : k = asked[c].key /\ b = bucket[c]
    OBVIOUS
  <1>1. /\ LimiterInv /\ CallTypes /\ now \in 0..MaxTime
        /\ \A d \in Limiter!Calls : Flying(d) /\ Clocks(d)
        /\ \A j \in Limiter!BucketKeys : Held(j)
        /\ \A j \in Limiter!BucketKeys \ trimmed : Paid(j)
    BY DEF RateInv, LimiterInv
  <1>2. /\ b \in Limiter!Calls /\ buckets'[b].rpm = buckets[b].rpm /\ buckets'[b].last = asked[c].at
        /\ \A d \in Limiter!Calls \ {b} : buckets'[d] = buckets[d]
        /\ \A j \in Limiter!BucketKeys : j # k => Left(j)' = Left(j)
        /\ k \notin trimmed =>
             \E cost \in Nat : /\ Left(asked[c].key)' + cost <= Left(k) + (now - asked[c].at)
                               /\ Minute <= buckets[b].rpm * cost
    BY TakesFrom
  <1>3. /\ UNCHANGED <<now, entries, asked, trimmed>>
        /\ endedAt'[c] = now /\ call'[c] = "allowed"
        /\ \A d \in Limiter!Calls \ {c} :
             endedAt'[d] = endedAt[d] /\ call'[d] = call[d] /\ bucket'[d] = bucket[d]
    BY <1>1 DEF Takes, CallTypes
  <1>4. k \in Limiter!BucketKeys /\ MadeFor(b, k) /\ asked[c].at \in Nat /\ asked[c].at <= now /\ now \in Nat
    BY <1>1, CallNumbers DEF Flying, Clocks
  <1>5. ASSUME NEW a, NEW j, MadeFor(a, j) PROVE MadeFor(a, j)'
    BY <1>2, <1>3, <1>5 DEF MadeFor
  <1>6. ASSUME NEW d \in Limiter!Calls PROVE Clocks(d)'
    BY <1>1, <1>2, <1>3, <1>4 DEF Clocks
  <1>7. ASSUME NEW d \in Limiter!Calls PROVE Flying(d)'
    <2>1. CASE d = c
      BY <1>3, <2>1 DEF Flying
    <2>2. CASE d # c
      <3> SUFFICES ASSUME call'[d] = "found" PROVE Flying(d)'
        BY DEF Flying
      <3> PICK a, j : a = bucket[d] /\ j = asked[d].key
        OBVIOUS
      <3>1. MadeFor(a, j) /\ j \in Limiter!BucketKeys
            /\ (j \in trimmed \/ Current(j, a) \/ asked[d].at + Minute < now)
        BY <1>1, <1>3, <2>2 DEF Flying
      <3>2. MadeFor(a, j)'
        BY <1>5, <3>1
      <3>3. bucket'[d] = a /\ asked'[d] = asked[d]
        BY <1>3, <2>2
      <3>4. MadeFor(bucket[d], asked[d].key)'
        BY <3>2, <3>3 DEF MadeFor
      <3>5. Current(j, a) => Current(asked[d].key, bucket[d])'
        BY <1>3, <3>3 DEF Current
      <3> QED
        BY <1>3, <3>1, <3>3, <3>4, <3>5 DEF Flying
    <2> QED
      BY <2>1, <2>2
  <1>8. ASSUME NEW j \in Limiter!BucketKeys PROVE Held(j)'
    <2> SUFFICES ASSUME j \in DOMAIN entries
                 PROVE  /\ MadeFor(entries[j].bucket, j)'
                        /\ buckets'[entries[j].bucket].last <= entries[j].lastAccess + MaxDelay
                        /\ \A d \in Limiter!CallsFor(j) : asked[d].at <= entries[j].lastAccess + MaxDelay
      BY <1>3 DEF Held, Limiter!CallsFor
    <2> PICK a : a = entries[j].bucket
      OBVIOUS
    <2>1. /\ MadeFor(a, j) /\ buckets[a].last <= entries[j].lastAccess + MaxDelay
          /\ \A d \in Limiter!CallsFor(j) : asked[d].at <= entries[j].lastAccess + MaxDelay
      BY <1>1 DEF Held
    <2>2. MadeFor(a, j)'
      BY <1>5, <2>1
    <2>3. MadeFor(entries[j].bucket, j)'
      BY <1>3, <2>2 DEF MadeFor
    <2>4. buckets'[a].last <= entries[j].lastAccess + MaxDelay
      <3>1. CASE a = b
        <4>1. j = k /\ c \in Limiter!CallsFor(j)
          BY <1>4, <2>1, <3>1 DEF MadeFor, Limiter!CallsFor
        <4> QED
          BY <1>2, <2>1, <3>1, <4>1
      <3>2. CASE a # b
        BY <1>2, <2>1, <3>2 DEF MadeFor
      <3> QED
        BY <3>1, <3>2
    <2> QED
      BY <2>1, <2>3, <2>4
  <1>9. ASSUME NEW j \in Limiter!BucketKeys \ trimmed, j # k PROVE Paid(j)'
    <2>1. Limiter!Allowed(j)' = Limiter!Allowed(j)
      BY <1>3, <1>9 DEF Limiter!Allowed, Limiter!CallsFor
    <2>2. \A d \in Limiter!Allowed(j) : endedAt'[d] = endedAt[d] /\ asked'[d].at = asked[d].at
      BY <1>3, <1>9 DEF Limiter!Allowed, Limiter!CallsFor
    <2>3. \A rpm \in Nat : LimitedBy(j, rpm)' => LimitedBy(j, rpm)
      BY <1>3 DEF LimitedBy, Limiter!CallsFor
    <2> QED
      BY <1>1, <1>2, <1>3, <1>9, <2>1, <2>2, <2>3, SamePaid
  <1>10. ASSUME k \notin trimmed PROVE Paid(k)'
    <2> SUFFICES ASSUME NEW rpm \in Nat, LimitedBy(k, rpm)', NEW from \in 0..now, NEW to \in 0..now, from <= to
                 PROVE  Spent(k, from, to)' + rpm * (IF to = now THEN Left(k)' ELSE 0)
                          <= rpm * Budget(k, from, to)'
      BY <1>3 DEF Paid
    <2>1. LimitedBy(k, rpm)
      BY <1>3 DEF LimitedBy, Limiter!CallsFor
    <2>2. Spent(k, from, to) + rpm * (IF to = now THEN Left(k) ELSE 0) <= rpm * Budget(k, from, to)
      BY <1>1, <1>4, <1>10, <2>1 DEF Paid
    <2>3. CASE to # now
      <3>1. Between(k, from, to)' = Between(k, from, to)
        BY <1>3, <1>4, <2>3 DEF Between, Limiter!Allowed, Limiter!CallsFor
      <3>2. ASSUME NEW d \in Between(k, from, to) PROVE Delay'[d] = Delay[d]
        BY <1>3 DEF Between, Limiter!Allowed, Limiter!CallsFor, Delay
      <3>3. Spent(k, from, to)' = Spent(k, from, to) /\ Budget(k, from, to)' = Budget(k, from, to)
        BY <1>1, <3>1, <3>2, SameLedger
      <3> QED
        BY <2>2, <2>3, <3>3
    <2>4. CASE to = now
      <3>1. /\ Spent(k, from, now)' = Spent(k, from, now) + Minute
            /\ Budget(k, from, now)' = Budget(k, from, now) + (now - asked[c].at)
        BY OneMore
      <3>2. Spent(k, from, to)' = Spent(k, from, now)' /\ Budget(k, from, to)' = Budget(k, from, now)'
        BY <1>3, <2>4 DEF Spent, Budget, Between
      <3>3. PICK cost \in Nat : /\ Left(asked[c].key)' + cost <= Left(k) + (now - asked[c].at)
                                /\ Minute <= buckets[b].rpm * cost
        BY <1>2, <1>10
      <3>4. Left(asked[c].key)' = Left(k)'
        BY <1>3 DEF Left
      <3>5. Minute <= rpm * cost
        <4>1. buckets[b].rpm <= rpm
          BY <1>4, <2>1 DEF MadeFor, LimitedBy, Limiter!CallsFor
        <4>2. buckets[b].rpm \in Nat
          BY <1>1, <1>2, CallNumbers
        <4> PICK r : r = buckets[b].rpm
          OBVIOUS
        <4>3. r * cost <= rpm * cost
          BY <4>1, <4>2
        <4>4. r * cost \in Nat /\ rpm * cost \in Nat
          BY <4>2
        <4> QED
          BY <3>3, <4>3, <4>4
      <3>6. /\ Left(k) \in Nat /\ Left(k)' \in Nat
            /\ Spent(k, from, now) \in Nat /\ Budget(k, from, now) \in Nat
        <4>1. Left(k) \in Nat /\ Left(k)' \in Nat
          <5>1. Left(k) \in Nat
            BY <1>1, LeftBounds
          <5>2. k \in DOMAIN entries => buckets'[entries[k].bucket] \in Limiter!Buckets
            BY <1>3 DEF LimiterInv, CallTypes, MapTypes, Made
          <5> PICK held : held = buckets'[entries[k].bucket]
            OBVIOUS
          <5>3. k \in DOMAIN entries => Limiter!Level(held, now) \in Nat
            BY <1>1, <5>2, LevelBounds
          <5> QED
            BY <1>3, <5>1, <5>3 DEF Left
        <4>2. Cardinality(Between(k, from, now)) \in Nat
              /\ Limiter!SumFunctionOnSet(Delay, Between(k, from, now)) \in Nat
          BY <1>1, AllowedFinite
        <4> QED
          BY <1>4, <4>1, <4>2 DEF Spent, Budget
      <3>7. Spent(k, from, now) + Minute + rpm * Left(k)'
              <= rpm * (Budget(k, from, now) + (now - asked[c].at))
        <4>1. now - asked[c].at \in Nat
          BY <1>4
        <4>2. Spent(k, from, now) + rpm * Left(k) <= rpm * Budget(k, from, now)
          BY <2>2, <2>4
        <4> QED
          BY <3>3, <3>4, <3>5, <3>6, <4>1, <4>2, TokenPaid
      <3> QED
        BY <2>4, <3>1, <3>2, <3>7
    <2> QED
      BY <2>3, <2>4
  <1>11. ASSUME NEW j \in Limiter!BucketKeys \ trimmed' PROVE Paid(j)'
    BY <1>3, <1>9, <1>10
  <1> QED
    BY <1>6, <1>7, <1>8, <1>11 DEF RateInv

\* A call that is refused changes nothing that counts.
LEMMA DeniedPays ==
  ASSUME RateInv, NEW c \in Limiter!Calls, call[c] = "found", Denied(c), LimiterInv'
  PROVE  RateInv'
  <1>1. /\ LimiterInv /\ CallTypes
        /\ \A d \in Limiter!Calls : Flying(d) /\ Clocks(d)
        /\ \A j \in Limiter!BucketKeys : Held(j)
        /\ \A j \in Limiter!BucketKeys \ trimmed : Paid(j)
    BY DEF RateInv, LimiterInv
  <1>2. /\ UNCHANGED <<now, entries, buckets, asked, endedAt, trimmed>> /\ call'[c] = "denied"
        /\ \A d \in Limiter!Calls \ {c} : call'[d] = call[d] /\ bucket'[d] = bucket[d]
    BY <1>1 DEF Denied, CallTypes
  <1>3. ASSUME NEW a, NEW j, MadeFor(a, j) PROVE MadeFor(a, j)'
    BY <1>2, <1>3 DEF MadeFor
  <1>4. ASSUME NEW d \in Limiter!Calls PROVE Clocks(d)' /\ Flying(d)'
    <2>1. Clocks(d)'
      BY <1>1, <1>2 DEF Clocks
    <2>2. CASE d = c
      BY <1>2, <2>1, <2>2 DEF Flying
    <2>3. CASE d # c
      <3> SUFFICES ASSUME call'[d] = "found" PROVE Flying(d)'
        BY <2>1 DEF Flying
      <3> PICK a, j : a = bucket[d] /\ j = asked[d].key
        OBVIOUS
      <3>1. MadeFor(a, j) /\ j \in Limiter!BucketKeys
            /\ (j \in trimmed \/ Current(j, a) \/ asked[d].at + Minute < now)
        BY <1>1, <1>2, <2>3 DEF Flying
      <3>2. MadeFor(a, j)'
        BY <1>3, <3>1
      <3>3. bucket'[d] = a /\ asked'[d] = asked[d]
        BY <1>2, <2>3
      <3>4. MadeFor(bucket[d], asked[d].key)'
        BY <3>2, <3>3 DEF MadeFor
      <3>5. Current(j, a) => Current(asked[d].key, bucket[d])'
        BY <1>2, <3>3 DEF Current
      <3> QED
        BY <1>2, <3>1, <3>3, <3>4, <3>5 DEF Flying
    <2> QED
      BY <2>1, <2>2, <2>3
  <1>5. ASSUME NEW j \in Limiter!BucketKeys PROVE Held(j)'
    <2>1. Held(j)
      BY <1>1
    <2>2. j \in DOMAIN entries => MadeFor(entries[j].bucket, j)'
      <3> PICK a : a = entries[j].bucket
        OBVIOUS
      <3>1. j \in DOMAIN entries => MadeFor(a, j)'
        BY <1>3, <2>1 DEF Held
      <3> QED
        BY <1>2, <3>1 DEF MadeFor
    <2> QED
      BY <1>2, <2>1, <2>2 DEF Held, Limiter!CallsFor
  <1>6. ASSUME NEW j \in Limiter!BucketKeys \ trimmed PROVE Paid(j)'
    <2>1. Limiter!Allowed(j)' = Limiter!Allowed(j)
      BY <1>2 DEF Limiter!Allowed, Limiter!CallsFor
    <2>2. \A rpm \in Nat : LimitedBy(j, rpm)' => LimitedBy(j, rpm)
      BY <1>2 DEF LimitedBy, Limiter!CallsFor
    <2>3. Left(j)' = Left(j)
      BY <1>2 DEF Left
    <2>4. \A d \in Limiter!Allowed(j) : endedAt'[d] = endedAt[d] /\ asked'[d].at = asked[d].at
      BY <1>2
    <2> QED
      BY <1>1, <1>2, <1>6, <2>1, <2>2, <2>3, <2>4, SamePaid
  <1>7. \A j \in Limiter!BucketKeys \ trimmed' : Paid(j)'
    BY <1>2, <1>6
  <1> QED
    BY <1>4, <1>5, <1>7 DEF RateInv

-----------------------------------------------------------------------------
(* Time passes                                                             *)

\* Naturals that are bounded have a largest.
LEMMA LargestOf ==
  ASSUME NEW N \in Nat, NEW S, S \subseteq 0..N, S # {}
  PROVE  \E x \in S : \A y \in S : y <= x
  <1> DEFINE T == {N - x : x \in S}
  <1>1. T \subseteq Nat /\ T # {}
    <2>1. \A x \in S : N - x \in Nat
      OBVIOUS
    <2>2. PICK x \in S : TRUE
      OBVIOUS
    <2>3. N - x \in T
      OBVIOUS
    <2> QED
      BY <2>1, <2>3
  <1>2. PICK first \in T : \A time \in T : first <= time
    <2> HIDE DEF T
    <2> QED
      BY <1>1, VP!FirstTime, HeadroomAssumption, BoundsAssumption, LimiterAssumption, VerifierAssumption
  <1>3. PICK x \in S : first = N - x
    BY <1>2
  <1>4. ASSUME NEW y \in S PROVE y <= x
    <2>1. N - x <= N - y
      BY <1>2, <1>3
    <2> QED
      BY <2>1
  <1> QED
    BY <1>4

\* What time earns, it adds to the budget of a stretch that lasts until now.
LEMMA TickPays ==
  ASSUME RateInv, Limiter!Tick, LimiterInv'
  PROVE  RateInv'
  <1> USE LimiterNumbers
  <1>1. /\ LimiterInv /\ CallTypes /\ MapTypes /\ now \in 0..MaxTime
        /\ \A d \in Limiter!Calls : Flying(d) /\ Clocks(d)
        /\ \A j \in Limiter!BucketKeys : Held(j)
        /\ \A j \in Limiter!BucketKeys \ trimmed : Paid(j)
    BY DEF RateInv, LimiterInv
  <1>2. /\ now' = now + 1 /\ now + 1 \in 0..MaxTime
        /\ UNCHANGED <<entries, buckets, call, asked, bucket, endedAt, trimmed>>
    BY <1>1 DEF Limiter!Tick
  <1>3. ASSUME NEW d \in Limiter!Calls PROVE Clocks(d)' /\ Flying(d)'
    <2>1. Clocks(d) /\ Flying(d)
      BY <1>1
    <2>2. /\ asked[d].at \in Nat /\ endedAt[d] \in Nat /\ buckets[d].last \in Nat
          /\ now \in Nat
      BY <1>1, CallNumbers
    <2>3. Clocks(d)'
      BY <1>2, <2>1, <2>2 DEF Clocks
    <2>4. Flying(d)'
      <3> PICK a, j : a = bucket[d] /\ j = asked[d].key
        OBVIOUS
      <3>1. MadeFor(a, j) => MadeFor(bucket[d], asked[d].key)'
        BY <1>2 DEF MadeFor
      <3>2. Current(j, a) => Current(asked[d].key, bucket[d])'
        BY <1>2 DEF Current
      <3>3. asked[d].at + Minute < now => asked'[d].at + Minute < now'
        BY <1>2, <2>2
      <3> QED
        BY <1>2, <2>1, <3>1, <3>2, <3>3 DEF Flying
    <2> QED
      BY <2>3, <2>4
  <1>4. ASSUME NEW j \in Limiter!BucketKeys PROVE Held(j)'
    <2>1. Held(j)
      BY <1>1
    <2>2. MadeFor(entries[j].bucket, j) => MadeFor(entries[j].bucket, j)'
      BY <1>2 DEF MadeFor
    <2> QED
      BY <1>2, <2>1, <2>2 DEF Held, Limiter!CallsFor
  <1>5. ASSUME NEW k \in Limiter!BucketKeys \ trimmed PROVE Paid(k)'
    <2> SUFFICES ASSUME NEW rpm \in Nat, LimitedBy(k, rpm)', NEW from \in 0..(now + 1), NEW to \in 0..(now + 1),
                        from <= to
                 PROVE  Spent(k, from, to)' + rpm * (IF to = now + 1 THEN Left(k)' ELSE 0)
                          <= rpm * Budget(k, from, to)'
      BY <1>2 DEF Paid
    <2>1. LimitedBy(k, rpm)
      BY <1>2 DEF LimitedBy, Limiter!CallsFor
    <2>2. ASSUME NEW a \in 0..now, NEW z \in 0..now, a <= z
          PROVE  Spent(k, a, z) + rpm * (IF z = now THEN Left(k) ELSE 0) <= rpm * Budget(k, a, z)
      BY <1>1, <1>5, <2>1, <2>2 DEF Paid
    <2>3. Left(k) \in 0..Minute /\ Left(k)' \in 0..Minute /\ Left(k)' <= Left(k) + 1
      <3>1. Left(k) \in 0..Minute
        BY <1>1, LeftBounds
      <3>2. CASE k \in DOMAIN entries
        <4> PICK held : held = buckets[entries[k].bucket]
          OBVIOUS
        <4>1. held \in Limiter!Buckets
          BY <1>1, <3>2 DEF MapTypes, CallTypes, Made
        <4>2. Left(k) = Limiter!Level(held, now) /\ Left(k)' = Limiter!Level(held, now + 1)
          BY <1>2, <3>2 DEF Left
        <4>3. Limiter!Level(held, now + 1) \in 0..Minute
          BY <1>2, <4>1, LevelBounds
        <4> QED
          BY <1>1, <1>2, <3>1, <4>1, <4>2, <4>3, LevelTicks
      <3>3. CASE k \notin DOMAIN entries
        BY <1>2, <3>3 DEF Left
      <3> QED
        BY <3>1, <3>2, <3>3
    <2>4. /\ Spent(k, from, to)' = Spent(k, from, to) /\ Budget(k, from, to)' = Budget(k, from, to)
          /\ Spent(k, from, to) \in Nat /\ Budget(k, from, to) \in Nat
      <3>1. Between(k, from, to)' = Between(k, from, to) /\ Delay' = Delay
        BY <1>2 DEF Between, Limiter!Allowed, Limiter!CallsFor, Delay
      <3>2. Cardinality(Between(k, from, to)) \in Nat
            /\ Limiter!SumFunctionOnSet(Delay, Between(k, from, to)) \in Nat
        BY <1>1, AllowedFinite
      <3>3. to - from \in Nat
        BY <1>2
      <3> QED
        BY <1>1, <3>1, <3>2, <3>3, SameLedger DEF Spent, Budget
    <2>5. CASE to <= now
      <3>1. Spent(k, from, to) + rpm * (IF to = now THEN Left(k) ELSE 0) <= rpm * Budget(k, from, to)
        BY <1>1, <2>2, <2>5
      <3>2. rpm * (IF to = now THEN Left(k) ELSE 0) \in Nat /\ rpm * Budget(k, from, to) \in Nat
        BY <2>3, <2>4
      <3>3. to # now + 1 /\ rpm * 0 = 0
        BY <1>1, <2>5
      <3> QED
        BY <2>4, <3>1, <3>2, <3>3
    <2>6. CASE to = now + 1
      <3>1. \A c \in Limiter!Allowed(k) : endedAt[c] \in Nat /\ endedAt[c] <= now
        BY <1>1, CallNumbers DEF Clocks, Limiter!Allowed, Limiter!CallsFor
      <3>2. CASE from <= now
        <4>1. Between(k, from, to) = Between(k, from, now)
          BY <1>1, <2>6, <3>1, <3>2 DEF Between
        <4>2. Spent(k, from, to) = Spent(k, from, now) /\ Budget(k, from, to) = Budget(k, from, now) + 1
          <5>1. Limiter!SumFunctionOnSet(Delay, Between(k, from, now)) \in Nat
            BY <1>1, AllowedFinite
          <5> QED
            BY <1>1, <2>6, <3>2, <4>1, <5>1 DEF Spent, Budget
        <4>3. Spent(k, from, now) + rpm * Left(k) <= rpm * Budget(k, from, now)
          BY <1>1, <2>2, <3>2
        <4> PICK left, rest, spent, budget :
              left = Left(k) /\ rest = Left(k)' /\ spent = Spent(k, from, now) /\ budget = Budget(k, from, now)
          OBVIOUS
        <4>4. left \in Nat /\ rest \in Nat /\ rest <= left + 1 /\ spent \in Nat /\ budget \in Nat
          <5>1. budget \in Nat
            <6>1. Limiter!SumFunctionOnSet(Delay, Between(k, from, now)) \in Nat
              BY <1>1, AllowedFinite
            <6> QED
              BY <1>1, <3>2, <6>1 DEF Budget
          <5> QED
            BY <2>3, <2>4, <4>2, <5>1
        <4>5. rpm * rest <= rpm * (left + 1)
          <5> PICK more : more = left + 1
            OBVIOUS
          <5> QED
            BY <4>4
        <4>6. rpm * (left + 1) = rpm * left + rpm /\ rpm * (budget + 1) = rpm * budget + rpm
          BY <4>4
        <4>7. rpm * rest \in Nat /\ rpm * left \in Nat /\ rpm * budget \in Nat
          BY <4>4
        <4>8. spent + rpm * rest <= rpm * (budget + 1)
          BY <4>3, <4>4, <4>5, <4>6, <4>7
        <4> QED
          BY <2>4, <2>6, <4>2, <4>8
      <3>3. CASE from = now + 1
        <4>1. Between(k, from, to) = {}
          BY <1>1, <3>1, <3>3 DEF Between
        <4>2. Spent(k, from, to) = 0 /\ Minute <= Budget(k, from, to)
          <5>1. Cardinality(Between(k, from, to)) = 0
            BY <4>1, FS_EmptySet
          <5>2. Limiter!SumFunctionOnSet(Delay, Between(k, from, to)) \in Nat
            BY <1>1, AllowedFinite
          <5>3. to - from = 0
            BY <1>1, <2>6, <3>3
          <5> QED
            BY <5>1, <5>2, <5>3 DEF Spent, Budget
        <4> PICK rest, budget : rest = Left(k)' /\ budget = Budget(k, from, to)
          OBVIOUS
        <4>3. rest \in Nat /\ budget \in Nat /\ rest <= budget
          BY <2>3, <2>4, <4>2
        <4>4. rpm * rest <= rpm * budget /\ rpm * rest \in Nat
          BY <4>3
        <4> QED
          BY <2>4, <2>6, <4>2, <4>4
      <3> QED
        BY <1>1, <2>6, <3>2, <3>3
    <2> QED
      BY <1>1, <2>5, <2>6
  <1>6. \A k \in Limiter!BucketKeys \ trimmed' : Paid(k)'
    BY <1>2, <1>5
  <1> QED
    BY <1>3, <1>4, <1>6 DEF RateInv

\* At first nobody has spent anything, and every key has a minute.
LEMMA RateBegins == Limiter!Init => RateInv
  <1> SUFFICES ASSUME Limiter!Init PROVE RateInv
    OBVIOUS
  <1> USE LimiterNumbers
  <1>1. LimiterInv
    BY LimiterBegins
  <1>2. ASSUME NEW c \in Limiter!Calls PROVE Flying(c) /\ Clocks(c)
    BY DEF Limiter!Init, Flying, Clocks, Limiter!NoBucket
  <1>3. ASSUME NEW k \in Limiter!BucketKeys PROVE Held(k)
    BY DEF Limiter!Init, Held
  <1>4. ASSUME NEW k \in Limiter!BucketKeys PROVE Paid(k)
    <2> SUFFICES ASSUME NEW rpm \in Nat, NEW from \in 0..now, NEW to \in 0..now, from <= to
                 PROVE  Spent(k, from, to) + rpm * (IF to = now THEN Left(k) ELSE 0) <= rpm * Budget(k, from, to)
      BY DEF Paid
    <2>1. Between(k, from, to) = {} /\ Left(k) = Minute
      BY DEF Limiter!Init, Between, Limiter!Allowed, Limiter!CallsFor, Left
    <2>2. Cardinality(Between(k, from, to)) = 0
      BY <2>1, FS_EmptySet
    <2>3. Limiter!SumFunctionOnSet(Delay, Between(k, from, to)) \in Nat
      BY <1>1, <1>2, AllowedFinite
    <2> PICK left, budget : left = (IF to = now THEN Left(k) ELSE 0) /\ budget = Budget(k, from, to)
      OBVIOUS
    <2>4. now = 1
      BY DEF Limiter!Init
    <2>5. left \in Nat /\ budget \in Nat /\ left <= budget
      BY <2>1, <2>3, <2>4 DEF Budget
    <2>6. rpm * left <= rpm * budget /\ rpm * left \in Nat
      BY <2>5
    <2> QED
      BY <2>2, <2>6 DEF Spent
  <1> QED
    BY <1>1, <1>2, <1>3, <1>4 DEF RateInv

LEMMA RateKeeps ==
  ASSUME RateInv, Limiter!Next
  PROVE  RateInv'
  <1>1. LimiterInv'
    BY LimiterKeeps DEF RateInv
  <1>2. CASE \E c \in Limiter!Calls : Limiter!Allow(c)
    <2> PICK c \in Limiter!Calls : Limiter!Allow(c)
      BY <1>2
    <2>1. CASE Limiter!AllowN(c)
      BY <1>1, <2>1, AllowNDoes, TakePays, DeniedPays
    <2>2. CASE ~Limiter!AllowN(c)
      <3>1. PICK l \in Limits, time \in 1..now :
              now <= time + MaxDelay /\ Limiter!Find(c, Limiter!BucketKey(l.key), l.rpm, time)
        BY <2>2 DEF Limiter!Allow
      <3> QED
        BY <3>1, FindPays
    <2> QED
      BY <2>1, <2>2
  <1>3. CASE Limiter!Tick
    BY <1>1, <1>3, TickPays
  <1> QED
    BY <1>2, <1>3 DEF Limiter!Next

\* The calls between two that were allowed are those of the time between them, and
\* the largest limit asked for limits them all.
LEMMA RatePromise == RateInv => Limiter!RateHolds
  <1> SUFFICES ASSUME RateInv, NEW k \in Limiter!BucketKeys \ trimmed,
                      NEW a \in Limiter!Allowed(k), NEW z \in Limiter!Allowed(k), endedAt[a] <= endedAt[z]
               PROVE  Limiter!Cardinality(Limiter!Stretch(k, a, z)) * Minute
                        <= Limiter!Max({asked[c].rpm : c \in Limiter!CallsFor(k)})
                             * (Minute + endedAt[z] - endedAt[a]
                                  + Limiter!SumFunctionOnSet(Delay, Limiter!Stretch(k, a, z)))
    BY DEF Limiter!RateHolds, Delay
  <1> USE LimiterNumbers
  <1>1. LimiterInv /\ (\A c \in Limiter!Calls : Clocks(c)) /\ Paid(k) /\ now \in 0..MaxTime
    BY DEF RateInv, LimiterInv
  <1> PICK rpms, rpm, from, to :
        /\ rpms = {asked[c].rpm : c \in Limiter!CallsFor(k)} /\ rpm = Limiter!Max(rpms)
        /\ from = endedAt[a] /\ to = endedAt[z]
    OBVIOUS
  <1>2. from \in 0..now /\ to \in 0..now /\ from <= to
    BY <1>1, CallNumbers DEF Clocks, Limiter!Allowed, Limiter!CallsFor
  <1>3. Limiter!Stretch(k, a, z) = Between(k, from, to)
    BY DEF Limiter!Stretch, Between
  <1>4. rpm \in Nat /\ \A x \in rpms : x <= rpm
    <2>1. rpms \subseteq 0..Minute /\ rpms # {}
      <3>1. ASSUME NEW c \in Limiter!CallsFor(k) PROVE asked[c].rpm \in 0..Minute
        <4>1. asked[c].rpm \in Limiter!Rpms \cup {0}
          BY <1>1 DEF Limiter!CallsFor, LimiterInv, CallTypes, Limiter!Asks
        <4> QED
          BY <4>1
      <3>2. a \in Limiter!CallsFor(k)
        BY DEF Limiter!Allowed
      <3> QED
        BY <3>1, <3>2
    <2>2. \E x \in rpms : \A y \in rpms : y <= x
      BY <2>1, LargestOf
    <2>3. rpm \in rpms /\ \A y \in rpms : y <= rpm
      BY <2>2 DEF Limiter!Max
    <2> QED
      BY <2>1, <2>3
  <1>5. LimitedBy(k, rpm)
    BY <1>4 DEF LimitedBy
  <1>6. Spent(k, from, to) + rpm * (IF to = now THEN Left(k) ELSE 0) <= rpm * Budget(k, from, to)
    BY <1>1, <1>2, <1>4, <1>5 DEF Paid
  <1>7. /\ Cardinality(Between(k, from, to)) \in Nat
        /\ Limiter!SumFunctionOnSet(Delay, Between(k, from, to)) \in Nat
        /\ Left(k) \in Nat
    BY <1>1, AllowedFinite, LeftBounds
  <1>8. rpm * (IF to = now THEN Left(k) ELSE 0) \in Nat
    BY <1>4, <1>7
  <1>9. Spent(k, from, to) <= rpm * Budget(k, from, to)
    <2>1. Spent(k, from, to) \in Nat /\ Budget(k, from, to) \in Nat
      BY <1>1, <1>2, <1>7 DEF Spent, Budget
    <2>2. rpm * Budget(k, from, to) \in Nat
      BY <1>4, <2>1
    <2> QED
      BY <1>6, <1>8, <2>1, <2>2
  <1>10. Budget(k, from, to) = Minute + to - from + Limiter!SumFunctionOnSet(Delay, Between(k, from, to))
    BY <1>1, <1>2, <1>7 DEF Budget
  <1> QED
    BY <1>3, <1>9, <1>10, SameCardinality DEF Spent

\* While the limiter is exercised, its ledger; while it rests, nobody has asked.
RateMaps ==
  /\ MapsInv
  /\ busy = "limiter" => RateInv
  /\ busy # "limiter" => \A c \in Limiter!Calls : call[c] = "idle"

LEMMA RateMapsInit == Init => RateMaps
  <1> SUFFICES ASSUME Init PROVE RateMaps
    OBVIOUS
  <1>1. MapsInv /\ RateInv
    BY InitMaps, RateBegins DEF Init
  <1>2. \A c \in Limiter!Calls : call[c] = "idle"
    BY DEF Init, Limiter!Init
  <1> QED
    BY <1>1, <1>2 DEF RateMaps

LEMMA RateMapsKeep ==
  ASSUME RateMaps, [Next]_vars
  PROVE  RateMaps'
  <1>1. MapsInv'
    BY MapsKeep DEF RateMaps
  <1>2. CASE busy = "limiter" /\ Limiter!Next /\ UNCHANGED <<busy, verifying>>
    BY <1>1, <1>2, RateKeeps DEF RateMaps
  <1>3. CASE busy = "verifier" /\ Verifier!Next /\ UNCHANGED <<busy, limiting>>
    BY <1>1, <1>3 DEF RateMaps, limiting
  <1>4. CASE UNCHANGED vars
    <2>1. UNCHANGED <<busy, now, limiting, verifying>>
      BY <1>4 DEF vars
    <2>2. UNCHANGED <<busy, now, entries, buckets, call, asked, bucket, endedAt, trimmed>>
      BY <2>1 DEF limiting
    <2>3. LimiterInv => LimiterInv'
      BY <2>2 DEF LimiterInv, MapTypes, CallTypes, Made
    <2>4. ASSUME NEW c \in Limiter!Calls, Flying(c), Clocks(c) PROVE Flying(c)' /\ Clocks(c)'
      BY <2>2, <2>4 DEF Flying, Clocks, MadeFor, Current
    <2>5. ASSUME NEW k, Held(k) PROVE Held(k)'
      BY <2>2, <2>5 DEF Held, MadeFor, Limiter!CallsFor
    <2>6. ASSUME LimiterInv, \A c \in Limiter!Calls : Clocks(c), NEW k, Paid(k) PROVE Paid(k)'
      <3>1. Limiter!Allowed(k)' = Limiter!Allowed(k) /\ Left(k)' = Left(k)
        BY <2>2 DEF Limiter!Allowed, Limiter!CallsFor, Left
      <3>2. \A rpm \in Nat : LimitedBy(k, rpm)' => LimitedBy(k, rpm)
        BY <2>2 DEF LimitedBy, Limiter!CallsFor
      <3> QED
        BY <2>2, <2>6, <3>1, <3>2, SamePaid
    <2>7. RateInv => RateInv'
      BY <2>2, <2>3, <2>4, <2>5, <2>6 DEF RateInv
    <2> QED
      BY <1>1, <2>2, <2>7 DEF RateMaps
  <1> QED
    BY <1>2, <1>3, <1>4 DEF Next

\* Whatever the limits, the calls, their delays and the number of keys the map may
\* hold, no stretch of time sees more of a key's calls allowed than a full bucket,
\* what that time earns and what the late ones earn again (limiter.go: allowAt).
THEOREM BoundedMapsRate == Spec => []RateHolds
  <1>1. RateMaps => RateHolds
    <2>1. RateInv => RateHolds
      BY RatePromise DEF RateHolds
    <2>2. (\A c \in Limiter!Calls : call[c] = "idle") => RateHolds
      <3>1. (\A c \in Limiter!Calls : call[c] = "idle") => \A k : Limiter!Allowed(k) = {}
        BY DEF Limiter!Allowed, Limiter!CallsFor
      <3> QED
        BY <3>1 DEF RateHolds, Limiter!RateHolds
    <2> QED
      BY <2>1, <2>2 DEF RateMaps
  <1> QED
    BY <1>1, RateMapsInit, RateMapsKeep, PTL DEF Spec
=============================================================================
