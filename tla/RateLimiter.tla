---------------------------- MODULE RateLimiter ----------------------------
(***************************************************************************)
(* The rate limiter (internal/ratelimit/limiter.go): a token bucket for    *)
(* each key, in a map that lets idle keys go, and old ones when it is      *)
(* full.  A call reads the clock, finds its bucket under the mutex and     *)
(* takes a token after it has let go of the mutex, so calls reach a bucket *)
(* out of the order of their clocks, and one that has left the map.        *)
(*                                                                         *)
(* Calls are numbered in the order in which they take the mutex.  A bucket *)
(* is named by the call that made it, and its tokens are counted in the    *)
(* time it takes to earn them.                                             *)
(***************************************************************************)
EXTENDS CacheParameters, FiniteSetsExt

VARIABLES
  now,      \* time.Now()
  entries,  \* the map: a bucket and its last access for each key
  buckets,  \* the rate.Limiters
  pc,       \* where each call is
  asked,    \* its key and limit, and the time it read
  bucket,   \* the bucket it found
  \* History, read only by the properties:
  endedAt,  \* when the call took its token, 0 if it has not
  trimmed   \* keys whose bucket was dropped to make room

vars == <<now, entries, buckets, pc, asked, bucket, endedAt, trimmed>>

Calls == 1..MaxCalls
None == 0
BucketKey(k) == IF k = Blank THEN Global ELSE k
BucketKeys == {BucketKey(l.key) : l \in Limits}
Rpms == {l.rpm : l \in Limits}
Buckets == [rpm : Rpms \cup {0}, level : 0..Minute, last : 0..MaxTime]
NoBucket == [rpm |-> 0, level |-> 0, last |-> 0]
Entries == [bucket : Calls, lastAccess : 0..MaxTime]
Asks == [key : BucketKeys \cup {Blank}, rpm : Rpms \cup {0}, at : 0..MaxTime]

TypeOK ==
  /\ now \in 0..MaxTime
  /\ DOMAIN entries \subseteq BucketKeys
  /\ Cardinality(DOMAIN entries) <= MaxBuckets
  /\ \A k \in DOMAIN entries : entries[k] \in Entries
  /\ buckets \in [Calls -> Buckets]
  /\ pc \in [Calls -> {"idle", "found", "allowed", "denied"}]
  /\ asked \in [Calls -> Asks]
  /\ bucket \in [Calls -> Calls \cup {None}]
  /\ endedAt \in [Calls -> 0..MaxTime]
  /\ trimmed \subseteq BucketKeys

Init ==
  /\ now = 1
  /\ entries = <<>>
  /\ buckets = [c \in Calls |-> NoBucket]
  /\ pc = [c \in Calls |-> "idle"]
  /\ asked = [c \in Calls |-> [key |-> Blank, rpm |-> 0, at |-> 0]]
  /\ bucket = [c \in Calls |-> None]
  /\ endedAt = [c \in Calls |-> 0]
  /\ trimmed = {}

Goto(c, place) == pc' = [pc EXCEPT ![c] = place]

-----------------------------------------------------------------------------
(* The map, under the mutex                                                *)

\* rate.NewLimiter: a full bucket.
NewBucket(rpm) == [rpm |-> rpm, level |-> Minute, last |-> 0]

\* Mutant: an entry keeps the time of its first call.
AccessOnce(k, time) == IF k \in DOMAIN entries THEN entries[k].lastAccess ELSE time
Accessed(k, time) == time

\* The map with the entry of k, made by call c if there is none.
Touched(c, k, time) ==
  LET found == IF k \in DOMAIN entries THEN entries[k].bucket ELSE c
  IN [j \in DOMAIN entries \cup {k} |->
        IF j = k THEN [bucket |-> found, lastAccess |-> Accessed(k, time)] ELSE entries[j]]

\* evictIdle, first loop; a call with an older clock finds nobody idle.
InUse(items, time) ==
  Restrict(items, {k \in DOMAIN items : time <= items[k].lastAccess + EntryTTL})

\* evictIdle, when the map is over its bound.
Evicted(items, time) ==
  IF Cardinality(DOMAIN items) <= MaxBuckets THEN items ELSE Trim(InUse(items, time), MaxBuckets)

\* allowAt, as far as Unlock, by a call that read its clock at `time'.
Find(c, k, rpm, time) ==
  LET touched == Touched(c, k, time)
      kept == Evicted(touched, time)
  IN
  /\ pc[c] = "idle" /\ \A d \in 1..(c - 1) : pc[d] # "idle"
  /\ asked' = [asked EXCEPT ![c] = [key |-> k, rpm |-> rpm, at |-> time]]
  /\ bucket' = [bucket EXCEPT ![c] = touched[k].bucket]
  /\ buckets' = IF k \in DOMAIN entries THEN buckets ELSE [buckets EXCEPT ![c] = NewBucket(rpm)]
  /\ entries' = kept
  /\ trimmed' = IF Cardinality(DOMAIN touched) <= MaxBuckets THEN trimmed
                ELSE trimmed \cup (DOMAIN InUse(touched, time) \ DOMAIN kept)
  /\ Goto(c, "found")
  /\ UNCHANGED <<now, endedAt>>

-----------------------------------------------------------------------------
(* The bucket, after the mutex                                             *)

\* rate.Limiter: what the bucket holds for a call with this clock.  A clock that
\* is behind the bucket's earns nothing.
Level(b, time) == Min({Minute, b.level + (IF time > b.last THEN time - b.last ELSE 0)})

Interval(b) == Minute \div b.rpm

\* AllowN: a token taken sets the bucket's clock, backwards if need be; a token
\* refused changes nothing.
AllowN(c) ==
  LET b == buckets[bucket[c]]
      level == Level(b, asked[c].at)
  IN
  /\ pc[c] = "found"
  /\ \/ /\ level >= Interval(b)
        /\ buckets' = [buckets EXCEPT ![bucket[c]] =
                         [@ EXCEPT !.level = level - Interval(b), !.last = asked[c].at]]
        /\ endedAt' = [endedAt EXCEPT ![c] = now]
        /\ Goto(c, "allowed")
     \/ /\ level < Interval(b)
        /\ Goto(c, "denied")
        /\ UNCHANGED <<buckets, endedAt>>
  /\ bucket' = [bucket EXCEPT ![c] = None]
  /\ UNCHANGED <<now, entries, asked, trimmed>>

\* Time passes under a call, up to MaxDelay.
Tick ==
  /\ now < MaxTime
  /\ \A c \in Calls : pc[c] = "found" => now < asked[c].at + MaxDelay
  /\ now' = now + 1
  /\ UNCHANGED <<entries, buckets, pc, asked, bucket, endedAt, trimmed>>

\* The mutex is taken within the same MaxDelay after the clock is read.
Allow(c) ==
  \/ \E l \in Limits, time \in 1..now :
       now <= time + MaxDelay /\ Find(c, BucketKey(l.key), l.rpm, time)
  \/ AllowN(c)

Next == (\E c \in Calls : Allow(c)) \/ Tick

Spec == Init /\ [][Next]_vars

-----------------------------------------------------------------------------
(* What the limiter promises                                               *)

CallsFor(k) == {c \in Calls : asked[c].key = k}
Allowed(k) == {c \in CallsFor(k) : pc[c] = "allowed"}

\* The calls for k that were allowed between two of them.
Stretch(k, from, to) ==
  {c \in Allowed(k) : endedAt[from] <= endedAt[c] /\ endedAt[c] <= endedAt[to]}

\* Unless the map was too full to keep a key, no stretch of time sees more of its
\* calls allowed than a full bucket and what that time earns, at the largest
\* limit asked for; a call that was late adds its delay, which may be earned
\* twice.  Letting an idle key go forgives nothing.
RateHolds ==
  \A k \in BucketKeys \ trimmed : \A from, to \in Allowed(k) :
    LET rpm == Max({asked[c].rpm : c \in CallsFor(k)})
        calls == Stretch(k, from, to)
        delays == SumFunctionOnSet([c \in Calls |-> endedAt[c] - asked[c].at], calls)
    IN endedAt[from] <= endedAt[to] =>
         Cardinality(calls) * Minute <= rpm * (Minute + endedAt[to] - endedAt[from] + delays)
=============================================================================
