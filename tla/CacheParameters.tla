-------------------------- MODULE CacheParameters --------------------------
(* What the rate limiter (RateLimiter), a reverse-DNS verifier (ReverseDNS) *)
(* and the two together (BoundedMaps) are given.                            *)
EXTENDS LRU

CONSTANTS
  MaxTime,       \* bound of the clock, for TLC
  \* The limiter:
  MaxCalls,      \* calls of Allow
  Limits,        \* what calls ask for: what limit.key resolves to, and limit.rpm
  Blank,         \* the blank key
  Global,        \* the key "global"
  Minute,        \* time.Minute
  EntryTTL,      \* defaultEntryTTL, ten minutes
  MaxBuckets,    \* defaultMaxEntries
  MaxDelay,      \* bound of the time a call takes
  \* The verifier:
  MaxRequests,   \* calls of Service.Verify for its bot
  IPs,           \* their addresses
  MaxNames,      \* PTR names of an address that have an allowed suffix, at most
  CacheTTL,      \* reverseDNSCacheTTL
  MaxResults,    \* reverseDNSCacheMaxEntries
  VerifyTimeout  \* the deadline of a request's context

ASSUME BoundsAssumption == MaxTime \in Nat \ {0} /\ {MaxCalls, MaxRequests} \subseteq Nat

\* A bucket is full again after a minute, long before its key may be let go.
\* Limits are positive (validate.go:191) and divide the minute; in nanoseconds
\* the rest of the division is nothing.
ASSUME LimiterAssumption ==
  /\ {Minute, MaxBuckets} \subseteq Nat \ {0}
  /\ {EntryTTL, MaxDelay} \subseteq Nat
  /\ Minute + MaxDelay <= EntryTTL
  /\ \A l \in Limits : l.rpm \in 1..Minute /\ Minute % l.rpm = 0

ASSUME VerifierAssumption ==
  /\ {MaxNames, MaxResults, VerifyTimeout} \subseteq Nat \ {0}
  /\ CacheTTL \in Nat
=============================================================================
