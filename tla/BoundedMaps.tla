---------------------------- MODULE BoundedMaps ----------------------------
(***************************************************************************)
(* The two maps that lru.Trim bounds: the limiter's buckets and a          *)
(* verifier's results.  They share Trim and nothing else, so each is       *)
(* exercised while the other rests.                                        *)
(***************************************************************************)
EXTENDS CacheParameters

VARIABLES
  busy,  \* which of them is exercised
  now,
  entries, buckets, call, asked, bucket, endedAt, trimmed,
  items, step, ip, t, leader, result, answer

limiting == <<entries, buckets, call, asked, bucket, endedAt, trimmed>>
verifying == <<items, step, ip, t, leader, result, answer>>
vars == <<busy, now, limiting, verifying>>

Limiter == INSTANCE RateLimiter WITH pc <- call
Verifier == INSTANCE ReverseDNS WITH pc <- step

Init == busy \in {"limiter", "verifier"} /\ Limiter!Init /\ Verifier!Init

Next ==
  \/ busy = "limiter" /\ Limiter!Next /\ UNCHANGED <<busy, verifying>>
  \/ busy = "verifier" /\ Verifier!Next /\ UNCHANGED <<busy, limiting>>

Spec == Init /\ [][Next]_vars

-----------------------------------------------------------------------------
\* The promises of either.
TypeOK == Limiter!TypeOK /\ Verifier!TypeOK
RateHolds == Limiter!RateHolds
HonestAnswer == Verifier!HonestAnswer
EndsInTime == Verifier!EndsInTime
=============================================================================
