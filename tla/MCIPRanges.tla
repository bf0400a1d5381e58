---------------------------- MODULE MCIPRanges ----------------------------
(* The verifier for TLC.  A unit is five seconds: VerifyTimeout is 1 and the *)
(* client's timeout 2.  The backoff of 30 seconds is shortened to 4, so that *)
(* requests also come in after it while the networks are still stale.        *)
EXTENDS IPRanges
===========================================================================
