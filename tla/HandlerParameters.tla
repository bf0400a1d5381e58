------------------------- MODULE HandlerParameters -------------------------
(* What a request handler (RequestHandler) and a pair of them              *)
(* (ShadowRollout) are given.                                              *)
EXTENDS Naturals

CONSTANTS
  Requests,   \* the requests
  Rules,      \* rate_limit rules (and the default action, when it is one)
  Keys,       \* values limit.key resolves to
  Rpm         \* the tokens of a full bucket

ASSUME RpmAssumption == Rpm \in Nat \ {0}
ASSUME RulesAssumption == Rules # {} /\ Requests \cap Rules = {}
=============================================================================
