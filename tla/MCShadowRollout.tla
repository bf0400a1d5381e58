-------------------------- MODULE MCShadowRollout --------------------------
(* Enforce beside shadow for TLC.                                          *)
EXTENDS ShadowRollout, TLC

\* Requests are alike, and so are keys.
Symmetry == Permutations(Requests) \cup Permutations(Keys)
=============================================================================
