--------------------------- MODULE MCBoundedMaps ---------------------------
(* The bounded maps for TLC.                                               *)
EXTENDS BoundedMaps, TLC

\* Two keys that share a bucket and ask for different limits, and one apart.
MCLimits == {[key |-> "", rpm |-> 1], [key |-> "global", rpm |-> 2], [key |-> "a", rpm |-> 2]}

\* Addresses are alike.
Symmetry == Permutations(IPs)
=============================================================================
