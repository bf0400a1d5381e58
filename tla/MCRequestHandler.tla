-------------------------- MODULE MCRequestHandler --------------------------
(* The request handler for TLC.                                             *)
EXTENDS RequestHandler, TLC

\* Requests are alike, and so are keys.
Symmetry == Permutations(Requests) \cup Permutations(Keys)
=============================================================================
