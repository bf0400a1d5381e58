---------------------------- MODULE MCDeployment ----------------------------
(* A small deployment for TLC.                                              *)
EXTENDS Deployment, TLC

CONSTANTS c1

MCCommands == {c1}
MCHandles == Generations \cup MCCommands

\* A second of two milliseconds, each in three parts: the last part of a second,
\* which is rounded into the next one, and a part there that is rounded down.
MCInstants == {[second |-> 0, fraction |-> 5], [second |-> 1, fraction |-> 1]}

\* Requests are alike.
Symmetry == Permutations(Requests)
=============================================================================
