--------------------------- MODULE MCAsyncLedger ---------------------------
(* Small instances of AsyncLedger for TLC.                                 *)
EXTENDS AsyncLedger, TLC

CONSTANTS e1, e2, e3, f1, f2, c1

MCEvents == {e1, e2, e3}
MCTwoEvents == {e1, e2}
MCFlushers == {f1}
MCTwoFlushers == {f1, f2}
MCClosers == {c1}

\* Nothing distinguishes two requests, or two readers.
Symmetry == Permutations(MCEvents) \cup Permutations(MCTwoFlushers)
=============================================================================
