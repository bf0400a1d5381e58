------------------------------ MODULE AuditLog ------------------------------
(***************************************************************************)
(* What the buffered ledger promises to the code around it, without its    *)
(* queue, batches and goroutine: a best-effort log in arrival order.       *)
(*                                                                         *)
(* The log may refuse an event, and may lose one it took, but it settles   *)
(* events strictly in the order in which it took them, it answers a flush  *)
(* only when everything taken before the flush is settled, and it ends     *)
(* only when everything taken before the request to end is settled.        *)
(***************************************************************************)
EXTENDS Naturals

CONSTANTS Events, Flushers

VARIABLES
  rank,      \* the arrival number of each event and flush, 0 before it arrives
  clock,     \* the last arrival number given
  written,   \* events in the database
  lost,      \* events taken and not written
  refused,   \* how many events the log would not take
  answered,  \* flushes answered
  ending,    \* the log has been asked to end
  endAt,     \* the arrival number at that moment
  ended      \* the log takes no more steps

vars == <<rank, clock, written, lost, refused, answered, ending, endAt, ended>>

Pending == {e \in Events : rank[e] > 0} \ (written \cup lost)

Init ==
  /\ rank = [i \in Events \cup Flushers |-> 0]
  /\ clock = 0
  /\ written = {}
  /\ lost = {}
  /\ refused = 0
  /\ answered = {}
  /\ ending = FALSE
  /\ endAt = 0
  /\ ended = FALSE

\* An event or a flush arrives, even after the end: it then stays pending.
Arrive(i) ==
  /\ rank[i] = 0
  /\ clock' = clock + 1
  /\ rank' = [rank EXCEPT ![i] = clock + 1]
  /\ UNCHANGED <<written, lost, refused, answered, ending, endAt, ended>>

Refuse ==
  /\ refused' = refused + 1
  /\ UNCHANGED <<rank, clock, written, lost, answered, ending, endAt, ended>>

\* The oldest pending events are settled, the first of them by writing them.
Settle ==
  /\ ~ended
  /\ \E last \in 0..clock, lastWritten \in 0..clock :
       /\ written' = written \cup {e \in Pending : rank[e] <= lastWritten}
       /\ lost' = lost \cup {e \in Pending : lastWritten < rank[e] /\ rank[e] <= last}
  /\ UNCHANGED <<rank, clock, refused, answered, ending, endAt, ended>>

Answer(f) ==
  /\ ~ended
  /\ rank[f] > 0
  /\ \A e \in Pending : rank[e] > rank[f]
  /\ answered' = answered \cup {f}
  /\ UNCHANGED <<rank, clock, written, lost, refused, ending, endAt, ended>>

AskToEnd ==
  /\ ~ending
  /\ ending' = TRUE
  /\ endAt' = clock
  /\ UNCHANGED <<rank, clock, written, lost, refused, answered, ended>>

End ==
  /\ ending
  /\ \A e \in Pending : rank[e] > endAt
  /\ ended' = TRUE
  /\ UNCHANGED <<rank, clock, written, lost, refused, answered, ending, endAt>>

Next ==
  \/ \E i \in Events \cup Flushers : Arrive(i)
  \/ Refuse
  \/ Settle
  \/ \E f \in Flushers : Answer(f)
  \/ AskToEnd
  \/ End

Spec == Init /\ [][Next]_vars
=============================================================================
