---------------------------- MODULE AsyncLedger ----------------------------
(***************************************************************************)
(* The buffered audit ledger (internal/ledger/async.go).  Request handlers *)
(* hand their event to a bounded queue and never wait; one writer          *)
(* goroutine moves events from the queue into a batch and commits batches  *)
(* to the database; Flush puts a barrier in the same queue and waits for   *)
(* it; Report, ExportJSONL and Prune flush and then go to the database;    *)
(* Close tells the writer to drain and waits for it.                       *)
(*                                                                         *)
(* A request writes exactly one event, so events are named by the request  *)
(* that writes them.  A queue item is an event or, for a barrier, the name *)
(* of the call that waits on its ack channel.                              *)
(***************************************************************************)
EXTENDS Naturals, Sequences, Functions

CONSTANTS
  Events,        \* the events of the requests (module.go writes one each)
  Flushers,      \* callers of Flush, Report, ExportJSONL or Prune
  Closers,       \* callers of Close
  QueueSize,     \* asyncQueueSize
  BatchSize,     \* asyncBatchSize
  Transactional  \* the inner ledger is a batchWriter: a batch is one transaction

ASSUME SizesAssumption == QueueSize \in Nat \ {0} /\ BatchSize \in Nat \ {0}
ASSUME ModeAssumption == Transactional \in BOOLEAN
ASSUME NamesAssumption == Events \cap Flushers = {}

VARIABLES
  queue,     \* the channel's buffer
  batch,     \* the writer's local slice
  writer,    \* where the writer goroutine is
  after,     \* where it goes when commit returns
  barrier,   \* the barrier it is about to acknowledge
  draining,  \* the writer has seen quit
  table,     \* crawl_events in id order, deleted rows included
  pruned,    \* the rows Prune deleted
  lost,      \* events of batches the database refused
  dropped,   \* events refused by a full queue
  reported,  \* drops the writer has logged
  acked,     \* barriers whose ack channel is closed
  quit,      \* the quit channel is closed
  closed,    \* the inner ledger is closed
  handler,   \* the state of each request's WriteEvent
  flusher,   \* the state of each reader
  view,      \* the rows a Report or an ExportJSONL returned
  closer,    \* the state of each Close
  \* History, read only by the properties:
  clock,     \* how many items the queue has taken
  stamp,     \* the place of each item in that order, 0 before it is queued
  quitAt     \* the clock when quit was closed

clientVars == <<handler, flusher, view, closer>>
writerVars == <<batch, writer, after, barrier, draining, reported, acked>>
storeVars  == <<table, pruned, lost, closed>>
history    == <<clock, stamp, quitAt>>
vars == <<queue, dropped, quit, clientVars, writerVars, storeVars, history>>

None == "none"
Items == Events \cup Flushers

\* Events the writer is done with, for better or worse.
Settled == Range(table) \cup lost

TypeOK ==
  /\ queue \in Seq(Items) /\ Len(queue) <= QueueSize
  /\ batch \in Seq(Events) /\ Len(batch) <= BatchSize
  /\ writer \in {"select", "commit", "ack", "report", "stopped"}
  /\ after \in {"select", "ack", "report"}
  /\ barrier \in Flushers \cup {None}
  /\ draining \in BOOLEAN
  /\ table \in Seq(Events)
  /\ pruned \subseteq Events
  /\ lost \subseteq Events
  /\ dropped \in Nat
  /\ reported \in Nat
  /\ acked \subseteq Flushers
  /\ quit \in BOOLEAN
  /\ closed \in BOOLEAN
  /\ handler \in [Events -> {"idle", "queued", "dropped"}]
  /\ flusher \in [Flushers -> {"idle", "sending", "waiting", "flushed", "read", "pruned", "failed"}]
  /\ view \in [Flushers -> SUBSET Events]
  /\ closer \in [Closers -> {"idle", "waiting", "done"}]
  /\ clock \in Nat
  /\ stamp \in [Items -> Nat]
  /\ quitAt \in Nat

Init ==
  /\ queue = <<>>
  /\ batch = <<>>
  /\ writer = "select"
  /\ after = "select"
  /\ barrier = None
  /\ draining = FALSE
  /\ table = <<>>
  /\ pruned = {}
  /\ lost = {}
  /\ dropped = 0
  /\ reported = 0
  /\ acked = {}
  /\ quit = FALSE
  /\ closed = FALSE
  /\ handler = [e \in Events |-> "idle"]
  /\ flusher = [f \in Flushers |-> "idle"]
  /\ view = [f \in Flushers |-> {}]
  /\ closer = [c \in Closers |-> "idle"]
  /\ clock = 0
  /\ stamp = [i \in Items |-> 0]
  /\ quitAt = 0

-----------------------------------------------------------------------------
(* Request handlers                                                        *)

RoomForEver == TRUE      \* mutant: the queue grows without bound
Room == Len(queue) < QueueSize

PutFirst(i) == <<i>> \o queue      \* mutant: the newest item is taken first
Put(i) == Append(queue, i)

Enqueue(i) ==
  /\ Room
  /\ queue' = Put(i)
  /\ clock' = clock + 1
  /\ stamp' = [stamp EXCEPT ![i] = clock + 1]
  /\ UNCHANGED quitAt

\* WriteEvent's select has a default branch: it takes the free slot or counts
\* a drop, whether or not the writer is still there.
WriteEvent(e) ==
  /\ handler[e] = "idle"
  /\ \/ /\ Enqueue(e)
        /\ handler' = [handler EXCEPT ![e] = "queued"]
        /\ UNCHANGED dropped
     \/ /\ ~Room
        /\ dropped' = dropped + 1
        /\ handler' = [handler EXCEPT ![e] = "dropped"]
        /\ UNCHANGED <<queue, history>>
  /\ UNCHANGED <<quit, flusher, view, closer, writerVars, storeVars>>

-----------------------------------------------------------------------------
(* Flush, and the operations that flush first                              *)

SetFlusher(f, state) == flusher' = [flusher EXCEPT ![f] = state]

CallFlush(f) ==
  /\ flusher[f] = "idle"
  /\ SetFlusher(f, "sending")
  /\ UNCHANGED <<queue, dropped, quit, handler, view, closer, writerVars, storeVars, history>>

\* The barrier takes a slot like any event; with no default branch, Flush waits
\* for one.
SendBarrier(f) ==
  /\ flusher[f] = "sending"
  /\ Enqueue(f)
  /\ SetFlusher(f, "waiting")
  /\ UNCHANGED <<dropped, quit, handler, view, closer, writerVars, storeVars>>

\* Mutants: Flush does not watch stopped; it returns once its barrier is queued.
FlushedIgnoringStop(f) == flusher[f] = "waiting" /\ f \in acked
FlushedWithoutAck(f) == flusher[f] = "waiting"

\* <-ack, or <-stopped in either select: Flush returns nil.
Flushed(f) ==
  \/ flusher[f] = "waiting" /\ f \in acked
  \/ flusher[f] \in {"sending", "waiting"} /\ writer = "stopped"

FlushReturns(f) ==
  /\ Flushed(f)
  /\ SetFlusher(f, "flushed")
  /\ UNCHANGED <<queue, dropped, quit, handler, view, closer, writerVars, storeVars, history>>

\* <-ctx.Done() in either select.  The barrier, once sent, stays in the queue.
FlushCancelled(f) ==
  /\ flusher[f] \in {"sending", "waiting"}
  /\ SetFlusher(f, "failed")
  /\ UNCHANGED <<queue, dropped, quit, handler, view, closer, writerVars, storeVars, history>>

\* Report and ExportJSONL read what the table holds now; a closed database
\* answers with an error.
Read(f) ==
  /\ flusher[f] = "flushed"
  /\ IF closed
     THEN SetFlusher(f, "failed") /\ UNCHANGED view
     ELSE /\ SetFlusher(f, "read")
          /\ view' = [view EXCEPT ![f] = Range(table) \ pruned]
  /\ UNCHANGED <<queue, dropped, quit, handler, closer, writerVars, storeVars, history>>

\* Prune deletes the rows older than a cutoff.  A row's time is when its request
\* began, which says nothing of its place in the table.
Prune(f) ==
  /\ flusher[f] = "flushed"
  /\ ~closed
  /\ \E old \in SUBSET Range(table) : pruned' = pruned \cup old
  /\ SetFlusher(f, "pruned")
  /\ UNCHANGED <<queue, dropped, quit, handler, view, closer, writerVars, table, lost, closed, history>>

-----------------------------------------------------------------------------
(* Close                                                                   *)

CallClose(c) ==
  /\ closer[c] = "idle"
  /\ closer' = [closer EXCEPT ![c] = "waiting"]
  /\ quit' = TRUE
  /\ quitAt' = IF quit THEN quitAt ELSE clock
  /\ UNCHANGED <<queue, dropped, handler, flusher, view, writerVars, storeVars, clock, stamp>>

CloseInner(c) ==
  /\ closer[c] = "waiting"
  /\ writer = "stopped"
  /\ closer' = [closer EXCEPT ![c] = "done"]
  /\ closed' = TRUE
  /\ UNCHANGED <<queue, dropped, quit, handler, flusher, view, writerVars, table, pruned, lost, history>>

-----------------------------------------------------------------------------
(* The writer goroutine                                                    *)

StartCommit(next) == writer' = "commit" /\ after' = next

\* Mutants: the ticker reports drops and leaves the batch to fill; a barrier is
\* acknowledged without the commit.
StartReport == writer' = "report" /\ UNCHANGED after
StartAck == writer' = "ack" /\ UNCHANGED after

CommitThenReport == StartCommit("report")
CommitThenAck == StartCommit("ack")

\* accept, for an event: commit at once when the batch is full.
AcceptEvent(e) ==
  /\ batch' = Append(batch, e)
  /\ IF Len(batch) + 1 >= BatchSize
     THEN StartCommit("select")
     ELSE UNCHANGED <<writer, after>>
  /\ UNCHANGED barrier

\* accept, for a barrier: commit what came before it, then close its ack.
AcceptBarrier(f) ==
  /\ CommitThenAck
  /\ barrier' = f
  /\ UNCHANGED batch

Receive ==
  /\ writer = "select"
  /\ queue # <<>>
  /\ queue' = Tail(queue)
  /\ \/ Head(queue) \in Events /\ AcceptEvent(Head(queue))
     \/ Head(queue) \in Flushers /\ AcceptBarrier(Head(queue))
  /\ UNCHANGED <<dropped, quit, clientVars, draining, reported, acked, storeVars, history>>

Tick ==
  /\ writer = "select"
  /\ ~draining
  /\ CommitThenReport
  /\ UNCHANGED <<queue, dropped, quit, clientVars, batch, barrier, draining, reported, acked, storeVars, history>>

\* <-l.quit: from here on the writer only takes what is queued already.
StartDrain ==
  /\ writer = "select"
  /\ quit /\ ~draining
  /\ draining' = TRUE
  /\ UNCHANGED <<queue, dropped, quit, clientVars, batch, writer, after, barrier, reported, acked, storeVars, history>>

DrainedAtOnce == TRUE      \* mutant: quit ends the loop whatever is queued
Drained == queue = <<>>

\* The default branch of the drain loop.
FinishDrain ==
  /\ writer = "select"
  /\ draining
  /\ Drained
  /\ CommitThenReport
  /\ UNCHANGED <<queue, dropped, quit, clientVars, batch, barrier, draining, reported, acked, storeVars, history>>

\* What of the batch reaches the table: everything or nothing of a transaction,
\* any prefix when events are inserted one by one.  An error is only logged, so
\* a commit that succeeded and reported failure looks like one that succeeded.
Written == IF Transactional THEN {0, Len(batch)} ELSE 0..Len(batch)

\* Mutant: a batch that failed is kept for the next commit.
KeptOnError(n) == IF n = Len(batch) THEN <<>> ELSE batch
Kept(n) == <<>>

Commit ==
  /\ writer = "commit"
  /\ \E n \in Written :
       /\ table' = table \o SubSeq(batch, 1, n)
       /\ lost' = lost \cup {batch[i] : i \in (n + 1)..Len(batch)}
       /\ batch' = Kept(n)
  /\ writer' = after
  /\ after' = "select"
  /\ UNCHANGED <<queue, dropped, quit, clientVars, barrier, draining, reported, acked, pruned, closed, history>>

CloseAck ==
  /\ writer = "ack"
  /\ acked' = acked \cup {barrier}
  /\ barrier' = None
  /\ writer' = "select"
  /\ UNCHANGED <<queue, dropped, quit, clientVars, batch, after, draining, reported, storeVars, history>>

\* Mutant: drops are logged only at the end.
LoggedAtEnd == IF draining THEN dropped ELSE reported

AfterReport == IF draining THEN "stopped" ELSE "select"
Logged == dropped

\* reportDropped, and the return that follows it when the drain is over.
ReportDropped ==
  /\ writer = "report"
  /\ reported' = Logged
  /\ writer' = AfterReport
  /\ UNCHANGED <<queue, dropped, quit, clientVars, batch, after, barrier, draining, acked, storeVars, history>>

-----------------------------------------------------------------------------
Writer == Receive \/ Tick \/ StartDrain \/ FinishDrain \/ Commit \/ CloseAck \/ ReportDropped

Flush(f) == CallFlush(f) \/ SendBarrier(f) \/ FlushReturns(f) \/ FlushCancelled(f)

Next ==
  \/ \E e \in Events : WriteEvent(e)
  \/ \E f \in Flushers : Flush(f) \/ Read(f) \/ Prune(f)
  \/ \E c \in Closers : CallClose(c) \/ CloseInner(c)
  \/ Writer

\* The writer is a goroutine that never stops by itself; its select picks at
\* random among the ready cases, so none of them is passed over for ever.  A
\* sender that waits for a slot is served in turn.
Fairness ==
  /\ WF_vars(Writer)
  /\ SF_vars(Receive) /\ SF_vars(Tick) /\ SF_vars(StartDrain)
  /\ \A f \in Flushers : SF_vars(SendBarrier(f)) /\ WF_vars(FlushReturns(f))
  /\ \A c \in Closers : WF_vars(CloseInner(c))

SafeSpec == Init /\ [][Next]_vars
Spec == SafeSpec /\ Fairness

-----------------------------------------------------------------------------
(* What the ledger promises                                                *)

Pipeline == table \o batch \o queue

\* Ordering is preserved and nothing is taken twice: along the way from the
\* queue through the batch to the table, items stand in the order in which the
\* queue took them (async.go: "single queue, single writer").
FIFO ==
  \A i, j \in 1..Len(Pipeline) : i < j => stamp[Pipeline[i]] < stamp[Pipeline[j]]

\* An event the queue took is in exactly one place: waiting, written, or lost
\* with a batch the database refused.  A failed batch is neither kept nor
\* retried, so a row that did reach the table is never written again.
NothingForgotten ==
  \A e \in Events :
    /\ stamp[e] > 0 <=> e \in Range(Pipeline) \cup lost
    /\ ~(e \in Range(Pipeline) /\ e \in lost)

\* When a flush's ack is closed, the writer has dealt with every event that was
\* queued before the barrier, whichever batches they were in.
FlushBarrier ==
  \A f \in acked, e \in Events : 0 < stamp[e] /\ stamp[e] < stamp[f] => e \in Settled

\* Close returns after the writer has dealt with every event accepted before
\* quit was closed, and nothing is written once the database is closed.
CloseDrains ==
  closed => /\ batch = <<>>
            /\ writer = "stopped"
            /\ \A e \in Events : 0 < stamp[e] /\ stamp[e] <= quitAt => e \in Settled

\* What a reader may count on: all that was queued before its barrier, or what
\* was queued before Close if the barrier came too late to be acknowledged.
InTime(f) == f \in acked \/ (stamp[f] > 0 /\ (quit => stamp[f] <= quitAt))
Horizon(f) == IF InTime(f) THEN stamp[f] - 1 ELSE quitAt

\* A Report or an ExportJSONL shows every event accepted before its flush that
\* was neither lost nor pruned; when the writer had stopped before it took the
\* barrier, every such event accepted before Close.
ReadYourWrites ==
  \A f \in Flushers, e \in Events :
    /\ flusher[f] = "read"
    /\ 0 < stamp[e] /\ stamp[e] <= Horizon(f)
    => e \in view[f] \cup lost \cup pruned

\* A Flush that nobody cancels returns, whatever the writer and the handlers do,
\* Close included; and Close returns: the drain ends, and no barrier or commit
\* can hold it up.
CallsReturn ==
  /\ \A f \in Flushers :
       flusher[f] \in {"sending", "waiting"} ~> flusher[f] \in {"flushed", "read", "pruned", "failed"}
  /\ \A c \in Closers : closer[c] = "waiting" ~> closer[c] = "done"

\* An accepted event is settled without a flush and however light the traffic,
\* unless it was accepted after Close.
EventsSettle ==
  \A e \in Events : stamp[e] > 0 ~> e \in Settled \/ (quit /\ stamp[e] > quitAt)

\* Every drop is logged in the end, unless the writer has made its last report.
DropsReported == dropped > reported ~> dropped = reported \/ writer = "stopped"

\* What the comment on Flush says (async.go:93, ledger.go:25): everything queued
\* before the call has been committed when Flush returns nil.
FlushCommits ==
  \A f \in Flushers, e \in Events :
    flusher[f] = "flushed" /\ f \in acked /\ 0 < stamp[e] /\ stamp[e] < stamp[f]
      => e \in Range(table)

\* The detailed ledger implements the abstract log.
Log == INSTANCE AuditLog WITH
  rank <- stamp, written <- Range(table), refused <- dropped, answered <- acked,
  ending <- quit, endAt <- quitAt, ended <- (writer = "stopped")

\* Every step of the queue, the writer and the callers is a step of the log or
\* invisible to it: batching, barriers and draining keep the log's promises.
ImplementsLog == Log!Spec
=============================================================================
