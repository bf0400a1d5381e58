------------------------- MODULE AsyncLedgerProofs -------------------------
(***************************************************************************)
(* Theorems about AsyncLedger, for any sets of events and callers and any  *)
(* sizes of queue and batch.                                               *)
(***************************************************************************)
EXTENDS AsyncLedger, SequenceTheorems, TLAPS

-----------------------------------------------------------------------------
(* The range of the sequences that the actions build                       *)

LEMMA RangeMember ==
  ASSUME NEW S, NEW s \in Seq(S), NEW x
  PROVE  x \in Range(s) <=> \E i \in 1..Len(s) : s[i] = x
  BY RangeEquality, SMT

LEMMA RangeEmpty ==
  ASSUME NEW x
  PROVE  x \notin Range(<<>>)
  <1>1. <<>> \in Seq({x}) /\ Len(<<>>) = 0
    BY EmptySeq
  <1>2. 1..Len(<<>>) = {}
    BY <1>1
  <1> QED
    BY <1>1, <1>2, RangeEquality

LEMMA RangeAppend ==
  ASSUME NEW S, NEW s \in Seq(S), NEW x \in S, NEW y
  PROVE  y \in Range(Append(s, x)) <=> y \in Range(s) \/ y = x
  <1> DEFINE t == Append(s, x)
  <1>1. /\ t \in Seq(S)
        /\ Len(s) \in Nat
        /\ Len(t) = Len(s) + 1
        /\ \A i \in 1..Len(s) : t[i] = s[i]
        /\ t[Len(s) + 1] = x
    BY AppendProperties, LenProperties
  <1> HIDE DEF t
  <1>2. y \in Range(t) <=> \E i \in 1..Len(t) : t[i] = y
    BY <1>1, RangeMember
  <1>3. y \in Range(s) <=> \E i \in 1..Len(s) : s[i] = y
    BY RangeMember
  <1>4. y \in Range(t) <=> y \in Range(s) \/ y = x
    BY <1>1, <1>2, <1>3
  <1> QED
    BY <1>4 DEF t

LEMMA RangeTail ==
  ASSUME NEW S, NEW s \in Seq(S), s # <<>>, NEW y
  PROVE  y \in Range(s) <=> y \in Range(Tail(s)) \/ y = Head(s)
  <1> DEFINE t == Tail(s)
  <1>1. /\ t \in Seq(S)
        /\ Len(s) \in Nat \ {0}
        /\ Len(t) = Len(s) - 1
        /\ \A i \in 1..Len(t) : t[i] = s[i + 1]
    BY HeadTailProperties, EmptySeq
  <1>2. Head(s) = s[1]
    OBVIOUS
  <1> HIDE DEF t
  <1>3. y \in Range(s) <=> \E i \in 1..Len(s) : s[i] = y
    BY RangeMember
  <1>4. y \in Range(t) <=> \E i \in 1..Len(t) : t[i] = y
    BY <1>1, RangeMember
  <1>5. ASSUME NEW i \in 1..Len(s), i # 1
        PROVE  i - 1 \in 1..Len(t) /\ t[i - 1] = s[i]
    BY <1>1, <1>5
  <1>6. \A i \in 1..Len(t) : i + 1 \in 1..Len(s)
    BY <1>1
  <1>7. 1 \in 1..Len(s)
    BY <1>1
  <1>8. y \in Range(s) <=> y \in Range(t) \/ y = s[1]
    BY <1>1, <1>3, <1>4, <1>5, <1>6, <1>7
  <1> QED
    BY <1>2, <1>8 DEF t

LEMMA RangeConcat ==
  ASSUME NEW S, NEW s \in Seq(S), NEW t \in Seq(S), NEW y
  PROVE  y \in Range(s \o t) <=> y \in Range(s) \/ y \in Range(t)
  BY RangeConcatenation

LEMMA RangeSplit ==
  ASSUME NEW S, NEW s \in Seq(S), NEW n \in 0..Len(s), NEW y
  PROVE  /\ SubSeq(s, 1, n) \in Seq(S)
         /\ y \in Range(SubSeq(s, 1, n)) <=> \E i \in 1..n : s[i] = y
         /\ y \in Range(s) <=> \/ y \in Range(SubSeq(s, 1, n))
                               \/ y \in {s[i] : i \in (n + 1)..Len(s)}
  <1> DEFINE t == SubSeq(s, 1, n)
  <1>1. Len(s) \in Nat /\ \A i \in 1..n : s[i] \in S
    BY LenProperties, ElementOfSeq
  <1>2. /\ t \in Seq(S)
        /\ Len(t) = n
        /\ \A i \in 1..n : t[i] = s[i]
    BY <1>1, SubSeqProperties
  <1> HIDE DEF t
  <1>3. y \in Range(t) <=> \E i \in 1..Len(t) : t[i] = y
    BY <1>2, RangeMember
  <1>4. y \in Range(s) <=> \E i \in 1..Len(s) : s[i] = y
    BY RangeMember
  <1>5. y \in Range(t) <=> \E i \in 1..n : s[i] = y
    BY <1>2, <1>3
  <1>6. \A i \in 1..Len(s) : i \in 1..n \/ i \in (n + 1)..Len(s)
    BY <1>1
  <1>7. 1..n \subseteq 1..Len(s) /\ (n + 1)..Len(s) \subseteq 1..Len(s)
    BY <1>1
  <1>8. y \in Range(s) <=> y \in Range(t) \/ y \in {s[i] : i \in (n + 1)..Len(s)}
    BY <1>4, <1>5, <1>6, <1>7
  <1> QED
    BY <1>2, <1>5, <1>8 DEF t

-----------------------------------------------------------------------------
(* Sequences sorted by a numbering of their elements                       *)

SortedBy(st, s) == \A i, j \in 1..Len(s) : i < j => st[s[i]] < st[s[j]]

LEMMA SortedEmpty == \A st : SortedBy(st, <<>>)
  <1>1. 1..Len(<<>>) = {}
    BY EmptySeq
  <1> QED
    BY <1>1 DEF SortedBy

LEMMA SortedSame ==
  ASSUME NEW S, NEW s \in Seq(S), NEW st, NEW st2, SortedBy(st, s),
         \A x \in Range(s) : st2[x] = st[x]
  PROVE  SortedBy(st2, s)
  <1>1. \A i \in 1..Len(s) : s[i] \in Range(s)
    BY RangeMember
  <1> QED
    BY <1>1 DEF SortedBy

LEMMA SortedAppend ==
  ASSUME NEW S, NEW s \in Seq(S), NEW x \in S, NEW st, SortedBy(st, s),
         \A y \in Range(s) : st[y] < st[x]
  PROVE  SortedBy(st, Append(s, x))
  <1> DEFINE t == Append(s, x)
  <1>1. /\ Len(s) \in Nat
        /\ Len(t) = Len(s) + 1
        /\ \A i \in 1..Len(s) : t[i] = s[i]
        /\ t[Len(s) + 1] = x
    BY AppendProperties, LenProperties
  <1>2. \A i \in 1..Len(s) : s[i] \in Range(s)
    BY RangeMember
  <1> HIDE DEF t
  <1>3. ASSUME NEW i \in 1..Len(t), NEW j \in 1..Len(t), i < j
        PROVE  st[t[i]] < st[t[j]]
    <2>1. i \in 1..Len(s)
      BY <1>1, <1>3
    <2>2. CASE j \in 1..Len(s)
      BY <1>1, <1>3, <2>1, <2>2 DEF SortedBy
    <2>3. CASE j = Len(s) + 1
      BY <1>1, <1>2, <2>1, <2>3
    <2> QED
      BY <1>1, <2>2, <2>3
  <1>4. SortedBy(st, t)
    BY <1>3 DEF SortedBy
  <1> QED
    BY <1>4 DEF t

LEMMA SortedTail ==
  ASSUME NEW S, NEW s \in Seq(S), s # <<>>, NEW st, SortedBy(st, s)
  PROVE  /\ SortedBy(st, Tail(s))
         /\ \A y \in Range(Tail(s)) : st[Head(s)] < st[y]
  <1> DEFINE t == Tail(s)
  <1>1. /\ t \in Seq(S)
        /\ Len(s) \in Nat \ {0}
        /\ Len(t) = Len(s) - 1
        /\ \A i \in 1..Len(t) : t[i] = s[i + 1]
    BY HeadTailProperties, EmptySeq
  <1>2. Head(s) = s[1]
    OBVIOUS
  <1> HIDE DEF t
  <1>3. \A i \in 1..Len(t) : i + 1 \in 1..Len(s) /\ 1 < i + 1
    BY <1>1
  <1>4. 1 \in 1..Len(s)
    BY <1>1
  <1>5. \A i, j \in 1..Len(t) : i < j => i + 1 < j + 1
    BY <1>1
  <1>6. SortedBy(st, t)
    BY <1>1, <1>3, <1>5 DEF SortedBy
  <1>7. ASSUME NEW y \in Range(t)
        PROVE  st[s[1]] < st[y]
    <2>1. PICK i \in 1..Len(t) : t[i] = y
      BY <1>1, <1>7, RangeMember
    <2>2. i + 1 \in 1..Len(s) /\ 1 < i + 1 /\ s[i + 1] = y
      BY <1>1, <1>3, <2>1
    <2> QED
      BY <1>4, <2>2 DEF SortedBy
  <1> QED
    BY <1>2, <1>6, <1>7 DEF t

LEMMA SortedConcat ==
  ASSUME NEW S, NEW s \in Seq(S), NEW t \in Seq(S), NEW st,
         SortedBy(st, s), SortedBy(st, t),
         \A x \in Range(s), y \in Range(t) : st[x] < st[y]
  PROVE  SortedBy(st, s \o t)
  <1> DEFINE u == s \o t
  <1>1. /\ Len(s) \in Nat /\ Len(t) \in Nat
        /\ Len(u) = Len(s) + Len(t)
        /\ \A i \in 1..(Len(s) + Len(t)) : u[i] = IF i <= Len(s) THEN s[i] ELSE t[i - Len(s)]
    BY ConcatProperties, LenProperties
  <1>2. /\ \A i \in 1..Len(s) : s[i] \in Range(s)
        /\ \A i \in 1..Len(t) : t[i] \in Range(t)
    BY RangeMember
  <1> HIDE DEF u
  <1>3. ASSUME NEW i \in 1..Len(u), NEW j \in 1..Len(u), i < j
        PROVE  st[u[i]] < st[u[j]]
    <2>1. CASE i <= Len(s) /\ j <= Len(s)
      <3>1. i \in 1..Len(s) /\ j \in 1..Len(s) /\ u[i] = s[i] /\ u[j] = s[j]
        BY <1>1, <2>1
      <3> QED
        BY <1>3, <3>1 DEF SortedBy
    <2>2. CASE i <= Len(s) /\ j > Len(s)
      <3>1. i \in 1..Len(s) /\ j - Len(s) \in 1..Len(t) /\ u[i] = s[i] /\ u[j] = t[j - Len(s)]
        BY <1>1, <2>2
      <3> QED
        BY <1>2, <3>1
    <2>3. CASE i > Len(s) /\ j > Len(s)
      <3>1. /\ i - Len(s) \in 1..Len(t) /\ j - Len(s) \in 1..Len(t)
            /\ i - Len(s) < j - Len(s)
            /\ u[i] = t[i - Len(s)] /\ u[j] = t[j - Len(s)]
        BY <1>1, <1>3, <2>3
      <3> QED
        BY <3>1 DEF SortedBy
    <2> QED
      BY <1>1, <1>3, <2>1, <2>2, <2>3
  <1>4. SortedBy(st, u)
    BY <1>3 DEF SortedBy
  <1> QED
    BY <1>4 DEF u

\* Cutting a sorted sequence in two: both parts are sorted and share nothing.
LEMMA SortedSplit ==
  ASSUME NEW S, NEW s \in Seq(S), NEW n \in 0..Len(s), NEW st \in [S -> Nat], SortedBy(st, s)
  PROVE  /\ SortedBy(st, SubSeq(s, 1, n))
         /\ \A i \in (n + 1)..Len(s) : s[i] \notin Range(SubSeq(s, 1, n))
  <1> DEFINE t == SubSeq(s, 1, n)
  <1>1. Len(s) \in Nat /\ \A i \in 1..Len(s) : s[i] \in S
    BY LenProperties, ElementOfSeq
  <1>2. /\ t \in Seq(S)
        /\ Len(t) = n
        /\ \A i \in 1..n : t[i] = s[i]
    BY <1>1, SubSeqProperties
  <1>3. \A y : y \in Range(t) <=> \E i \in 1..n : s[i] = y
    BY RangeSplit
  <1> HIDE DEF t
  <1>4. 1..n \subseteq 1..Len(s)
    BY <1>1
  <1>5. SortedBy(st, t)
    BY <1>2, <1>4 DEF SortedBy
  <1>6. ASSUME NEW i \in (n + 1)..Len(s), s[i] \in Range(t)
        PROVE  FALSE
    <2>1. PICK j \in 1..n : s[j] = s[i]
      BY <1>3, <1>6
    <2>2. j \in 1..Len(s) /\ i \in 1..Len(s) /\ j < i
      BY <1>1
    <2>3. st[s[j]] < st[s[i]] /\ st[s[i]] \in Nat
      BY <1>1, <2>2 DEF SortedBy
    <2> QED
      BY <2>1, <2>3
  <1> QED
    BY <1>5, <1>6 DEF t

-----------------------------------------------------------------------------
(* Types.  That a batch never exceeds its size needs to know where the     *)
(* writer is: it takes an item only with room in the batch.                *)

WriterOK ==
  /\ writer = "select" => Len(batch) < BatchSize
  /\ writer \in {"ack", "report", "stopped"} => batch = <<>>
  /\ writer # "commit" => after = "select"
  /\ after = "ack" \/ writer = "ack" => barrier \in Flushers

TypeInv == TypeOK /\ WriterOK

LEMMA InitTypeInv == Init => TypeInv
  <1> SUFFICES ASSUME Init PROVE TypeInv
    OBVIOUS
  <1>1. queue \in Seq(Items) /\ Len(queue) = 0
    BY EmptySeq DEF Init
  <1>2. batch \in Seq(Events) /\ Len(batch) = 0
    BY EmptySeq DEF Init
  <1>3. table \in Seq(Events)
    BY EmptySeq DEF Init
  <1>4. Len(queue) <= QueueSize /\ Len(batch) <= BatchSize /\ Len(batch) < BatchSize
    BY <1>1, <1>2, SizesAssumption
  <1>5. TypeOK
    BY <1>1, <1>2, <1>3, <1>4 DEF Init, TypeOK
  <1>6. WriterOK
    BY <1>4 DEF Init, WriterOK
  <1> QED
    BY <1>5, <1>6 DEF TypeInv

\* One step of a client keeps the types.
LEMMA ClientTypeInv ==
  ASSUME TypeInv,
         \/ \E e \in Events : WriteEvent(e)
         \/ \E f \in Flushers : Flush(f) \/ Read(f) \/ Prune(f)
         \/ \E c \in Closers : CallClose(c) \/ CloseInner(c)
  PROVE  TypeInv'
  <1> USE DEF TypeInv, TypeOK, WriterOK, clientVars, writerVars, storeVars, history
  <1>1. ASSUME NEW i \in Items, Enqueue(i)
        PROVE  /\ queue' \in Seq(Items) /\ Len(queue') <= QueueSize
               /\ clock' \in Nat /\ stamp' \in [Items -> Nat] /\ quitAt' \in Nat
    <2>1. queue' \in Seq(Items) /\ Len(queue') = Len(queue) + 1 /\ Len(queue) \in Nat
      BY <1>1, AppendProperties, LenProperties DEF Enqueue, Put
    <2> QED
      BY <1>1, <2>1, SizesAssumption DEF Enqueue, Room
  <1>2. CASE \E e \in Events : WriteEvent(e)
    <2> PICK e \in Events : WriteEvent(e)
      BY <1>2
    <2>1. e \in Items
      BY DEF Items
    <2>2. CASE Enqueue(e) /\ handler' = [handler EXCEPT ![e] = "queued"] /\ UNCHANGED dropped
      BY <1>1, <2>1, <2>2 DEF WriteEvent
    <2>3. CASE UNCHANGED <<queue, history>> /\ dropped' = dropped + 1
                 /\ handler' = [handler EXCEPT ![e] = "dropped"]
      BY <2>3 DEF WriteEvent
    <2> QED
      BY <2>2, <2>3 DEF WriteEvent
  <1>3. CASE \E f \in Flushers : Flush(f) \/ Read(f) \/ Prune(f)
    <2> PICK f \in Flushers : Flush(f) \/ Read(f) \/ Prune(f)
      BY <1>3
    <2> USE DEF SetFlusher
    <2>1. CASE CallFlush(f)
      BY <2>1 DEF CallFlush
    <2>2. CASE SendBarrier(f)
      <3>1. f \in Items
        BY DEF Items
      <3> QED
        BY <1>1, <2>2, <3>1 DEF SendBarrier
    <2>3. CASE FlushReturns(f)
      BY <2>3 DEF FlushReturns
    <2>4. CASE FlushCancelled(f)
      BY <2>4 DEF FlushCancelled
    <2>5. CASE Read(f)
      <3>1. Range(table) \subseteq Events
        BY RangeOfSeq
      <3>2. view' \in [Flushers -> SUBSET Events]
        BY <2>5, <3>1 DEF Read
      <3>3. /\ flusher' \in [Flushers -> {"idle", "sending", "waiting", "flushed", "read", "pruned", "failed"}]
            /\ UNCHANGED <<queue, dropped, quit, handler, closer, writerVars, storeVars, history>>
        BY <2>5 DEF Read
      <3> QED
        BY <3>2, <3>3
    <2>6. CASE Prune(f)
      <3>1. Range(table) \subseteq Events
        BY RangeOfSeq
      <3>2. pruned' \subseteq Events
        BY <2>6, <3>1 DEF Prune
      <3>3. /\ flusher' = [flusher EXCEPT ![f] = "pruned"]
            /\ UNCHANGED <<queue, dropped, quit, handler, view, closer, writerVars, table, lost, closed,
                           history>>
        BY <2>6 DEF Prune
      <3> QED
        BY <3>2, <3>3
    <2> QED
      BY <2>1, <2>2, <2>3, <2>4, <2>5, <2>6 DEF Flush
  <1>4. CASE \E c \in Closers : CallClose(c) \/ CloseInner(c)
    BY <1>4 DEF CallClose, CloseInner
  <1> QED
    BY <1>2, <1>3, <1>4

\* One step of the writer keeps the types.
LEMMA WriterTypeInv ==
  ASSUME TypeInv, Writer
  PROVE  TypeInv'
  <1> USE DEF TypeInv, TypeOK, WriterOK, clientVars, writerVars, storeVars, history
  <1> USE DEF StartCommit, CommitThenReport, CommitThenAck
  <1>0. Len(batch) \in Nat /\ Len(queue) \in Nat
    BY LenProperties
  <1>1. CASE Receive
    <2>1. /\ Head(queue) \in Items
          /\ Tail(queue) \in Seq(Items)
          /\ Len(Tail(queue)) = Len(queue) - 1
      BY <1>1, HeadTailProperties DEF Receive
    <2>2. queue' \in Seq(Items) /\ Len(queue') <= QueueSize
      BY <1>0, <1>1, <2>1, SizesAssumption DEF Receive
    <2>3. CASE Head(queue) \in Events /\ AcceptEvent(Head(queue))
      <3>1. batch' \in Seq(Events) /\ Len(batch') = Len(batch) + 1
        BY <2>3, AppendProperties DEF AcceptEvent
      <3>2. Len(batch) < BatchSize
        BY <1>1 DEF Receive
      <3> QED
        BY <1>0, <1>1, <2>2, <2>3, <3>1, <3>2, SizesAssumption DEF Receive, AcceptEvent
    <2>4. CASE Head(queue) \in Flushers /\ AcceptBarrier(Head(queue))
      BY <1>1, <2>2, <2>4 DEF Receive, AcceptBarrier
    <2> QED
      BY <1>1, <2>3, <2>4 DEF Receive
  <1>2. CASE Tick
    BY <1>2 DEF Tick
  <1>3. CASE StartDrain
    BY <1>3 DEF StartDrain
  <1>4. CASE FinishDrain
    BY <1>4 DEF FinishDrain
  <1>5. CASE Commit
    <2> PICK n \in Written :
          /\ table' = table \o SubSeq(batch, 1, n)
          /\ lost' = lost \cup {batch[i] : i \in (n + 1)..Len(batch)}
          /\ batch' = Kept(n)
      BY <1>5 DEF Commit
    <2>1. n \in 0..Len(batch)
      BY <1>0 DEF Written
    <2>2. \A i \in 1..Len(batch) : batch[i] \in Events
      BY ElementOfSeq
    <2>3. SubSeq(batch, 1, n) \in Seq(Events)
      BY <1>0, <2>1, <2>2, SubSeqProperties
    <2>4. table' \in Seq(Events)
      BY <2>3, ConcatProperties
    <2>5. lost' \subseteq Events
      BY <1>0, <2>1, <2>2
    <2>6. batch' = <<>> /\ batch' \in Seq(Events) /\ Len(batch') = 0
      BY EmptySeq DEF Kept
    <2> QED
      BY <1>5, <2>4, <2>5, <2>6, SizesAssumption DEF Commit
  <1>6. CASE CloseAck
    <2>1. Len(batch) = 0
      BY <1>6, EmptySeq DEF CloseAck
    <2> QED
      BY <1>6, <2>1, SizesAssumption DEF CloseAck
  <1>7. CASE ReportDropped
    <2>1. Len(batch) = 0
      BY <1>7, EmptySeq DEF ReportDropped
    <2> QED
      BY <1>7, <2>1, SizesAssumption DEF ReportDropped, Logged, AfterReport
  <1> QED
    BY <1>1, <1>2, <1>3, <1>4, <1>5, <1>6, <1>7 DEF Writer

LEMMA StepTypeInv == TypeInv /\ [Next]_vars => TypeInv'
  <1> SUFFICES ASSUME TypeInv, [Next]_vars PROVE TypeInv'
    OBVIOUS
  <1>1. CASE Next
    BY <1>1, ClientTypeInv, WriterTypeInv DEF Next
  <1>2. CASE UNCHANGED vars
    BY <1>2 DEF vars, clientVars, writerVars, storeVars, history, TypeInv, TypeOK, WriterOK
  <1> QED
    BY <1>1, <1>2

\* The ledger's types: the queue and the batch stay within their sizes, whatever
\* the traffic (async.go, asyncQueueSize and asyncBatchSize).
THEOREM LedgerTypes == SafeSpec => []TypeOK
  <1>1. TypeInv => TypeOK
    BY DEF TypeInv
  <1> QED
    BY <1>1, InitTypeInv, StepTypeInv, PTL DEF SafeSpec

-----------------------------------------------------------------------------
(* The inductive invariant                                                 *)

\* Arrival numbers are given once, in increasing order.
Stamps ==
  /\ \A i \in Items : stamp[i] <= clock
  /\ quitAt <= clock
  /\ \A e \in Events : handler[e] = "queued" <=> stamp[e] > 0
  /\ \A f \in Flushers : flusher[f] \in {"idle", "sending"} => stamp[f] = 0

Ahead(s, t) == \A x \in Range(s), y \in Range(t) : stamp[x] < stamp[y]

Order ==
  /\ SortedBy(stamp, table) /\ SortedBy(stamp, batch) /\ SortedBy(stamp, queue)
  /\ Ahead(table, batch) /\ Ahead(table, queue) /\ Ahead(batch, queue)

\* The barrier the writer has taken from the queue and not acknowledged yet.
Held == IF after = "ack" \/ writer = "ack" THEN {barrier} ELSE {}

EventPlaces ==
  \A e \in Events :
    /\ stamp[e] > 0 <=> e \in Range(table) \cup Range(batch) \cup Range(queue) \cup lost
    /\ e \in lost => e \notin Range(table) \cup Range(batch) \cup Range(queue)

BarrierPlaces ==
  \A f \in Flushers : stamp[f] > 0 <=> f \in Range(queue) \cup Held \cup acked

\* Nothing queued before a barrier is still in the queue once the writer has
\* taken the barrier.
Passed == \A f \in Held \cup acked, x \in Range(queue) : stamp[f] < stamp[x]

\* The writer has seen the queue empty after quit: it only commits what it holds.
Ending == draining /\ (writer \in {"report", "stopped"} \/ after = "report")

Stopping ==
  /\ draining => quit
  /\ writer = "stopped" => draining
  /\ closed => writer = "stopped"
  /\ Ending => \A x \in Range(queue) : quitAt < stamp[x]

\* Why a reader may read.
Readers ==
  \A f \in Flushers :
    flusher[f] \in {"flushed", "read", "pruned"} => f \in acked \/ writer = "stopped"

LedgerInv ==
  /\ TypeInv
  /\ Stamps
  /\ Order
  /\ EventPlaces
  /\ BarrierPlaces
  /\ Passed
  /\ FlushBarrier
  /\ Stopping
  /\ Readers
  /\ ReadYourWrites

LEMMA InitLedgerInv == Init => LedgerInv
  <1> SUFFICES ASSUME Init PROVE LedgerInv
    OBVIOUS
  <1>1. TypeInv
    BY InitTypeInv
  <1>2. /\ \A x : x \notin Range(queue) /\ x \notin Range(batch) /\ x \notin Range(table)
        /\ \A i \in Items : stamp[i] = 0
    BY RangeEmpty DEF Init
  <1>3. Held = {} /\ ~Ending
    BY DEF Init, Held, Ending
  <1>4. Stamps
    BY <1>2 DEF Init, Stamps, Items
  <1>5. Order
    BY <1>2, SortedEmpty DEF Init, Order, Ahead
  <1>6. EventPlaces /\ BarrierPlaces
    BY <1>2, <1>3 DEF Init, EventPlaces, BarrierPlaces, Items
  <1>7. Passed /\ FlushBarrier /\ Stopping
    BY <1>2, <1>3 DEF Init, Passed, FlushBarrier, Stopping
  <1>8. Readers /\ ReadYourWrites
    BY DEF Init, Readers, ReadYourWrites
  <1> QED
    BY <1>1, <1>4, <1>5, <1>6, <1>7, <1>8 DEF LedgerInv

\* The sequences hold items of the right kind.
LEMMA Contents ==
  ASSUME TypeInv
  PROVE  /\ Range(table) \subseteq Events /\ Range(batch) \subseteq Events
         /\ Range(queue) \subseteq Items
         /\ stamp \in [Items -> Nat]
         /\ \A i \in Items : stamp[i] \in Nat
         /\ Events \subseteq Items /\ Flushers \subseteq Items
         /\ clock \in Nat /\ quitAt \in Nat
         /\ Held \subseteq Flushers /\ acked \subseteq Flushers
  BY RangeOfSeq DEF TypeInv, TypeOK, WriterOK, Held, Items

\* Taking a new item into the queue, everything else the writer and the database
\* hold staying as it is.
LEMMA EnqueueStep ==
  ASSUME LedgerInv, TypeInv', NEW i \in Items, stamp[i] = 0, Enqueue(i),
         UNCHANGED <<quit, writerVars, storeVars>>
  PROVE  /\ Order' /\ EventPlaces' /\ BarrierPlaces'
         /\ Passed' /\ FlushBarrier' /\ Stopping'
         /\ \A j \in Items : stamp'[j] = IF j = i THEN clock + 1 ELSE stamp[j]
         /\ \A j \in Items : stamp'[j] <= clock'
         /\ quitAt' = quitAt /\ quitAt <= clock'
  <1> USE DEF writerVars, storeVars
  <1>0. /\ queue \in Seq(Items) /\ batch \in Seq(Items) /\ table \in Seq(Items)
    <2>1. queue \in Seq(Items) /\ batch \in Seq(Events) /\ table \in Seq(Events)
      BY DEF LedgerInv, TypeInv, TypeOK
    <2> QED
      BY <2>1, Contents, SeqMonotonic DEF LedgerInv
  <1>1. /\ Range(table) \subseteq Events /\ Range(batch) \subseteq Events
        /\ Range(queue) \subseteq Items
        /\ \A j \in Items : stamp[j] \in Nat /\ stamp[j] <= clock
        /\ Events \subseteq Items /\ Flushers \subseteq Items
        /\ clock \in Nat /\ quitAt \in Nat /\ quitAt <= clock
        /\ Held \subseteq Flushers /\ acked \subseteq Flushers
    BY Contents DEF LedgerInv, Stamps
  <1>2. \A j \in Items : stamp'[j] = IF j = i THEN clock + 1 ELSE stamp[j]
    BY Contents DEF LedgerInv, Enqueue
  <1>3. /\ clock' = clock + 1 /\ quitAt' = quitAt
        /\ batch' = batch /\ table' = table /\ lost' = lost
        /\ acked' = acked /\ Held' = Held /\ Settled' = Settled
    BY DEF Enqueue, Held, Settled
  <1>4. i \notin Range(table) \cup Range(batch) \cup Range(queue) \cup lost \cup Held \cup acked
    <2>1. CASE i \in Events
      BY <2>1, <1>1, NamesAssumption DEF LedgerInv, EventPlaces
    <2>2. CASE i \in Flushers
      BY <2>2, <1>1, NamesAssumption DEF LedgerInv, BarrierPlaces, TypeInv, TypeOK
    <2> QED
      BY <2>1, <2>2 DEF Items
  <1>5. \A y : y \in Range(queue') <=> y \in Range(queue) \/ y = i
    BY <1>0, RangeAppend DEF Enqueue, Put
  <1>6. Order'
    <2>1. /\ \A x \in Range(table) : stamp'[x] = stamp[x]
          /\ \A x \in Range(batch) : stamp'[x] = stamp[x]
          /\ \A x \in Range(queue) : stamp'[x] = stamp[x]
      BY <1>1, <1>2, <1>4
    <2>2. SortedBy(stamp', table) /\ SortedBy(stamp', batch) /\ SortedBy(stamp', queue)
      BY <1>0, <2>1, SortedSame DEF LedgerInv, Order
    <2>3. \A x \in Range(queue) : stamp'[x] < stamp'[i]
      BY <1>1, <1>2, <2>1
    <2>4. SortedBy(stamp', queue')
      BY <1>0, <2>2, <2>3, SortedAppend DEF Enqueue, Put
    <2>5. Ahead(table, batch)' /\ Ahead(table, queue)' /\ Ahead(batch, queue)'
      BY <1>1, <1>2, <1>3, <1>5, <2>1 DEF LedgerInv, Order, Ahead
    <2> QED
      BY <1>3, <2>2, <2>4, <2>5 DEF Order
  <1>7. EventPlaces'
    BY <1>1, <1>2, <1>3, <1>4, <1>5 DEF LedgerInv, EventPlaces
  <1>8. BarrierPlaces'
    BY <1>1, <1>2, <1>3, <1>4, <1>5 DEF LedgerInv, BarrierPlaces
  <1>9. Passed'
    BY <1>1, <1>2, <1>3, <1>4, <1>5 DEF LedgerInv, Passed
  <1>10. FlushBarrier'
    BY <1>1, <1>2, <1>3, <1>4 DEF LedgerInv, FlushBarrier
  <1>11. Stopping'
    BY <1>1, <1>2, <1>3, <1>5 DEF LedgerInv, Stopping, Ending
  <1>12. /\ \A j \in Items : stamp'[j] <= clock'
         /\ quitAt <= clock'
    BY <1>1, <1>2, <1>3
  <1> QED
    BY <1>2, <1>3, <1>6, <1>7, <1>8, <1>9, <1>10, <1>11, <1>12

\* What a client's step leaves alone when it does not touch the queue.
LEMMA QuietStep ==
  ASSUME LedgerInv,
         UNCHANGED <<queue, writerVars, table, lost, clock, stamp>>
  PROVE  Order' /\ EventPlaces' /\ BarrierPlaces' /\ Passed' /\ FlushBarrier'
  BY DEF LedgerInv, writerVars, Order, Ahead, EventPlaces, BarrierPlaces, Passed,
         FlushBarrier, Held, Settled

\* The views stay right when events arrive and when the store grows.
LEMMA ViewsKept ==
  ASSUME LedgerInv, TypeInv', NEW i \in Items,
         \A j \in Items \ {i} : stamp'[j] = stamp[j],
         stamp'[i] = stamp[i] \/ stamp'[i] = clock + 1,
         i \in Flushers => flusher[i] # "read",
         UNCHANGED <<quit, quitAt, acked, lost, view>>,
         pruned \subseteq pruned',
         \A f \in Flushers : flusher'[f] = "read" => flusher[f] = "read"
  PROVE  ReadYourWrites'
  <1> SUFFICES ASSUME NEW f \in Flushers, NEW e \in Events, flusher'[f] = "read",
                      0 < stamp'[e], stamp'[e] <= Horizon(f)'
               PROVE  e \in view[f] \cup lost \cup pruned
    BY DEF ReadYourWrites
  <1>1. /\ \A j \in Items : stamp[j] \in Nat /\ stamp[j] <= clock
        /\ quitAt \in Nat /\ quitAt <= clock /\ clock \in Nat
        /\ e \in Items /\ f \in Items
    BY Contents DEF LedgerInv, Stamps
  <1>2. flusher[f] = "read" /\ f # i /\ stamp'[f] = stamp[f]
    BY <1>1
  <1>3. Horizon(f)' = Horizon(f) /\ Horizon(f) <= clock /\ Horizon(f) \in Int
    BY <1>1, <1>2 DEF Horizon, InTime
  <1>4. stamp'[e] = stamp[e]
    BY <1>1, <1>3
  <1> QED
    BY <1>2, <1>3, <1>4 DEF LedgerInv, ReadYourWrites

LEMMA ClientStep ==
  ASSUME LedgerInv, TypeInv',
         \/ \E e \in Events : WriteEvent(e)
         \/ \E f \in Flushers : Flush(f) \/ Read(f) \/ Prune(f)
         \/ \E c \in Closers : CallClose(c) \/ CloseInner(c)
  PROVE  LedgerInv'
  <1>0. /\ \A i \in Items : stamp[i] \in Nat /\ stamp[i] <= clock
        /\ Events \subseteq Items /\ Flushers \subseteq Items
        /\ quitAt \in Nat /\ quitAt <= clock /\ clock \in Nat
        /\ handler \in [Events -> {"idle", "queued", "dropped"}]
        /\ flusher \in [Flushers -> {"idle", "sending", "waiting", "flushed", "read", "pruned", "failed"}]
        /\ view \in [Flushers -> SUBSET Events]
        /\ quit \in BOOLEAN
    BY Contents DEF LedgerInv, Stamps, TypeInv, TypeOK
  <1>1. ASSUME NEW e \in Events, WriteEvent(e)
        PROVE  LedgerInv'
    <2>1. UNCHANGED <<quit, flusher, view, closer, writerVars, storeVars>> /\ handler[e] = "idle" /\ stamp[e] = 0
      BY <1>0, <1>1 DEF WriteEvent, LedgerInv, Stamps
    <2>2. CASE Enqueue(e) /\ handler' = [handler EXCEPT ![e] = "queued"]
      <3>1. /\ Order' /\ EventPlaces' /\ BarrierPlaces'
            /\ Passed' /\ FlushBarrier' /\ Stopping'
            /\ \A j \in Items : stamp'[j] = IF j = e THEN clock + 1 ELSE stamp[j]
            /\ \A j \in Items : stamp'[j] <= clock'
            /\ quitAt' = quitAt /\ quitAt <= clock'
        BY <1>0, <2>1, <2>2, EnqueueStep
      <3>2. Stamps'
        BY <1>0, <2>1, <2>2, <3>1, NamesAssumption DEF LedgerInv, Stamps
      <3>3. Readers'
        BY <2>1 DEF LedgerInv, Readers, writerVars
      <3>4. ReadYourWrites'
        BY <1>0, <2>1, <3>1, NamesAssumption, ViewsKept DEF writerVars, storeVars
      <3> QED
        BY <3>1, <3>2, <3>3, <3>4 DEF LedgerInv
    <2>3. CASE UNCHANGED <<queue, history>> /\ handler' = [handler EXCEPT ![e] = "dropped"]
      <3>1. Order' /\ EventPlaces' /\ BarrierPlaces' /\ Passed' /\ FlushBarrier'
        BY <2>1, <2>3, QuietStep DEF history, storeVars
      <3>2. Stamps'
        BY <1>0, <2>1, <2>3 DEF LedgerInv, Stamps, history
      <3>3. Stopping' /\ Readers'
        BY <2>1, <2>3 DEF LedgerInv, Stopping, Ending, Readers, history, writerVars, storeVars
      <3>4. ReadYourWrites'
        BY <2>1, <2>3 DEF LedgerInv, ReadYourWrites, Horizon, InTime, history, writerVars, storeVars
      <3> QED
        BY <3>1, <3>2, <3>3, <3>4 DEF LedgerInv
    <2> QED
      BY <1>1, <2>2, <2>3 DEF WriteEvent
  <1>2. ASSUME NEW f \in Flushers, SendBarrier(f)
        PROVE  LedgerInv'
    <2>1. /\ UNCHANGED <<dropped, quit, handler, view, closer, writerVars, storeVars>>
          /\ flusher[f] = "sending" /\ stamp[f] = 0 /\ Enqueue(f)
          /\ flusher' = [flusher EXCEPT ![f] = "waiting"]
      BY <1>0, <1>2 DEF SendBarrier, SetFlusher, LedgerInv, Stamps
    <2>2. /\ Order' /\ EventPlaces' /\ BarrierPlaces'
          /\ Passed' /\ FlushBarrier' /\ Stopping'
          /\ \A j \in Items : stamp'[j] = IF j = f THEN clock + 1 ELSE stamp[j]
          /\ \A j \in Items : stamp'[j] <= clock'
          /\ quitAt' = quitAt /\ quitAt <= clock'
      BY <1>0, <2>1, EnqueueStep
    <2>3. Stamps'
      BY <1>0, <2>1, <2>2, NamesAssumption DEF LedgerInv, Stamps
    <2>4. Readers'
      BY <1>0, <2>1 DEF LedgerInv, Readers, writerVars
    <2>5. ReadYourWrites'
      BY <1>0, <2>1, <2>2, ViewsKept DEF writerVars, storeVars
    <2> QED
      BY <2>2, <2>3, <2>4, <2>5 DEF LedgerInv
  <1>3. ASSUME NEW f \in Flushers, CallFlush(f) \/ FlushReturns(f) \/ FlushCancelled(f)
        PROVE  LedgerInv'
    <2>1. /\ UNCHANGED <<queue, dropped, quit, handler, view, closer, writerVars, storeVars, history>>
          /\ \/ flusher[f] = "idle" /\ flusher' = [flusher EXCEPT ![f] = "sending"]
             \/ /\ f \in acked \/ writer = "stopped"
                /\ flusher' = [flusher EXCEPT ![f] = "flushed"]
             \/ flusher' = [flusher EXCEPT ![f] = "failed"]
      BY <1>3 DEF CallFlush, FlushReturns, Flushed, FlushCancelled, SetFlusher
    <2>2. Order' /\ EventPlaces' /\ BarrierPlaces' /\ Passed' /\ FlushBarrier'
      BY <2>1, QuietStep DEF history, storeVars
    <2>3. Stamps'
      BY <1>0, <2>1 DEF LedgerInv, Stamps, history
    <2>4. Stopping'
      BY <2>1 DEF LedgerInv, Stopping, Ending, history, writerVars, storeVars
    <2>5. Readers'
      BY <1>0, <2>1 DEF LedgerInv, Readers, writerVars
    <2>6. ReadYourWrites'
      BY <1>0, <2>1 DEF LedgerInv, ReadYourWrites, Horizon, InTime, history, writerVars, storeVars
    <2> QED
      BY <2>2, <2>3, <2>4, <2>5, <2>6 DEF LedgerInv
  <1>4. ASSUME NEW f \in Flushers, Read(f)
        PROVE  LedgerInv'
    <2>1. /\ UNCHANGED <<queue, dropped, quit, handler, closer, writerVars, storeVars, history>>
          /\ flusher[f] = "flushed"
          /\ \/ flusher' = [flusher EXCEPT ![f] = "failed"] /\ view' = view
             \/ /\ flusher' = [flusher EXCEPT ![f] = "read"]
                /\ view' = [view EXCEPT ![f] = Range(table) \ pruned]
      BY <1>4 DEF Read, SetFlusher
    <2>2. Order' /\ EventPlaces' /\ BarrierPlaces' /\ Passed' /\ FlushBarrier'
      BY <2>1, QuietStep DEF history, storeVars
    <2>3. Stamps'
      BY <1>0, <2>1 DEF LedgerInv, Stamps, history
    <2>4. Stopping'
      BY <2>1 DEF LedgerInv, Stopping, Ending, history, writerVars, storeVars
    <2>5. Readers'
      BY <1>0, <2>1 DEF LedgerInv, Readers, writerVars
    <2>6. \A e \in Events : 0 < stamp[e] /\ stamp[e] <= Horizon(f) => e \in Settled
      <3> SUFFICES ASSUME NEW e \in Events, 0 < stamp[e], stamp[e] <= Horizon(f)
                   PROVE  e \in Settled
        OBVIOUS
      <3>1. CASE f \in acked
        BY <1>0, <3>1 DEF LedgerInv, FlushBarrier, Horizon, InTime
      <3>2. CASE f \notin acked
        <4>1. writer = "stopped" /\ Ending /\ quit /\ Held = {} /\ batch = <<>>
          BY <2>1, <3>2 DEF LedgerInv, Readers, Stopping, Ending, Held, TypeInv, WriterOK
        <4>2. ~InTime(f)
          BY <1>0, <3>2, <4>1 DEF LedgerInv, BarrierPlaces, Stopping, InTime
        <4>3. stamp[e] <= quitAt
          BY <4>2 DEF Horizon
        <4>4. e \notin Range(queue) /\ e \notin Range(batch)
          BY <1>0, <4>1, <4>3, RangeEmpty DEF LedgerInv, Stopping
        <4> QED
          BY <1>0, <4>4 DEF LedgerInv, EventPlaces, Settled
      <3> QED
        BY <3>1, <3>2
    <2>7. ReadYourWrites'
      <3> SUFFICES ASSUME NEW g \in Flushers, NEW e \in Events, flusher'[g] = "read",
                          0 < stamp[e], stamp[e] <= Horizon(g)
                   PROVE  e \in view'[g] \cup lost \cup pruned
        BY <2>1 DEF ReadYourWrites, Horizon, InTime, history, writerVars, storeVars
      <3>1. CASE g = f
        BY <1>0, <2>1, <2>6, <3>1 DEF Settled
      <3>2. CASE g # f
        BY <1>0, <2>1, <3>2 DEF LedgerInv, ReadYourWrites
      <3> QED
        BY <3>1, <3>2
    <2> QED
      BY <2>2, <2>3, <2>4, <2>5, <2>7 DEF LedgerInv
  <1>5. ASSUME NEW f \in Flushers, Prune(f)
        PROVE  LedgerInv'
    <2>1. /\ UNCHANGED <<queue, dropped, quit, handler, view, closer, writerVars, table, lost, closed, history>>
          /\ flusher[f] = "flushed"
          /\ flusher' = [flusher EXCEPT ![f] = "pruned"]
          /\ pruned \subseteq pruned'
      BY <1>5 DEF Prune, SetFlusher
    <2>2. Order' /\ EventPlaces' /\ BarrierPlaces' /\ Passed' /\ FlushBarrier'
      BY <2>1, QuietStep DEF history
    <2>3. Stamps'
      BY <1>0, <2>1 DEF LedgerInv, Stamps, history
    <2>4. Stopping'
      BY <2>1 DEF LedgerInv, Stopping, Ending, history, writerVars
    <2>5. Readers'
      BY <1>0, <2>1 DEF LedgerInv, Readers, writerVars
    <2>6. ReadYourWrites'
      BY <1>0, <2>1 DEF LedgerInv, ReadYourWrites, Horizon, InTime, history, writerVars
    <2> QED
      BY <2>2, <2>3, <2>4, <2>5, <2>6 DEF LedgerInv
  <1>6. ASSUME NEW c \in Closers, CallClose(c)
        PROVE  LedgerInv'
    <2>1. /\ UNCHANGED <<queue, handler, flusher, view, writerVars, storeVars, clock, stamp>>
          /\ quit' = TRUE
          /\ quitAt' = IF quit THEN quitAt ELSE clock
      BY <1>6 DEF CallClose
    <2>2. Order' /\ EventPlaces' /\ BarrierPlaces' /\ Passed' /\ FlushBarrier'
      BY <2>1, QuietStep DEF storeVars
    <2>3. Stamps'
      BY <1>0, <2>1 DEF LedgerInv, Stamps
    <2>4. Stopping'
      BY <2>1 DEF LedgerInv, Stopping, Ending, writerVars, storeVars
    <2>5. Readers'
      BY <2>1 DEF LedgerInv, Readers, writerVars
    <2>6. \A f \in Flushers : flusher[f] = "read" => Horizon(f)' = Horizon(f)
      <3> SUFFICES ASSUME NEW f \in Flushers, flusher[f] = "read"
                   PROVE  Horizon(f)' = Horizon(f)
        OBVIOUS
      <3>1. CASE f \in acked
        BY <2>1, <3>1 DEF Horizon, InTime, writerVars
      <3>2. CASE quit
        BY <2>1, <3>2 DEF Horizon, InTime, writerVars
      <3> QED
        BY <3>1, <3>2 DEF LedgerInv, Readers, Stopping
    <2>7. ReadYourWrites'
      BY <2>1, <2>6 DEF LedgerInv, ReadYourWrites, writerVars, storeVars
    <2> QED
      BY <2>2, <2>3, <2>4, <2>5, <2>7 DEF LedgerInv
  <1>7. ASSUME NEW c \in Closers, CloseInner(c)
        PROVE  LedgerInv'
    <2>1. /\ UNCHANGED <<queue, quit, handler, flusher, view, writerVars, table, pruned, lost, history>>
          /\ writer = "stopped" /\ closed' = TRUE
      BY <1>7 DEF CloseInner
    <2>2. Order' /\ EventPlaces' /\ BarrierPlaces' /\ Passed' /\ FlushBarrier'
      BY <2>1, QuietStep DEF history
    <2>3. Stamps'
      BY <1>0, <2>1 DEF LedgerInv, Stamps, history
    <2>4. Stopping' /\ Readers'
      BY <2>1 DEF LedgerInv, Stopping, Ending, Readers, writerVars, history
    <2>5. ReadYourWrites'
      BY <2>1 DEF LedgerInv, ReadYourWrites, Horizon, InTime, history, writerVars
    <2> QED
      BY <2>2, <2>3, <2>4, <2>5 DEF LedgerInv
  <1> QED
    BY <1>1, <1>2, <1>3, <1>4, <1>5, <1>6, <1>7 DEF Flush

\* The writer moves items on; it stamps nothing and no client moves.
LEMMA WriterFrame ==
  ASSUME LedgerInv, TypeInv', Writer
  PROVE  /\ UNCHANGED <<dropped, quit, clientVars, pruned, closed, history>>
         /\ Stamps'
  <1>1. UNCHANGED <<dropped, quit, clientVars, pruned, closed, history>>
    BY DEF Writer, Receive, Tick, StartDrain, FinishDrain, Commit, CloseAck,
           ReportDropped, storeVars
  <1> QED
    BY <1>1 DEF LedgerInv, Stamps, clientVars, history

\* A step of the writer that acknowledges nothing keeps the readers' part.
LEMMA WriterReaders ==
  ASSUME LedgerInv, TypeInv', UNCHANGED <<quit, clientVars, pruned, history>>,
         lost \subseteq lost', acked \subseteq acked',
         acked' # acked => writer # "stopped",
         writer = "stopped" => writer' = "stopped"
  PROVE  Readers' /\ ReadYourWrites'
  <1> USE DEF clientVars, history
  <1>1. Readers'
    BY DEF LedgerInv, Readers
  <1>2. ASSUME NEW f \in Flushers, flusher[f] = "read"
        PROVE  Horizon(f)' = Horizon(f)
    <2>1. f \in acked \/ acked' = acked
      BY <1>2 DEF LedgerInv, Readers
    <2> QED
      BY <2>1 DEF Horizon, InTime
  <1>3. ReadYourWrites'
    BY <1>2 DEF LedgerInv, ReadYourWrites
  <1> QED
    BY <1>1, <1>3

LEMMA ReceiveStep ==
  ASSUME LedgerInv, TypeInv', Receive
  PROVE  LedgerInv'
  <1> DEFINE h == Head(queue)
  <1> USE DEF storeVars, history, clientVars
  <1>0. /\ queue \in Seq(Items) /\ batch \in Seq(Items) /\ queue # <<>>
        /\ h \in Items /\ queue' = Tail(queue)
    <2>1. queue \in Seq(Items) /\ batch \in Seq(Events) /\ queue # <<>>
      BY DEF LedgerInv, TypeInv, TypeOK, Receive
    <2> QED
      BY <2>1, Contents, SeqMonotonic, HeadTailProperties DEF LedgerInv, Receive
  <1>1. UNCHANGED <<dropped, quit, clientVars, draining, reported, acked, storeVars, history>>
    BY DEF Receive
  <1>2. /\ writer = "select" /\ Held = {} /\ ~Ending
    BY DEF Receive, Held, Ending, LedgerInv, TypeInv, WriterOK
  <1>3. \A y : y \in Range(queue) <=> y \in Range(queue') \/ y = h
    BY <1>0, RangeTail
  <1>4. /\ SortedBy(stamp, queue')
        /\ \A y \in Range(queue') : stamp[h] < stamp[y]
    BY <1>0, SortedTail DEF LedgerInv, Order
  <1>5. Stamps'
    BY WriterFrame DEF Writer
  <1>6. Readers' /\ ReadYourWrites'
    BY <1>1, <1>2, WriterReaders
  <1>7. /\ Range(table) \subseteq Events /\ Range(batch) \subseteq Events
        /\ Range(queue) \subseteq Items
        /\ \A i \in Items : stamp[i] \in Nat
        /\ Events \subseteq Items /\ Flushers \subseteq Items
        /\ acked \subseteq Flushers
    BY Contents DEF LedgerInv
  <1>8. h \notin Range(queue')
    BY <1>0, <1>4, <1>7
  <1> HIDE DEF h
  <1>9. CASE h \in Events /\ AcceptEvent(h)
    <2>1. batch' = Append(batch, h) /\ Held' = {} /\ ~Ending' /\ Settled' = Settled
      BY <1>1, <1>2, <1>9 DEF AcceptEvent, StartCommit, Held, Ending, LedgerInv, TypeInv, WriterOK, Settled
    <2>2. \A y : y \in Range(batch') <=> y \in Range(batch) \/ y = h
      BY <1>0, <2>1, RangeAppend
    <2>3. Order'
      <3>1. \A y \in Range(batch) : stamp[y] < stamp[h]
        BY <1>3 DEF LedgerInv, Order, Ahead
      <3>2. SortedBy(stamp, batch')
        BY <1>0, <2>1, <3>1, SortedAppend DEF LedgerInv, Order
      <3>3. Ahead(table, batch') /\ Ahead(table, queue') /\ Ahead(batch', queue')
        BY <1>3, <1>4, <2>2 DEF LedgerInv, Order, Ahead
      <3> QED
        BY <1>1, <1>4, <3>2, <3>3 DEF LedgerInv, Order, Ahead
    <2>4. EventPlaces'
      BY <1>1, <1>3, <1>8, <1>9, <2>2 DEF LedgerInv, EventPlaces
    <2>5. BarrierPlaces'
      BY <1>1, <1>2, <1>3, <1>9, <2>1, NamesAssumption DEF LedgerInv, BarrierPlaces
    <2>6. Passed' /\ FlushBarrier'
      BY <1>1, <1>2, <1>3, <2>1 DEF LedgerInv, Passed, FlushBarrier
    <2>7. Stopping'
      BY <1>1, <1>2, <1>9, <2>1 DEF LedgerInv, Stopping, AcceptEvent, StartCommit
    <2> QED
      BY <1>5, <1>6, <2>3, <2>4, <2>5, <2>6, <2>7 DEF LedgerInv
  <1>10. CASE h \in Flushers /\ AcceptBarrier(h)
    <2>1. /\ batch' = batch /\ Held' = {h} /\ ~Ending' /\ Settled' = Settled
          /\ writer' = "commit"
      BY <1>1, <1>10 DEF AcceptBarrier, CommitThenAck, StartCommit, Held, Ending, Settled
    <2>2. Order'
      BY <1>1, <1>3, <1>4, <2>1 DEF LedgerInv, Order, Ahead
    <2>3. EventPlaces'
      BY <1>1, <1>3, <1>10, <2>1, NamesAssumption DEF LedgerInv, EventPlaces
    <2>4. BarrierPlaces'
      BY <1>1, <1>2, <1>3, <2>1 DEF LedgerInv, BarrierPlaces
    <2>5. Passed' /\ FlushBarrier'
      BY <1>1, <1>2, <1>3, <1>4, <2>1 DEF LedgerInv, Passed, FlushBarrier
    <2>6. Stopping'
      BY <1>1, <1>2, <2>1 DEF LedgerInv, Stopping
    <2> QED
      BY <1>5, <1>6, <2>2, <2>3, <2>4, <2>5, <2>6 DEF LedgerInv
  <1> QED
    BY <1>9, <1>10 DEF Receive, h

LEMMA CommitLedgerStep ==
  ASSUME LedgerInv, TypeInv', Commit
  PROVE  LedgerInv'
  <1> USE DEF history, clientVars
  <1>1. PICK n \in Written :
          /\ table' = table \o SubSeq(batch, 1, n)
          /\ lost' = lost \cup {batch[i] : i \in (n + 1)..Len(batch)}
          /\ batch' = <<>>
    BY DEF Commit, Kept
  <1> DEFINE new == SubSeq(batch, 1, n)
             rest == {batch[i] : i \in (n + 1)..Len(batch)}
  <1>2. /\ batch \in Seq(Events) /\ table \in Seq(Events) /\ Len(batch) \in Nat
        /\ n \in 0..Len(batch)
    BY LenProperties DEF LedgerInv, TypeInv, TypeOK, Written
  <1>3. /\ UNCHANGED <<queue, dropped, quit, clientVars, barrier, draining, reported, acked, pruned, closed, history>>
        /\ writer = "commit" /\ writer' = after /\ after' = "select"
    BY DEF Commit
  <1>4. /\ Range(table) \subseteq Events /\ Range(batch) \subseteq Events
        /\ \A i \in Items : stamp[i] \in Nat
        /\ stamp \in [Items -> Nat]
        /\ Events \subseteq Items /\ Flushers \subseteq Items
        /\ acked \subseteq Flushers
    BY Contents DEF LedgerInv
  <1>5. new \in Seq(Events) /\ \A y : y \in Range(batch) <=> y \in Range(new) \/ y \in rest
    BY <1>2, RangeSplit
  <1>6. SortedBy(stamp, new) /\ \A y \in rest : y \notin Range(new)
    <2>1. batch \in Seq(Items)
      BY <1>2, <1>4, SeqMonotonic
    <2> QED
      BY <1>2, <1>4, <2>1, SortedSplit DEF LedgerInv, Order
  <1> HIDE DEF new, rest
  <1>7. \A y : y \in Range(table') <=> y \in Range(table) \/ y \in Range(new)
    BY <1>1, <1>2, <1>5, RangeConcat DEF new
  <1>8. /\ \A y : y \notin Range(batch')
        /\ SortedBy(stamp, batch')
    BY <1>1, RangeEmpty, SortedEmpty
  <1>9. lost' = lost \cup rest
    BY <1>1 DEF rest
  <1>10. Held' = Held /\ Ending' = Ending
    BY <1>3 DEF Held, Ending, LedgerInv, TypeInv, TypeOK
  <1>11. \A y \in Range(table), z \in Range(batch) : stamp[y] < stamp[z]
    BY DEF LedgerInv, Order, Ahead
  <1>12. Order'
    <2>1. SortedBy(stamp, table')
      <3>1. \A y \in Range(table), z \in Range(new) : stamp[y] < stamp[z]
        BY <1>5, <1>11
      <3>2. SortedBy(stamp, table \o new)
        BY <1>2, <1>5, <1>6, <3>1, SortedConcat DEF LedgerInv, Order
      <3> QED
        BY <1>1, <3>2 DEF new
    <2>2. Ahead(table', batch') /\ Ahead(table', queue) /\ Ahead(batch', queue)
      BY <1>5, <1>7, <1>8 DEF LedgerInv, Order, Ahead
    <2> QED
      BY <1>3, <1>8, <2>1, <2>2 DEF LedgerInv, Order, Ahead
  <1>13. EventPlaces'
    <2> SUFFICES ASSUME NEW e \in Events
                 PROVE  /\ stamp[e] > 0 <=> e \in Range(table') \cup Range(batch') \cup Range(queue) \cup lost'
                        /\ e \in lost' => e \notin Range(table') \cup Range(batch') \cup Range(queue)
      BY <1>3 DEF EventPlaces
    <2>1. stamp[e] \in Nat
      BY <1>4
    <2>2. e \in rest => e \notin Range(table) /\ e \notin Range(queue) /\ e \notin Range(new)
      BY <1>5, <1>6, <1>11, <2>1 DEF LedgerInv, Order, Ahead
    <2> QED
      BY <1>5, <1>7, <1>8, <1>9, <2>2 DEF LedgerInv, EventPlaces
  <1>14. BarrierPlaces' /\ Passed'
    BY <1>3, <1>10 DEF LedgerInv, BarrierPlaces, Passed
  <1>15. FlushBarrier'
    BY <1>3, <1>7, <1>9 DEF LedgerInv, FlushBarrier, Settled
  <1>16. Stopping'
    BY <1>3, <1>10 DEF LedgerInv, Stopping, TypeInv, TypeOK
  <1>17. Readers' /\ ReadYourWrites'
    BY <1>3, <1>9, WriterReaders
  <1>18. Stamps'
    BY WriterFrame DEF Writer
  <1> QED
    BY <1>12, <1>13, <1>14, <1>15, <1>16, <1>17, <1>18 DEF LedgerInv

LEMMA CloseAckStep ==
  ASSUME LedgerInv, TypeInv', CloseAck
  PROVE  LedgerInv'
  <1> USE DEF history, clientVars, storeVars
  <1>1. /\ UNCHANGED <<queue, dropped, quit, clientVars, batch, after, draining, reported, storeVars, history>>
        /\ writer = "ack" /\ writer' = "select" /\ acked' = acked \cup {barrier}
        /\ batch = <<>> /\ barrier \in Flushers /\ after = "select"
    BY DEF CloseAck, LedgerInv, TypeInv, WriterOK
  <1>2. Held = {barrier} /\ Held' = {} /\ ~Ending'
    BY <1>1 DEF Held, Ending
  <1>3. \A y : y \notin Range(batch)
    BY <1>1, RangeEmpty
  <1>4. /\ \A i \in Items : stamp[i] \in Nat
        /\ Events \subseteq Items /\ Flushers \subseteq Items
    BY Contents DEF LedgerInv
  <1>5. Order' /\ EventPlaces'
    BY <1>1 DEF LedgerInv, Order, Ahead, EventPlaces
  <1>6. BarrierPlaces' /\ Passed'
    BY <1>1, <1>2 DEF LedgerInv, BarrierPlaces, Passed
  <1>7. FlushBarrier'
    <2>1. ASSUME NEW e \in Events, 0 < stamp[e], stamp[e] < stamp[barrier]
          PROVE  e \in Settled
      <3>1. e \notin Range(queue)
        BY <1>1, <1>2, <1>4, <2>1 DEF LedgerInv, Passed
      <3> QED
        BY <1>3, <2>1, <3>1 DEF LedgerInv, EventPlaces, Settled
    <2> QED
      BY <1>1, <2>1 DEF LedgerInv, FlushBarrier, Settled
  <1>8. Stopping'
    BY <1>1, <1>2 DEF LedgerInv, Stopping
  <1>9. Readers' /\ ReadYourWrites'
    BY <1>1, WriterReaders
  <1>10. Stamps'
    BY WriterFrame DEF Writer
  <1> QED
    BY <1>5, <1>6, <1>7, <1>8, <1>9, <1>10 DEF LedgerInv

\* The steps that only move the writer between its cases.
LEMMA SwitchStep ==
  ASSUME LedgerInv, TypeInv', Tick \/ StartDrain \/ FinishDrain \/ ReportDropped
  PROVE  LedgerInv'
  <1> USE DEF history, clientVars, storeVars, StartCommit, CommitThenReport
  <1>1. /\ UNCHANGED <<queue, dropped, quit, clientVars, batch, barrier, acked, storeVars, history>>
        /\ Held' = Held /\ Held = {}
        /\ writer # "stopped" /\ Settled' = Settled
    BY DEF Tick, StartDrain, FinishDrain, ReportDropped, Logged, AfterReport, Held, Settled,
           LedgerInv, TypeInv, WriterOK
  <1>2. Order' /\ EventPlaces' /\ BarrierPlaces' /\ Passed' /\ FlushBarrier'
    BY <1>1 DEF LedgerInv, Order, Ahead, EventPlaces, BarrierPlaces, Passed, FlushBarrier
  <1>3. Stopping'
    <2>1. CASE Tick
      BY <2>1 DEF Tick, LedgerInv, Stopping, Ending
    <2>2. CASE StartDrain
      BY <2>2 DEF StartDrain, LedgerInv, Stopping, Ending, TypeInv, WriterOK
    <2>3. CASE FinishDrain
      <3>1. \A x : x \notin Range(queue')
        BY <2>3, RangeEmpty DEF FinishDrain, Drained
      <3> QED
        BY <2>3, <3>1 DEF FinishDrain, LedgerInv, Stopping, Ending
    <2>4. CASE ReportDropped
      BY <2>4 DEF ReportDropped, AfterReport, LedgerInv, Stopping, Ending, TypeInv, WriterOK
    <2> QED
      BY <2>1, <2>2, <2>3, <2>4
  <1>4. Readers' /\ ReadYourWrites'
    BY <1>1, WriterReaders
  <1>5. Stamps'
    BY WriterFrame DEF Writer
  <1> QED
    BY <1>2, <1>3, <1>4, <1>5 DEF LedgerInv

LEMMA StepLedgerInv == LedgerInv /\ [Next]_vars => LedgerInv'
  <1> SUFFICES ASSUME LedgerInv, [Next]_vars PROVE LedgerInv'
    OBVIOUS
  <1>1. TypeInv'
    BY StepTypeInv DEF LedgerInv
  <1>2. CASE Writer
    BY <1>1, <1>2, ReceiveStep, CommitLedgerStep, CloseAckStep, SwitchStep DEF Writer
  <1>3. CASE Next /\ ~Writer
    BY <1>1, <1>3, ClientStep DEF Next
  <1>4. CASE UNCHANGED vars
    <2>1. /\ Order' /\ EventPlaces' /\ BarrierPlaces' /\ Passed' /\ FlushBarrier'
      BY <1>4, QuietStep DEF vars, storeVars, history
    <2>2. Stamps' /\ Stopping' /\ Readers' /\ ReadYourWrites'
      BY <1>4 DEF vars, clientVars, writerVars, storeVars, history, LedgerInv, Stamps,
                  Stopping, Ending, Readers, ReadYourWrites, Horizon, InTime
    <2> QED
      BY <1>1, <2>1, <2>2 DEF LedgerInv
  <1> QED
    BY <1>2, <1>3, <1>4

-----------------------------------------------------------------------------
(* The theorems                                                            *)

THEOREM LedgerInvariant == SafeSpec => []LedgerInv
  BY InitLedgerInv, StepLedgerInv, PTL DEF SafeSpec

\* Events reach the table in the order in which the queue took them and none is
\* taken twice (the ordering that async.go's single queue and writer preserve).
THEOREM LedgerOrder == SafeSpec => []FIFO
  <1>1. LedgerInv => FIFO
    <2> SUFFICES ASSUME LedgerInv PROVE FIFO
      OBVIOUS
    <2>1. /\ table \in Seq(Items) /\ batch \in Seq(Items) /\ queue \in Seq(Items)
      <3>1. queue \in Seq(Items) /\ batch \in Seq(Events) /\ table \in Seq(Events)
        BY DEF LedgerInv, TypeInv, TypeOK
      <3> QED
        BY <3>1, Contents, SeqMonotonic DEF LedgerInv
    <2>2. SortedBy(stamp, table \o batch) /\ table \o batch \in Seq(Items)
      BY <2>1, SortedConcat, ConcatProperties DEF LedgerInv, Order, Ahead
    <2>3. \A x \in Range(table \o batch), y \in Range(queue) : stamp[x] < stamp[y]
      BY <2>1, RangeConcat DEF LedgerInv, Order, Ahead
    <2>4. SortedBy(stamp, (table \o batch) \o queue)
      BY <2>1, <2>2, <2>3, SortedConcat DEF LedgerInv, Order
    <2> QED
      BY <2>4 DEF FIFO, Pipeline, SortedBy
  <1> QED
    BY <1>1, LedgerInvariant, PTL

\* Every accepted event is waiting, written or lost with a refused batch, and
\* in one of these places only.
THEOREM LedgerKeepsEvents == SafeSpec => []NothingForgotten
  <1>1. LedgerInv => NothingForgotten
    <2> SUFFICES ASSUME LedgerInv PROVE NothingForgotten
      OBVIOUS
    <2>1. /\ table \in Seq(Items) /\ batch \in Seq(Items) /\ queue \in Seq(Items)
      <3>1. queue \in Seq(Items) /\ batch \in Seq(Events) /\ table \in Seq(Events)
        BY DEF LedgerInv, TypeInv, TypeOK
      <3> QED
        BY <3>1, Contents, SeqMonotonic DEF LedgerInv
    <2>2. table \o batch \in Seq(Items)
      BY <2>1, ConcatProperties
    <2>3. \A x : x \in Range(Pipeline) <=> x \in Range(table) \/ x \in Range(batch) \/ x \in Range(queue)
      BY <2>1, <2>2, RangeConcat DEF Pipeline
    <2> QED
      BY <2>3 DEF LedgerInv, EventPlaces, NothingForgotten
  <1> QED
    BY <1>1, LedgerInvariant, PTL

\* A closed ack means that every event queued before the barrier is settled
\* (async.go, accept: commit, then close).
THEOREM LedgerFlushes == SafeSpec => []FlushBarrier
  BY LedgerInvariant, PTL DEF LedgerInv

\* What Report and ExportJSONL show of the events accepted before them.
THEOREM LedgerReads == SafeSpec => []ReadYourWrites
  BY LedgerInvariant, PTL DEF LedgerInv

\* Close returns with everything accepted before it settled, and the database is
\* never closed under the writer.
THEOREM LedgerCloses == SafeSpec => []CloseDrains
  <1>1. LedgerInv => CloseDrains
    <2> SUFFICES ASSUME LedgerInv, closed PROVE CloseDrains
      BY DEF CloseDrains
    <2>1. writer = "stopped" /\ Ending /\ batch = <<>>
      BY DEF LedgerInv, Stopping, Ending, TypeInv, WriterOK
    <2>2. ASSUME NEW e \in Events, 0 < stamp[e], stamp[e] <= quitAt
          PROVE  e \in Settled
      <3>1. stamp[e] \in Nat /\ quitAt \in Nat
        BY Contents DEF LedgerInv
      <3>2. e \notin Range(queue) /\ e \notin Range(batch)
        BY <2>1, <2>2, <3>1, RangeEmpty DEF LedgerInv, Stopping
      <3> QED
        BY <2>2, <3>2 DEF LedgerInv, EventPlaces, Settled
    <2> QED
      BY <2>1, <2>2 DEF CloseDrains
  <1> QED
    BY <1>1, LedgerInvariant, PTL

-----------------------------------------------------------------------------
(* The detailed ledger implements the abstract log                         *)

LEMMA LogPending ==
  ASSUME LedgerInv
  PROVE  \A e \in Events : e \in Log!Pending <=> e \in Range(batch) \/ e \in Range(queue)
  <1> SUFFICES ASSUME NEW e \in Events
               PROVE  e \in Log!Pending <=> e \in Range(batch) \/ e \in Range(queue)
    OBVIOUS
  <1>1. \A x \in Items : stamp[x] \in Nat
    BY Contents DEF LedgerInv
  <1>2. e \in Range(batch) \/ e \in Range(queue) => e \notin Range(table)
    BY <1>1 DEF LedgerInv, Order, Ahead, Items
  <1> QED
    BY <1>2 DEF LedgerInv, EventPlaces, Log!Pending

\* A commit settles the batch: the events up to the last one written, then the
\* rest of the batch.
LEMMA CommitSettles ==
  ASSUME LedgerInv, Commit
  PROVE  [Log!Next]_Log!vars
  <1>1. PICK n \in Written :
          /\ table' = table \o SubSeq(batch, 1, n)
          /\ lost' = lost \cup {batch[i] : i \in (n + 1)..Len(batch)}
          /\ batch' = <<>>
    BY DEF Commit, Kept
  <1> DEFINE new == SubSeq(batch, 1, n)
             rest == {batch[i] : i \in (n + 1)..Len(batch)}
             number(k) == IF k = 0 THEN 0 ELSE stamp[batch[k]]
  <1>2. /\ batch \in Seq(Events) /\ table \in Seq(Events) /\ Len(batch) \in Nat
        /\ n \in 0..Len(batch)
        /\ \A i \in 1..Len(batch) : batch[i] \in Events
    BY LenProperties, ElementOfSeq DEF LedgerInv, TypeInv, TypeOK, Written
  <1>3. /\ UNCHANGED <<stamp, clock, dropped, acked, quit, quitAt>>
        /\ writer # "stopped" /\ writer' # "stopped"
    BY DEF Commit, history, LedgerInv, TypeInv, TypeOK
  <1>4. /\ \A i \in Items : stamp[i] \in Nat /\ stamp[i] <= clock
        /\ clock \in Nat
        /\ Events \subseteq Items
    BY Contents DEF LedgerInv, Stamps
  <1>5. /\ \A y : y \in Range(new) <=> \E i \in 1..n : batch[i] = y
        /\ \A y : y \in Range(table') <=> y \in Range(table) \/ y \in Range(new)
    <2>1. new \in Seq(Events) /\ \A y : y \in Range(new) <=> \E i \in 1..n : batch[i] = y
      BY <1>2, RangeSplit
    <2>2. table' = table \o new
      BY <1>1
    <2> HIDE DEF new
    <2>3. \A y : y \in Range(table \o new) <=> y \in Range(table) \/ y \in Range(new)
      BY <1>2, <2>1, RangeConcat
    <2> QED
      BY <2>1, <2>2, <2>3
  <1>6. \A y : y \in Range(batch) <=> \E i \in 1..Len(batch) : batch[i] = y
    BY <1>2, RangeMember
  <1> HIDE DEF new
  <1>7. \A k \in 0..Len(batch) : number(k) \in 0..clock
    BY <1>2, <1>4
  <1>8. ASSUME NEW k \in 0..Len(batch), NEW i \in 1..Len(batch)
        PROVE  stamp[batch[i]] <= number(k) <=> i <= k
    <2>1. CASE k = 0
      <3>1. stamp[batch[i]] > 0
        BY <1>2, <1>4, <1>6 DEF LedgerInv, EventPlaces
      <3> QED
        BY <1>2, <1>4, <2>1, <3>1
    <2>2. CASE k # 0
      <3>1. k \in 1..Len(batch) /\ number(k) = stamp[batch[k]]
        BY <1>2, <2>2
      <3>2. stamp[batch[i]] \in Nat /\ stamp[batch[k]] \in Nat
        BY <1>2, <1>4, <3>1
      <3>3. i < k => stamp[batch[i]] < stamp[batch[k]]
        BY <3>1 DEF LedgerInv, Order, SortedBy
      <3>4. k < i => stamp[batch[k]] < stamp[batch[i]]
        BY <3>1 DEF LedgerInv, Order, SortedBy
      <3> QED
        BY <1>2, <3>1, <3>2, <3>3, <3>4
    <2> QED
      BY <2>1, <2>2
  <1>9. ASSUME NEW e \in Events, e \in Range(queue), NEW k \in 0..Len(batch)
        PROVE  ~(stamp[e] <= number(k))
    <2>1. stamp[e] \in Nat /\ stamp[e] > 0
      BY <1>4, <1>9 DEF LedgerInv, EventPlaces
    <2>2. CASE k = 0
      BY <2>1, <2>2
    <2>3. CASE k # 0
      <3>1. k \in 1..Len(batch) /\ number(k) = stamp[batch[k]] /\ batch[k] \in Range(batch)
        BY <1>2, <1>6, <2>3
      <3>2. stamp[batch[k]] < stamp[e] /\ stamp[batch[k]] \in Nat
        BY <1>2, <1>4, <1>9, <3>1 DEF LedgerInv, Order, Ahead
      <3> QED
        BY <2>1, <3>1, <3>2
    <2> QED
      BY <2>2, <2>3
  <1> HIDE DEF number
  <1>10. Range(table') = Range(table) \cup {e \in Log!Pending : stamp[e] <= number(n)}
    <2>1. ASSUME NEW e
          PROVE  e \in Range(new) <=> e \in Events /\ e \in Log!Pending /\ stamp[e] <= number(n)
      <3>1. CASE e \in Range(new)
        <4>1. PICK i \in 1..n : batch[i] = e
          BY <1>5, <3>1
        <4>2. i \in 1..Len(batch) /\ i <= n
          BY <1>2
        <4>3. e \in Events /\ e \in Range(batch)
          BY <1>2, <1>6, <4>1, <4>2
        <4> QED
          BY <1>2, <1>8, <3>1, <4>1, <4>2, <4>3, LogPending
      <3>2. CASE e \in Events /\ e \in Log!Pending /\ stamp[e] <= number(n)
        <4>1. e \in Range(batch)
          BY <1>2, <1>9, <3>2, LogPending
        <4>2. PICK i \in 1..Len(batch) : batch[i] = e
          BY <1>6, <4>1
        <4>3. i <= n
          BY <1>2, <1>8, <3>2, <4>2
        <4>4. i \in 1..n
          BY <1>2, <4>3
        <4> QED
          BY <1>5, <3>2, <4>2, <4>4
      <3> QED
        BY <3>1, <3>2
    <2>2. Log!Pending \subseteq Events
      BY DEF Log!Pending
    <2> QED
      BY <1>5, <2>1, <2>2
  <1>11. lost' = lost \cup {e \in Log!Pending : number(n) < stamp[e] /\ stamp[e] <= number(Len(batch))}
    <2>1. ASSUME NEW e
          PROVE  e \in rest <=> /\ e \in Events /\ e \in Log!Pending
                                /\ number(n) < stamp[e] /\ stamp[e] <= number(Len(batch))
      <3>0. number(n) \in Nat /\ Len(batch) \in 0..Len(batch)
        BY <1>2, <1>4, <1>7
      <3>1. CASE e \in rest
        <4>1. PICK i \in (n + 1)..Len(batch) : batch[i] = e
          BY <3>1
        <4>2. i \in 1..Len(batch) /\ ~(i <= n) /\ i <= Len(batch)
          BY <1>2
        <4>3. e \in Events /\ e \in Range(batch) /\ stamp[e] \in Nat
          BY <1>2, <1>4, <1>6, <4>1, <4>2
        <4>4. ~(stamp[e] <= number(n)) /\ stamp[e] <= number(Len(batch))
          BY <1>2, <1>8, <3>0, <4>1, <4>2
        <4>5. number(n) < stamp[e]
          BY <3>0, <4>3, <4>4
        <4> QED
          BY <3>1, <4>3, <4>4, <4>5, LogPending
      <3>2. CASE /\ e \in Events /\ e \in Log!Pending
                 /\ number(n) < stamp[e] /\ stamp[e] <= number(Len(batch))
        <4>1. e \in Range(batch)
          BY <1>9, <3>0, <3>2, LogPending
        <4>2. PICK i \in 1..Len(batch) : batch[i] = e
          BY <1>6, <4>1
        <4>3. stamp[e] \in Nat
          BY <1>4, <3>2
        <4>4. ~(i <= n)
          BY <1>2, <1>8, <3>0, <3>2, <4>2, <4>3
        <4>5. i \in (n + 1)..Len(batch)
          BY <1>2, <4>4
        <4> QED
          BY <3>2, <4>2, <4>5
      <3> QED
        BY <3>1, <3>2
    <2>2. Log!Pending \subseteq Events
      BY DEF Log!Pending
    <2> QED
      BY <1>1, <2>1, <2>2
  <1>12. Log!Settle
    <2>1. number(n) \in 0..clock /\ number(Len(batch)) \in 0..clock
      BY <1>2, <1>7
    <2> QED
      BY <1>3, <1>10, <1>11, <2>1 DEF Log!Settle
  <1> QED
    BY <1>12 DEF Log!Next

LEMMA StepRefines ==
  ASSUME LedgerInv, [Next]_vars
  PROVE  [Log!Next]_Log!vars
  <1> USE DEF history, clientVars, storeVars, writerVars
  <1>1. ASSUME NEW i \in Items, Enqueue(i), stamp[i] = 0,
               UNCHANGED <<dropped, quit, writerVars, storeVars>>
        PROVE  Log!Next
    BY <1>1 DEF Enqueue, Log!Next, Log!Arrive, Items
  <1>2. Events \subseteq Items /\ Flushers \subseteq Items
    BY DEF Items
  <1>3. ASSUME NEW e \in Events, WriteEvent(e)
        PROVE  Log!Next
    <2>1. CASE Enqueue(e) /\ UNCHANGED dropped
      <3>1. stamp[e] = 0
        BY <1>2, <1>3, Contents DEF WriteEvent, LedgerInv, Stamps
      <3> QED
        BY <1>1, <1>2, <1>3, <2>1, <3>1 DEF WriteEvent
    <2>2. CASE dropped' = dropped + 1 /\ UNCHANGED <<queue, history>>
      BY <1>3, <2>2 DEF WriteEvent, Log!Next, Log!Refuse
    <2> QED
      BY <1>3, <2>1, <2>2 DEF WriteEvent
  <1>4. ASSUME NEW f \in Flushers, SendBarrier(f)
        PROVE  Log!Next
    <2>1. stamp[f] = 0
      BY <1>4 DEF SendBarrier, LedgerInv, Stamps
    <2> QED
      BY <1>1, <1>2, <1>4, <2>1 DEF SendBarrier
  <1>5. ASSUME NEW f \in Flushers,
               CallFlush(f) \/ FlushReturns(f) \/ FlushCancelled(f) \/ Read(f) \/ Prune(f)
        PROVE  UNCHANGED Log!vars
    BY <1>5 DEF CallFlush, FlushReturns, FlushCancelled, Read, Prune, Log!vars
  <1>6. ASSUME NEW c \in Closers, CallClose(c)
        PROVE  [Log!Next]_Log!vars
    <2>1. CASE quit
      <3>1. quit \in BOOLEAN
        BY DEF LedgerInv, TypeInv, TypeOK
      <3> QED
        BY <1>6, <2>1, <3>1 DEF CallClose, Log!vars
    <2>2. CASE ~quit
      BY <1>6, <2>2 DEF CallClose, Log!Next, Log!AskToEnd
    <2> QED
      BY <2>1, <2>2
  <1>7. ASSUME NEW c \in Closers, CloseInner(c)
        PROVE  UNCHANGED Log!vars
    BY <1>7 DEF CloseInner, Log!vars
  <1>8. CASE Receive
    BY <1>8 DEF Receive, AcceptEvent, AcceptBarrier, StartCommit, CommitThenAck, Log!vars
  <1>9. CASE Tick \/ StartDrain \/ FinishDrain
    BY <1>9 DEF Tick, StartDrain, FinishDrain, StartCommit, CommitThenReport, Log!vars
  <1>10. CASE CloseAck
    <2>1. /\ writer = "ack" /\ writer' = "select" /\ batch = <<>> /\ barrier \in Flushers
          /\ Held = {barrier}
      BY <1>10 DEF CloseAck, Held, LedgerInv, TypeInv, WriterOK
    <2>2. stamp[barrier] > 0
      BY <2>1 DEF LedgerInv, BarrierPlaces
    <2>3. \A e \in Log!Pending : stamp[e] > stamp[barrier]
      <3> SUFFICES ASSUME NEW e \in Log!Pending
                   PROVE  stamp[e] > stamp[barrier]
        OBVIOUS
      <3>1. e \in Events
        BY DEF Log!Pending
      <3>2. e \in Range(queue)
        BY <2>1, <3>1, LogPending, RangeEmpty
      <3>3. stamp[barrier] < stamp[e] /\ stamp[barrier] \in Nat /\ stamp[e] \in Nat
        BY <1>2, <2>1, <3>1, <3>2, Contents DEF LedgerInv, Passed
      <3> QED
        BY <3>3
    <2>4. Log!Answer(barrier)
      BY <1>10, <2>1, <2>2, <2>3 DEF CloseAck, Log!Answer
    <2> QED
      BY <2>1, <2>4 DEF Log!Next
  <1>11. CASE ReportDropped
    <2>1. CASE ~draining
      BY <1>11, <2>1 DEF ReportDropped, AfterReport, Log!vars
    <2>2. CASE draining
      <3>1. batch = <<>> /\ quit /\ Ending /\ writer' = "stopped"
        BY <1>11, <2>2 DEF ReportDropped, AfterReport, LedgerInv, TypeInv, WriterOK, Stopping, Ending
      <3>2. \A e \in Log!Pending : stamp[e] > quitAt
        <4> SUFFICES ASSUME NEW e \in Log!Pending
                     PROVE  stamp[e] > quitAt
          OBVIOUS
        <4>1. e \in Events
          BY DEF Log!Pending
        <4>2. e \in Range(queue)
          BY <3>1, <4>1, LogPending, RangeEmpty
        <4>3. quitAt < stamp[e] /\ stamp[e] \in Nat /\ quitAt \in Nat
          BY <1>2, <3>1, <4>1, <4>2, Contents DEF LedgerInv, Stopping
        <4> QED
          BY <4>3
      <3>3. Log!End
        BY <1>11, <3>1, <3>2 DEF ReportDropped, Log!End
      <3> QED
        BY <3>3 DEF Log!Next
    <2> QED
      BY <2>1, <2>2 DEF LedgerInv, TypeInv, TypeOK
  <1>12. CASE UNCHANGED vars
    BY <1>12 DEF vars, Log!vars
  <1> QED
    BY <1>3, <1>4, <1>5, <1>6, <1>7, <1>8, <1>9, <1>10, <1>11, <1>12, CommitSettles
    DEF Next, Writer, Flush

\* The queue, the batches and the writer implement the best-effort log in arrival
\* order, for any traffic and any sizes.
THEOREM LedgerImplementsLog == SafeSpec => ImplementsLog
  <1>1. Init => Log!Init
    BY RangeEmpty DEF Init, Log!Init, Items
  <1>2. LedgerInv /\ [Next]_vars => [Log!Next]_Log!vars
    BY StepRefines
  <1> QED
    BY <1>1, <1>2, LedgerInvariant, PTL DEF SafeSpec, ImplementsLog, Log!Spec
=============================================================================
