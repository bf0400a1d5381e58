-------------------------- MODULE DeploymentProofs --------------------------
(***************************************************************************)
(* Theorems about Deployment, for any requests, rows of older versions,    *)
(* generations and commands, and a clock of any length and grain.          *)
(***************************************************************************)
EXTENDS Deployment, TLAPS

-----------------------------------------------------------------------------
(* The store: what holds whoever opens it                                  *)

\* Whoever opens the ledger undisturbed is the only one who does.
Undisturbed ==
  \A h, i \in Handles :
    opening[h] \in Opening /\ h \notin disturbed /\ opening[i] \in Opening => h = i

\* What an opening knows of the table at its place, and what it found there if
\* nobody has disturbed it.
OpenPlace(h) ==
  /\ opening[h] \notin {"closed", "failed", "schema"} => columns # NoTable
  /\ opening[h] \in Opening \ {"schema"} => dialect = "sqlite"
  /\ opening[h] \in {"fill", "probe_enforced", "add_enforced"} => "event_id" \in columns
  /\ opening[h] = "add_id" /\ "event_id" \in columns => h \in disturbed
  /\ opening[h] = "add_enforced" /\ "enforced" \in columns => h \in disturbed
  /\ opening[h] = "failed" => h \in disturbed
  /\ opening[h] = "open" => columns = Migrated

\* ExportVerifies, of one row.
RowVerifies(e) == dialect # "mysql" /\ rows[e].receipt.signed => Verifies(rows[e])

StoreInv ==
  /\ StoreTypeOK
  /\ Undisturbed
  /\ \A h \in Handles : OpenPlace(h)
  /\ dialect # "sqlite" => columns \in {NoTable, Migrated}
  /\ columns = NoTable => DOMAIN rows = {}
  /\ ExportFails /\ "event_id" \in columns => halfway \/ \E h \in Handles : opening[h] = "fill"
  /\ \A e \in DOMAIN rows : RowVerifies(e)

LEMMA InitStore == StoreInit => StoreInv
  <1> SUFFICES ASSUME StoreInit PROVE StoreInv
    OBVIOUS
  <1>1. 0 \in 0..MaxSecond /\ 0 \in 0..(MaxSecond + 1) /\ 0 \in 0..LastFraction
    BY ClockAssumption
  <1>2. columns \in (SUBSET Migrated) \cup {NoTable}
    BY DEF StoreInit, Migrated, NoTable
  <1>3. /\ DOMAIN rows \subseteq Events /\ rows \in [DOMAIN rows -> Rows]
        /\ \A e \in DOMAIN rows : ~rows[e].receipt.signed
    BY <1>1 DEF StoreInit, Events, Rows, Receipts
  <1>4. columns \in {NoTable, Migrated} => DOMAIN rows = {}
    BY DEF StoreInit
  <1>5. ExportFails => "event_id" \notin columns
    BY DEF StoreInit, ExportFails
  <1>6. Undisturbed /\ \A h \in Handles : OpenPlace(h)
    BY DEF StoreInit, Undisturbed, OpenPlace, Opening
  <1>7. StoreTypeOK
    BY <1>2, <1>3 DEF StoreInit, StoreTypeOK
  <1> QED
    BY <1>3, <1>4, <1>5, <1>6, <1>7 DEF StoreInit, StoreInv, RowVerifies

-----------------------------------------------------------------------------
(* Opening                                                                 *)

LEMMA BeginKeeps ==
  ASSUME StoreInv, NEW h \in Handles, BeginOpen(h)
  PROVE  StoreInv'
  <1>1. /\ opening[h] = "closed" /\ opening' = [opening EXCEPT ![h] = "schema"]
        /\ UNCHANGED <<dialect, columns, rows, halfway>>
    BY DEF BeginOpen, Step
  <1>2. StoreTypeOK'
    BY <1>1 DEF StoreInv, StoreTypeOK, BeginOpen, Opening
  <1>3. opening'[h] = "schema" /\ \A i \in Handles \ {h} : opening'[i] = opening[i]
    BY <1>1 DEF StoreInv, StoreTypeOK
  <1>4. /\ disturbed \subseteq disturbed'
        /\ \A i \in Handles : opening[i] \in Opening => i \in disturbed' /\ h \in disturbed'
    BY DEF BeginOpen
  <1>5. Undisturbed'
    BY <1>3, <1>4 DEF Undisturbed
  <1>6. ASSUME NEW i \in Handles PROVE OpenPlace(i)'
    BY <1>1, <1>3, <1>4 DEF StoreInv, OpenPlace
  <1>7. ExportFails' = ExportFails
    BY <1>1 DEF ExportFails
  <1>8. (\E i \in Handles : opening[i] = "fill") => \E i \in Handles : opening'[i] = "fill"
    BY <1>1, <1>3
  <1>9. \A e \in DOMAIN rows' : RowVerifies(e)'
    BY <1>1 DEF StoreInv, RowVerifies, Verifies
  <1> QED
    BY <1>1, <1>2, <1>5, <1>6, <1>7, <1>8, <1>9 DEF StoreInv

\* What every statement of an opening does to the openings.
LEMMA OpenToMoves ==
  ASSUME StoreInv, NEW h \in Handles, NEW from \in Opening,
         NEW to \in Opening \cup {"open", "failed"}, OpenTo(h, from, to)
  PROVE  /\ opening[h] = from /\ opening'[h] = to
         /\ \A i \in Handles \ {h} : opening'[i] = opening[i] /\ (i \in disturbed' <=> i \in disturbed)
         /\ to # "open" => disturbed' = disturbed
         /\ opening' \in [Handles -> Opening \cup {"closed", "open", "failed"}]
         /\ disturbed' \subseteq Handles
         /\ Undisturbed'
  <1>1. /\ opening[h] = from /\ opening' = [opening EXCEPT ![h] = to]
        /\ disturbed' = IF to = "open" THEN disturbed \ {h} ELSE disturbed
        /\ opening \in [Handles -> Opening \cup {"closed", "open", "failed"}]
        /\ disturbed \subseteq Handles
    BY DEF OpenTo, Step, StoreInv, StoreTypeOK
  <1>2. /\ opening'[h] = to
        /\ \A i \in Handles \ {h} : opening'[i] = opening[i] /\ (i \in disturbed' <=> i \in disturbed)
    BY <1>1
  <1>3. Undisturbed'
    <2>1. \A i \in Handles : opening'[i] \in Opening => opening[i] \in Opening
      BY <1>1, <1>2
    <2>2. \A i \in Handles : opening'[i] \in Opening /\ i \notin disturbed' => i \notin disturbed
      BY <1>1, <1>2 DEF Opening
    <2> QED
      BY <2>1, <2>2 DEF StoreInv, Undisturbed
  <1> QED
    BY <1>1, <1>2, <1>3

\* Looking does nothing to the table.
LEMMA LookKeeps ==
  ASSUME StoreInv, NEW h \in Handles, NEW from \in Opening \ {"fill"},
         NEW to \in Opening \cup {"open"}, OpenTo(h, from, to),
         UNCHANGED <<dialect, columns, rows, halfway>>,
         OpenPlace(h)'
  PROVE  StoreInv'
  <1>1. /\ opening[h] = from /\ opening'[h] = to
        /\ \A i \in Handles \ {h} : opening'[i] = opening[i] /\ (i \in disturbed' <=> i \in disturbed)
        /\ opening' \in [Handles -> Opening \cup {"closed", "open", "failed"}]
        /\ disturbed' \subseteq Handles
        /\ Undisturbed'
    BY OpenToMoves
  <1>2. StoreTypeOK'
    BY <1>1 DEF StoreInv, StoreTypeOK
  <1>3. ASSUME NEW i \in Handles PROVE OpenPlace(i)'
    BY <1>1 DEF StoreInv, OpenPlace
  <1>4. ExportFails' = ExportFails
    BY DEF ExportFails
  <1>5. (\E i \in Handles : opening[i] = "fill") => \E i \in Handles : opening'[i] = "fill"
    BY <1>1
  <1>6. \A e \in DOMAIN rows' : RowVerifies(e)'
    BY DEF StoreInv, RowVerifies, Verifies
  <1> QED
    BY <1>1, <1>2, <1>3, <1>4, <1>5, <1>6 DEF StoreInv

LEMMA SchemaKeeps ==
  ASSUME StoreInv, NEW h \in Handles, ApplySchema(h)
  PROVE  StoreInv'
  <1> DEFINE to == IF dialect = "sqlite" THEN "probe_id" ELSE "open"
  <1>1. /\ OpenTo(h, "schema", to) /\ UNCHANGED <<dialect, rows, halfway>>
        /\ columns' = IF columns = NoTable THEN Migrated ELSE columns
    BY DEF ApplySchema
  <1>2. /\ opening[h] = "schema" /\ opening'[h] = to
        /\ \A i \in Handles \ {h} : opening'[i] = opening[i] /\ (i \in disturbed' <=> i \in disturbed)
        /\ opening' \in [Handles -> Opening \cup {"closed", "open", "failed"}]
        /\ disturbed' \subseteq Handles
        /\ Undisturbed'
    BY <1>1, OpenToMoves DEF Opening
  <1>3. columns' # NoTable /\ columns' \subseteq Migrated /\ (dialect # "sqlite" => columns' = Migrated)
    BY <1>1 DEF StoreInv, StoreTypeOK, NoTable, Migrated
  <1>4. StoreTypeOK'
    BY <1>1, <1>2, <1>3 DEF StoreInv, StoreTypeOK
  <1>5. ASSUME NEW i \in Handles PROVE OpenPlace(i)'
    <2>1. CASE i = h
      BY <1>1, <1>2, <1>3, <2>1 DEF OpenPlace, Opening
    <2>2. CASE i # h /\ columns = NoTable
      <3>1. OpenPlace(i) /\ opening'[i] = opening[i] /\ (i \in disturbed' <=> i \in disturbed)
        BY <1>2, <2>2 DEF StoreInv
      <3>2. opening[i] \in {"closed", "failed", "schema"}
        BY <2>2, <3>1 DEF OpenPlace
      <3>3. opening'[i] = "failed" => i \in disturbed'
        BY <3>1 DEF OpenPlace
      <3>4. opening'[i] \in {"closed", "failed", "schema"}
        BY <3>1, <3>2
      <3>5. CASE opening'[i] = "failed"
        BY <3>3, <3>5 DEF OpenPlace, Opening
      <3>6. CASE opening'[i] \in {"closed", "schema"}
        BY <3>6 DEF OpenPlace, Opening
      <3> QED
        BY <3>4, <3>5, <3>6
    <2>3. CASE i # h /\ columns # NoTable
      BY <1>1, <1>2, <1>3, <2>3 DEF StoreInv, OpenPlace
    <2> QED
      BY <2>1, <2>2, <2>3
  <1>6. ExportFails' /\ "event_id" \in columns' => ExportFails /\ "event_id" \in columns
    BY <1>1 DEF ExportFails, StoreInv
  <1>7. (\E i \in Handles : opening[i] = "fill") => \E i \in Handles : opening'[i] = "fill"
    BY <1>2
  <1>8. \A e \in DOMAIN rows' : RowVerifies(e)'
    BY <1>1 DEF StoreInv, RowVerifies, Verifies
  <1> QED
    BY <1>1, <1>2, <1>3, <1>4, <1>5, <1>6, <1>7, <1>8 DEF StoreInv

LEMMA ProbesKeep ==
  ASSUME StoreInv, NEW h \in Handles, ProbeEventID(h) \/ ProbeEnforced(h)
  PROVE  StoreInv'
  <1>1. columns \in (SUBSET Migrated) \cup {NoTable} /\ OpenPlace(h)
    BY DEF StoreInv, StoreTypeOK
  <1>2. CASE ProbeEventID(h)
    <2> DEFINE to == IF ColumnExists("event_id") THEN "probe_enforced" ELSE "add_id"
    <2>1. OpenTo(h, "probe_id", to) /\ UNCHANGED <<dialect, columns, rows, halfway>>
      BY <1>2 DEF ProbeEventID
    <2>2. opening[h] = "probe_id" /\ opening'[h] = to
      BY <2>1, OpenToMoves DEF Opening
    <2>3. OpenPlace(h)'
      BY <1>1, <2>1, <2>2 DEF OpenPlace, ColumnExists, Opening
    <2> QED
      BY <2>1, <2>3, LookKeeps DEF Opening
  <1>3. CASE ProbeEnforced(h)
    <2> DEFINE to == IF ColumnExists("enforced") THEN "open" ELSE "add_enforced"
    <2>1. OpenTo(h, "probe_enforced", to) /\ UNCHANGED <<dialect, columns, rows, halfway>>
      BY <1>3 DEF ProbeEnforced
    <2>2. opening[h] = "probe_enforced" /\ opening'[h] = to
      BY <2>1, OpenToMoves DEF Opening
    <2>3. OpenPlace(h)'
      BY <1>1, <2>1, <2>2 DEF OpenPlace, ColumnExists, Opening, Migrated, NoTable
    <2> QED
      BY <2>1, <2>3, LookKeeps DEF Opening
  <1> QED
    BY <1>2, <1>3

LEMMA AddKeeps ==
  ASSUME StoreInv, NEW h \in Handles,
         AddColumn(h, "add_id", "event_id", "fill")
           \/ AddColumn(h, "add_enforced", "enforced", "open")
  PROVE  StoreInv'
  <1>1. PICK from \in {"add_id", "add_enforced"} :
          LET column == IF from = "add_id" THEN "event_id" ELSE "enforced"
              next == IF from = "add_id" THEN "fill" ELSE "open"
          IN AddColumn(h, from, column, next)
    OBVIOUS
  <1> DEFINE column == IF from = "add_id" THEN "event_id" ELSE "enforced"
             to == IF column \in columns THEN "failed"
                   ELSE IF from = "add_id" THEN "fill" ELSE "open"
  <1>2. /\ OpenTo(h, from, to) /\ columns' = columns \cup {column}
        /\ UNCHANGED <<dialect, rows, halfway>>
    BY <1>1 DEF AddColumn
  <1>3. /\ opening[h] = from /\ opening'[h] = to
        /\ \A i \in Handles \ {h} : opening'[i] = opening[i] /\ (i \in disturbed' <=> i \in disturbed)
        /\ to # "open" => disturbed' = disturbed
        /\ opening' \in [Handles -> Opening \cup {"closed", "open", "failed"}]
        /\ disturbed' \subseteq Handles
        /\ Undisturbed'
    BY <1>2, OpenToMoves DEF Opening
  <1>4. OpenPlace(h) /\ columns \in (SUBSET Migrated) \cup {NoTable}
    BY DEF StoreInv, StoreTypeOK
  <1>5. columns # NoTable /\ columns \subseteq Migrated /\ dialect = "sqlite"
    BY <1>3, <1>4 DEF OpenPlace, Opening
  <1>6. columns' \subseteq Migrated /\ columns' # NoTable /\ columns \subseteq columns'
    BY <1>2, <1>5 DEF Migrated, NoTable
  <1>7. StoreTypeOK'
    BY <1>2, <1>3, <1>6 DEF StoreInv, StoreTypeOK
  <1>8. OpenPlace(h)'
    <2>1. CASE to = "failed"
      BY <1>2, <1>3, <1>4, <1>6, <2>1 DEF OpenPlace, Opening
    <2>2. CASE to = "fill"
      BY <1>2, <1>3, <1>5, <1>6, <2>2 DEF OpenPlace, Opening
    <2>3. CASE to = "open"
      BY <1>2, <1>3, <1>4, <1>5, <1>6, <2>3 DEF OpenPlace, Opening, Migrated
    <2> QED
      BY <2>1, <2>2, <2>3
  <1>9. ASSUME NEW i \in Handles, i # h PROVE OpenPlace(i)'
    <2>1. /\ OpenPlace(i) /\ opening'[i] = opening[i] /\ (i \in disturbed' <=> i \in disturbed)
          /\ opening[i] \in Opening \cup {"closed", "open", "failed"}
      BY <1>3, <1>9 DEF StoreInv, StoreTypeOK
    <2>2. opening[i] \in Opening => i \in disturbed
      BY <1>3, <1>9 DEF StoreInv, Undisturbed, Opening
    <2>3. opening[i] = "open" => columns' = Migrated
      BY <1>6, <2>1 DEF OpenPlace
    <2> QED
      BY <1>2, <1>5, <1>6, <2>1, <2>2, <2>3 DEF OpenPlace, Opening
  <1>10. ExportFails' /\ "event_id" \in columns' =>
           halfway' \/ \E i \in Handles : opening'[i] = "fill"
    <2>1. ExportFails' = ExportFails
      BY <1>2 DEF ExportFails
    <2>2. CASE to = "fill"
      BY <1>3, <2>2
    <2>3. CASE to # "fill"
      <3>1. "event_id" \in columns' => "event_id" \in columns
        BY <1>2, <2>3
      <3>2. (\E i \in Handles : opening[i] = "fill") => \E i \in Handles : opening'[i] = "fill"
        BY <1>3
      <3> QED
        BY <1>2, <2>1, <3>1, <3>2 DEF StoreInv
    <2> QED
      BY <2>2, <2>3
  <1>11. \A e \in DOMAIN rows' : RowVerifies(e)'
    BY <1>2 DEF StoreInv, RowVerifies, Verifies
  <1> QED
    BY <1>2, <1>3, <1>5, <1>6, <1>7, <1>8, <1>9, <1>10, <1>11 DEF StoreInv

LEMMA FillKeeps ==
  ASSUME StoreInv, NEW h \in Handles, FillEventIDs(h)
  PROVE  StoreInv'
  <1>1. /\ OpenTo(h, "fill", "probe_enforced") /\ UNCHANGED <<dialect, columns, halfway>>
        /\ DOMAIN rows' = DOMAIN rows
        /\ \A e \in DOMAIN rows :
             rows'[e] = IF MissingID(rows[e]) THEN [rows[e] EXCEPT !.id = "legacy"] ELSE rows[e]
    BY DEF FillEventIDs
  <1>2. /\ opening[h] = "fill" /\ opening'[h] = "probe_enforced"
        /\ \A i \in Handles \ {h} : opening'[i] = opening[i] /\ (i \in disturbed' <=> i \in disturbed)
        /\ disturbed' = disturbed
        /\ opening' \in [Handles -> Opening \cup {"closed", "open", "failed"}]
        /\ disturbed' \subseteq Handles
        /\ Undisturbed'
    BY <1>1, OpenToMoves DEF Opening
  <1>3. ASSUME NEW e \in DOMAIN rows
        PROVE  /\ rows'[e] \in Rows /\ rows'[e].id # "null"
               /\ rows'[e].receipt = rows[e].receipt /\ rows'[e].ts = rows[e].ts
               /\ rows[e].id = "given" => rows'[e].id = "given"
    <2>1. rows[e] \in Rows
      BY DEF StoreInv, StoreTypeOK
    <2> QED
      BY <1>1, <2>1 DEF Rows, MissingID
  <1>4. StoreTypeOK'
    <2>1. rows' = [e \in DOMAIN rows |-> rows'[e]]
      BY DEF FillEventIDs
    <2>2. rows' \in [DOMAIN rows' -> Rows]
      BY <1>1, <1>3, <2>1
    <2> QED
      BY <1>1, <1>2, <2>2 DEF StoreInv, StoreTypeOK
  <1>5. ASSUME NEW i \in Handles PROVE OpenPlace(i)'
    BY <1>1, <1>2 DEF StoreInv, OpenPlace, Opening
  <1>6. ~ExportFails'
    BY <1>1, <1>3 DEF ExportFails
  <1>7. \A e \in DOMAIN rows' : RowVerifies(e)'
    BY <1>1, <1>3 DEF StoreInv, RowVerifies, Verifies
  <1> QED
    BY <1>1, <1>2, <1>4, <1>5, <1>6, <1>7 DEF StoreInv

LEMMA OpenStepKeeps ==
  ASSUME StoreInv, NEW h \in Handles, OpenStep(h)
  PROVE  StoreInv'
  BY SchemaKeeps, ProbesKeep, AddKeeps, FillKeeps DEF OpenStep

-----------------------------------------------------------------------------
(* Closing, writing and pruning                                            *)

LEMMA ReleaseKeeps ==
  ASSUME StoreInv, NEW hs \in SUBSET Handles, Release(hs)
  PROVE  StoreInv'
  <1>1. /\ opening' = [i \in Handles |-> IF i \in hs THEN "closed" ELSE opening[i]]
        /\ disturbed' = disturbed \ hs
        /\ halfway' = (halfway \/ (ExportFails /\ \E i \in hs : opening[i] = "fill"))
        /\ UNCHANGED <<dialect, columns, rows>>
    BY DEF Release
  <1>2. StoreTypeOK'
    BY <1>1 DEF StoreInv, StoreTypeOK
  <1>3. \A i \in Handles : /\ i \in hs => opening'[i] = "closed"
                           /\ i \notin hs => opening'[i] = opening[i] /\ (i \in disturbed' <=> i \in disturbed)
    BY <1>1
  <1>4. Undisturbed'
    BY <1>3 DEF StoreInv, Undisturbed, Opening
  <1>5. ASSUME NEW i \in Handles PROVE OpenPlace(i)'
    <2>1. CASE i \in hs
      BY <1>3, <2>1 DEF OpenPlace, Opening
    <2>2. CASE i \notin hs
      BY <1>1, <1>3, <2>2 DEF StoreInv, OpenPlace
    <2> QED
      BY <2>1, <2>2
  <1>6. ExportFails' = ExportFails
    BY <1>1 DEF ExportFails
  <1>7. ExportFails' /\ "event_id" \in columns' =>
          halfway' \/ \E i \in Handles : opening'[i] = "fill"
    BY <1>1, <1>3, <1>6 DEF StoreInv
  <1>8. \A e \in DOMAIN rows' : RowVerifies(e)'
    BY <1>1 DEF StoreInv, RowVerifies, Verifies
  <1> QED
    BY <1>1, <1>2, <1>4, <1>5, <1>7, <1>8 DEF StoreInv

\* What rounding does to a fraction.
LEMMA RoundedNear ==
  ASSUME NEW f \in Nat
  PROVE  /\ Floor(f) \in Nat /\ Floor(f) <= f
         /\ Rounded(f) \in Nat /\ Rounded(f) >= Floor(f)
  <1> DEFINE part == f % Grain
  <1>1. part \in Nat /\ part <= f
    BY GrainAssumption
  <1>2. Floor(f) = f - part /\ Rounded(f) = IF 2 * part < Grain THEN f - part ELSE f - part + Grain
    BY DEF Floor, Rounded
  <1> HIDE DEF part
  <1> QED
    BY <1>1, <1>2, GrainAssumption

\* The time that a column keeps has its type; the second is the event's own,
\* unless MySQL rounds.
LEMMA ColumnTypes ==
  ASSUME NEW t \in Times
  PROVE  /\ Column(TimeArg(t)) \in [second : 0..(MaxSecond + 1), fraction : 0..LastFraction]
         /\ dialect # "mysql" => Column(TimeArg(t)).second = t.second
  <1>1. /\ t.second \in 0..MaxSecond /\ t.fraction \in 0..LastFraction
        /\ t = [second |-> t.second, fraction |-> t.fraction]
    BY DEF Times
  <1>2. /\ TimeArg(t).second = t.second /\ TimeArg(t).fraction \in 0..LastFraction
        /\ TimeArg(t) = [second |-> t.second, fraction |-> TimeArg(t).fraction]
    BY <1>1, ClockAssumption DEF TimeArg
  <1>3. t.second \in 0..(MaxSecond + 1) /\ t.second + 1 \in 0..(MaxSecond + 1) /\ 0 \in 0..LastFraction
    BY <1>1, ClockAssumption
  <1>4. CASE dialect # "mysql"
    BY <1>1, <1>2, <1>3, <1>4 DEF Column
  <1>5. CASE dialect = "mysql"
    <2> DEFINE f == TimeArg(t).fraction
    <2>1. f \in Nat /\ LastFraction \in Nat
      BY <1>2, ClockAssumption
    <2>2. Rounded(f) \in Nat
      BY <2>1, RoundedNear
    <2>3. CASE Rounded(f) > LastFraction
      BY <1>2, <1>3, <1>5, <2>3 DEF Column
    <2>4. CASE ~(Rounded(f) > LastFraction)
      <3>1. Column(TimeArg(t)) = [second |-> t.second, fraction |-> Rounded(f)]
        BY <1>2, <1>5, <2>4 DEF Column
      <3>2. Rounded(f) \in 0..LastFraction
        BY <2>1, <2>2, <2>4
      <3> QED
        BY <1>3, <1>5, <3>1, <3>2
    <2> QED
      BY <2>3, <2>4
  <1> QED
    BY <1>4, <1>5

LEMMA InsertKeeps ==
  ASSUME StoreInv, NEW r \in Requests, NEW start_r \in Times, NEW sign \in BOOLEAN,
         columns = Migrated, Insert(r, start_r, sign)
  PROVE  StoreInv'
  <1> DEFINE row == [id |-> "given", ts |-> Column(TimeArg(start_r)),
                     receipt |-> [signed |-> sign, second |-> IF sign THEN start_r.second ELSE 0]]
  <1>1. /\ rows' = [e \in DOMAIN rows \cup {r} |-> IF e = r THEN row ELSE rows[e]]
        /\ UNCHANGED <<dialect, columns, opening, disturbed, halfway>>
    BY DEF Insert
  <1>2. /\ row \in Rows /\ row.id = "given" /\ row.receipt.signed = sign
        /\ sign /\ dialect # "mysql" => row.ts.second = row.receipt.second
    <2>1. /\ Column(TimeArg(start_r)) \in [second : 0..(MaxSecond + 1), fraction : 0..LastFraction]
          /\ dialect # "mysql" => Column(TimeArg(start_r)).second = start_r.second
      BY ColumnTypes
    <2>2. start_r.second \in 0..MaxSecond /\ 0 \in 0..MaxSecond
      BY ClockAssumption DEF Times
    <2> QED
      BY <2>1, <2>2 DEF Rows, Receipts
  <1>3. /\ DOMAIN rows' = DOMAIN rows \cup {r} /\ rows'[r] = row
        /\ \A e \in DOMAIN rows \ {r} : rows'[e] = rows[e]
    BY <1>1
  <1>4. StoreTypeOK'
    <2>1. DOMAIN rows' \subseteq Events
      BY <1>3 DEF StoreInv, StoreTypeOK, Events
    <2>2. \A e \in DOMAIN rows' : rows'[e] \in Rows
      BY <1>2, <1>3 DEF StoreInv, StoreTypeOK
    <2>3. rows' = [e \in DOMAIN rows' |-> rows'[e]]
      BY <1>1
    <2>4. rows' \in [DOMAIN rows' -> Rows]
      BY <2>2, <2>3
    <2> QED
      BY <1>1, <2>1, <2>4 DEF StoreInv, StoreTypeOK
  <1>5. Undisturbed' /\ \A h \in Handles : OpenPlace(h)'
    BY <1>1 DEF StoreInv, Undisturbed, OpenPlace
  <1>6. ExportFails' => ExportFails
    BY <1>2, <1>3 DEF ExportFails
  <1>7. \A e \in DOMAIN rows' : RowVerifies(e)'
    BY <1>1, <1>2, <1>3 DEF StoreInv, RowVerifies, Verifies
  <1>8. columns' # NoTable
    BY <1>1 DEF Migrated, NoTable
  <1> QED
    BY <1>1, <1>4, <1>5, <1>6, <1>7, <1>8 DEF StoreInv

LEMMA PruneKeeps ==
  ASSUME StoreInv, NEW before \in Times, Prune(before)
  PROVE  /\ StoreInv'
         /\ DOMAIN rows' \subseteq DOMAIN rows
         /\ \A e \in DOMAIN rows' : rows'[e] = rows[e]
  <1>1. /\ rows' = [e \in {d \in DOMAIN rows : ~Expired(rows[d], before)} |-> rows[e]]
        /\ UNCHANGED <<dialect, columns, opening, disturbed, halfway>>
    BY DEF Prune, Restrict
  <1>2. /\ DOMAIN rows' \subseteq DOMAIN rows
        /\ \A e \in DOMAIN rows' : rows'[e] = rows[e]
    BY <1>1
  <1>3. rows' \in [DOMAIN rows' -> Rows]
    BY <1>1, <1>2 DEF StoreInv, StoreTypeOK
  <1>4. StoreTypeOK'
    BY <1>1, <1>2, <1>3 DEF StoreInv, StoreTypeOK
  <1>5. Undisturbed' /\ \A h \in Handles : OpenPlace(h)'
    BY <1>1 DEF StoreInv, Undisturbed, OpenPlace
  <1>6. ExportFails' => ExportFails
    BY <1>2 DEF ExportFails
  <1>7. \A e \in DOMAIN rows' : RowVerifies(e)'
    BY <1>1, <1>2 DEF StoreInv, RowVerifies, Verifies
  <1> QED
    BY <1>1, <1>2, <1>4, <1>5, <1>6, <1>7 DEF StoreInv

-----------------------------------------------------------------------------
(* The invariant of a deployment                                           *)

\* What a generation holds at its place.
Placed(g) ==
  /\ phase[g] = "opening" => opening[g] \in Opening
  /\ phase[g] \in {"building", "provisioned", "serving", "stopping", "closing"} => opening[g] = "open"
  /\ phase[g] \in {"unloaded", "refused", "clean", "crashed"} => opening[g] \in {"closed", "failed"}
  /\ refresher[g] => phase[g] \in {"provisioned", "serving", "stopping"}
  /\ phase[g] = "clean" => Range(queue[g]) \subseteq late

\* Where a request and its event are.
Traced(r) ==
  /\ served[r] = "idle" => r \notin DOMAIN rows
  /\ served[r] # "idle" => by[r] \in Generations
  /\ served[r] = "inside" => phase[by[r]] = "serving" \/ r \in overtaken
  /\ served[r] = "queued" => r \in settled \/ r \in Range(queue[by[r]])
  /\ r \in late => r \in overtaken
  /\ r \in DOMAIN rows => rows[r].ts = Column(TimeArg(start[r]))

ModuleTypes ==
  /\ now \in Instants
  /\ phase \in [Generations -> {"unloaded", "opening", "building", "provisioned", "serving",
                                "stopping", "closing", "clean", "refused", "crashed"}]
  /\ active \in Generations \cup {0}
  /\ refresher \in [Generations -> BOOLEAN]
  /\ command \in [Commands -> {"idle", "opening", "ran", "ended"}]

RequestTypes ==
  /\ queue \in [Generations -> Seq(Requests)]
  /\ served \in [Requests -> {"idle", "inside", "queued", "over"}]
  /\ by \in [Requests -> Generations \cup {0}]
  /\ start \in [Requests -> Times]
  /\ signed \subseteq Requests
  /\ settled \subseteq Requests
  /\ overtaken \subseteq Requests
  /\ late \subseteq Requests

ActiveServes == active # 0 => phase[active] = "serving"
QueuedOnly == \A g \in Generations : \A r \in Range(queue[g]) : served[r] = "queued"

DeployInv ==
  /\ StoreInv /\ ModuleTypes /\ RequestTypes
  /\ ActiveServes /\ QueuedOnly
  /\ \A g \in Generations : Placed(g)
  /\ \A r \in Requests : Traced(r)

\* A step that writes no row.
NothingWritten ==
  /\ dialect' = dialect
  /\ DOMAIN rows' \subseteq DOMAIN rows
  /\ \A e \in DOMAIN rows' : rows'[e].ts = rows[e].ts

LEMMA InitDeploy == Init => DeployInv
  <1> SUFFICES ASSUME Init PROVE DeployInv
    OBVIOUS
  <1>1. StoreInv /\ \A r \in Requests : r \notin DOMAIN rows
    <2>1. StoreInv
      BY InitStore DEF Init
    <2>2. DOMAIN rows \subseteq LegacyRows
      BY DEF Init, StoreInit
    <2> QED
      BY <2>1, <2>2, LegacyAssumption
  <1>2. now \in Instants
    BY DEF Init
  <1>3. ModuleTypes /\ RequestTypes
    BY <1>2, InstantsAssumption DEF Init, ModuleTypes, RequestTypes
  <1>4. ActiveServes /\ QueuedOnly
    BY DEF Init, ActiveServes, QueuedOnly, Range
  <1>5. \A g \in Generations : Placed(g)
    BY HandlesAssumption DEF Init, StoreInit, Placed, Range
  <1>6. \A r \in Requests : Traced(r)
    BY <1>1 DEF Init, Traced
  <1> QED
    BY <1>1, <1>3, <1>4, <1>5, <1>6 DEF DeployInv

-----------------------------------------------------------------------------
(* Steps that leave the requests alone                                     *)

\* A step of the modules or of the command line, which leaves the generation
\* that serves where it is.
LEMMA Moves ==
  ASSUME DeployInv, StoreInv', NothingWritten, ModuleTypes', ActiveServes',
         \A g \in Generations : Placed(g)',
         \A g \in Generations : phase[g] = "serving" => phase'[g] = "serving",
         UNCHANGED <<queue, requestVars, settled, overtaken, late>>
  PROVE  DeployInv'
  <1>1. RequestTypes' /\ QueuedOnly'
    BY DEF DeployInv, RequestTypes, QueuedOnly, requestVars
  <1>2. ASSUME NEW r \in Requests PROVE Traced(r)'
    <2>1. Traced(r) /\ UNCHANGED <<served, by, start, queue, settled, overtaken, late, dialect>>
      BY DEF DeployInv, requestVars, NothingWritten
    <2>2. served[r] = "inside" => phase'[by[r]] = "serving" \/ r \in overtaken
      BY <2>1 DEF Traced
    <2>3. r \in DOMAIN rows' => r \in DOMAIN rows /\ rows'[r].ts = rows[r].ts
      BY DEF NothingWritten
    <2>4. Column(TimeArg(start[r]))' = Column(TimeArg(start[r]))
      BY <2>1 DEF Column, TimeArg
    <2> QED
      BY <2>1, <2>2, <2>3, <2>4 DEF Traced
  <1> QED
    BY <1>1, <1>2 DEF DeployInv

LEMMA StoreRests ==
  ASSUME UNCHANGED storeVars
  PROVE  /\ StoreInv => StoreInv'
         /\ NothingWritten /\ opening' = opening
  <1>1. UNCHANGED <<dialect, columns, rows, opening, disturbed, halfway>>
    BY DEF storeVars
  <1>2. StoreTypeOK' = StoreTypeOK
    BY <1>1 DEF StoreTypeOK
  <1>3. Undisturbed' = Undisturbed /\ ExportFails' = ExportFails
    BY <1>1 DEF Undisturbed, ExportFails
  <1>4. \A h \in Handles : OpenPlace(h)' = OpenPlace(h)
    BY <1>1 DEF OpenPlace
  <1>5. \A e : RowVerifies(e)' = RowVerifies(e)
    BY <1>1 DEF RowVerifies, Verifies
  <1> QED
    BY <1>1, <1>2, <1>3, <1>4, <1>5 DEF StoreInv, NothingWritten

\* What an opening does to the openings and the rows.
LEMMA OpenStepMoves ==
  ASSUME StoreInv, NEW h \in Handles, OpenStep(h)
  PROVE  /\ opening[h] \in Opening
         /\ opening'[h] \in Opening \cup {"open", "failed"}
         /\ \A i \in Handles \ {h} : opening'[i] = opening[i]
         /\ NothingWritten
  <1>1. PICK from \in Opening, to \in Opening \cup {"open", "failed"} : OpenTo(h, from, to)
    BY DEF OpenStep, ApplySchema, ProbeEventID, FillEventIDs, ProbeEnforced, AddColumn, Opening
  <1>2. /\ opening[h] = from /\ opening'[h] = to
        /\ \A i \in Handles \ {h} : opening'[i] = opening[i]
    BY <1>1, OpenToMoves
  <1>3. NothingWritten
    <2>1. CASE FillEventIDs(h)
      <3>1. /\ DOMAIN rows' = DOMAIN rows /\ dialect' = dialect
            /\ \A e \in DOMAIN rows :
                 rows'[e] = IF MissingID(rows[e]) THEN [rows[e] EXCEPT !.id = "legacy"] ELSE rows[e]
        BY <2>1 DEF FillEventIDs
      <3>2. \A e \in DOMAIN rows : rows[e] \in Rows
        BY DEF StoreInv, StoreTypeOK
      <3> QED
        BY <3>1, <3>2 DEF NothingWritten, Rows
    <2>2. CASE UNCHANGED <<dialect, rows>>
      BY <2>2 DEF NothingWritten
    <2> QED
      BY <2>1, <2>2 DEF OpenStep, ApplySchema, ProbeEventID, ProbeEnforced, AddColumn
  <1> QED
    BY <1>1, <1>2, <1>3

LEMMA BeginMoves ==
  ASSUME StoreInv, NEW h \in Handles, BeginOpen(h)
  PROVE  /\ opening'[h] = "schema"
         /\ \A i \in Handles \ {h} : opening'[i] = opening[i]
         /\ NothingWritten
  BY DEF StoreInv, StoreTypeOK, BeginOpen, Step, NothingWritten

LEMMA ReleaseMoves ==
  ASSUME StoreInv, NEW hs \in SUBSET Handles, Release(hs)
  PROVE  /\ \A i \in Handles : opening'[i] = IF i \in hs THEN "closed" ELSE opening[i]
         /\ NothingWritten
  BY DEF Release, NothingWritten

-----------------------------------------------------------------------------
(* Provision, Caddy and Cleanup, of one generation                         *)

\* A step of one generation that is not serving, on its own place and handle.
LEMMA OneMoves ==
  ASSUME DeployInv, NEW g \in Generations, StoreInv', NothingWritten, ModuleTypes', Placed(g)',
         \A i \in Generations \ {g} :
           phase'[i] = phase[i] /\ opening'[i] = opening[i] /\ refresher'[i] = refresher[i],
         phase[g] # "serving", active' = active,
         UNCHANGED <<queue, requestVars, settled, overtaken, late>>
  PROVE  DeployInv'
  <1>1. ActiveServes'
    BY DEF DeployInv, ActiveServes, ModuleTypes
  <1>2. ASSUME NEW i \in Generations PROVE Placed(i)'
    BY DEF DeployInv, Placed
  <1>3. \A i \in Generations : phase[i] = "serving" => phase'[i] = "serving"
    OBVIOUS
  <1> QED
    BY <1>1, <1>2, <1>3, Moves

LEMMA GotoMoves ==
  ASSUME ModuleTypes, NEW g \in Generations, NEW from, NEW to, Goto(g, from, to)
  PROVE  /\ phase[g] = from /\ phase'[g] = to
         /\ \A i \in Generations \ {g} : phase'[i] = phase[i]
         /\ to \in {"unloaded", "opening", "building", "provisioned", "serving",
                    "stopping", "closing", "clean", "refused", "crashed"} =>
              phase' \in [Generations -> {"unloaded", "opening", "building", "provisioned", "serving",
                                          "stopping", "closing", "clean", "refused", "crashed"}]
  BY DEF ModuleTypes, Goto

LEMMA ProvisionKeeps ==
  ASSUME DeployInv, NEW g \in Generations, Provision(g)
  PROVE  DeployInv'
  <1> USE HandlesAssumption
  <1>1. StoreInv /\ ModuleTypes /\ Placed(g) /\ g \in Handles /\ {g} \in SUBSET Handles
    BY DEF DeployInv
  <1>2. \A i \in Generations \ {g} : i \in Handles \ {g}
    OBVIOUS
  <1>3. CASE LoadFile(g)
    <2>1. UNCHANGED <<now, active, refresher, queue, requestVars, command, settled, overtaken, late>>
      BY <1>3 DEF LoadFile
    <2>2. CASE Goto(g, "unloaded", "opening") /\ BeginOpen(g)
      <3>1. StoreInv' /\ opening'[g] = "schema" /\ NothingWritten
            /\ \A i \in Handles \ {g} : opening'[i] = opening[i]
        BY <1>1, <2>2, BeginKeeps, BeginMoves
      <3>2. /\ phase[g] = "unloaded" /\ phase'[g] = "opening"
            /\ \A i \in Generations \ {g} : phase'[i] = phase[i]
        BY <1>1, <2>2, GotoMoves
      <3>3. ModuleTypes'
        BY <1>1, <2>1, <2>2, GotoMoves DEF ModuleTypes
      <3>4. Placed(g)'
        BY <1>1, <2>1, <3>1, <3>2 DEF Placed, Opening
      <3> QED
        BY <1>2, <2>1, <3>1, <3>2, <3>3, <3>4, OneMoves
    <2>3. CASE Goto(g, "unloaded", "refused") /\ UNCHANGED storeVars
      <3>1. StoreInv' /\ opening' = opening /\ NothingWritten
        BY <1>1, <2>3, StoreRests
      <3>2. /\ phase[g] = "unloaded" /\ phase'[g] = "refused"
            /\ \A i \in Generations \ {g} : phase'[i] = phase[i]
        BY <1>1, <2>3, GotoMoves
      <3>3. ModuleTypes'
        BY <1>1, <2>1, <2>3, GotoMoves DEF ModuleTypes
      <3>4. Placed(g)'
        BY <1>1, <2>1, <3>1, <3>2 DEF Placed
      <3> QED
        BY <1>2, <2>1, <3>1, <3>2, <3>3, <3>4, OneMoves
    <2> QED
      BY <1>3, <2>2, <2>3 DEF LoadFile
  <1>4. CASE Open(g)
    <2> DEFINE to == CASE opening'[g] = "open" -> "building"
                       [] opening'[g] \in {"failed", "closed"} -> "refused"
                       [] OTHER -> "opening"
    <2>1. /\ UNCHANGED <<now, active, refresher, queue, requestVars, command, settled, overtaken, late>>
          /\ phase[g] = "opening" /\ phase' = [phase EXCEPT ![g] = to]
      BY <1>4 DEF Open
    <2>2. /\ StoreInv' /\ NothingWritten
          /\ opening'[g] \in Opening \cup {"open", "failed", "closed"}
          /\ \A i \in Generations \ {g} : opening'[i] = opening[i]
      <3>1. CASE OpenStep(g)
        BY <1>1, <1>2, <3>1, OpenStepKeeps, OpenStepMoves
      <3>2. CASE Release({g})
        BY <1>1, <1>2, <3>2, ReleaseKeeps, ReleaseMoves
      <3> QED
        BY <1>4, <3>1, <3>2 DEF Open
    <2>3. /\ phase'[g] = to /\ \A i \in Generations \ {g} : phase'[i] = phase[i]
      BY <1>1, <2>1 DEF ModuleTypes
    <2>4. to \in {"building", "refused", "opening"}
      OBVIOUS
    <2>5. ModuleTypes'
      BY <1>1, <2>1, <2>4 DEF ModuleTypes
    <2>6. Placed(g)'
      <3>1. ~refresher[g] /\ ~refresher'[g]
        BY <1>1, <2>1 DEF Placed
      <3>2. CASE opening'[g] = "open"
        BY <2>3, <3>1, <3>2 DEF Placed
      <3>3. CASE opening'[g] \in {"failed", "closed"}
        BY <2>3, <3>1, <3>3 DEF Placed
      <3>4. CASE opening'[g] \in Opening
        BY <2>3, <3>1, <3>4 DEF Placed, Opening
      <3> QED
        BY <2>2, <3>2, <3>3, <3>4
    <2> QED
      BY <2>1, <2>2, <2>3, <2>5, <2>6, OneMoves
  <1>5. CASE BuildFails(g)
    <2>1. /\ UNCHANGED <<now, active, refresher, queue, requestVars, command, settled, overtaken, late>>
          /\ Goto(g, "building", "refused") /\ Release({g})
      BY <1>5 DEF BuildFails, ClosedOnError
    <2>2. StoreInv' /\ NothingWritten /\ opening'[g] = "closed"
          /\ \A i \in Generations \ {g} : opening'[i] = opening[i]
      BY <1>1, <1>2, <2>1, ReleaseKeeps, ReleaseMoves
    <2>3. /\ phase[g] = "building" /\ phase'[g] = "refused"
          /\ \A i \in Generations \ {g} : phase'[i] = phase[i]
      BY <1>1, <2>1, GotoMoves
    <2>4. ModuleTypes'
      BY <1>1, <2>1, GotoMoves DEF ModuleTypes
    <2>5. Placed(g)'
      BY <1>1, <2>1, <2>2, <2>3 DEF Placed
    <2> QED
      BY <2>1, <2>2, <2>3, <2>4, <2>5, OneMoves
  <1>6. CASE Build(g)
    <2>1. /\ UNCHANGED <<storeVars, now, active, queue, requestVars, command, settled, overtaken, late>>
          /\ Goto(g, "building", "provisioned") /\ refresher' = [refresher EXCEPT ![g] = TRUE]
      BY <1>6 DEF Build
    <2>2. StoreInv' /\ opening' = opening /\ NothingWritten
      BY <1>1, <2>1, StoreRests
    <2>3. /\ phase[g] = "building" /\ phase'[g] = "provisioned"
          /\ \A i \in Generations \ {g} : phase'[i] = phase[i] /\ refresher'[i] = refresher[i]
      BY <1>1, <2>1, GotoMoves DEF ModuleTypes
    <2>4. ModuleTypes'
      BY <1>1, <2>1, GotoMoves DEF ModuleTypes
    <2>5. Placed(g)'
      BY <1>1, <2>1, <2>2, <2>3 DEF Placed
    <2> QED
      BY <2>1, <2>2, <2>3, <2>4, <2>5, OneMoves
  <1> QED
    BY <1>3, <1>4, <1>5, <1>6 DEF Provision

LEMMA CleanupKeeps ==
  ASSUME DeployInv, NEW g \in Generations, Cleanup(g)
  PROVE  DeployInv'
  <1> USE HandlesAssumption
  <1>1. StoreInv /\ ModuleTypes /\ Placed(g) /\ g \in Handles /\ {g} \in SUBSET Handles
    BY DEF DeployInv
  <1>2. CASE StopVerifier(g)
    <2>1. /\ UNCHANGED <<storeVars, now, active, queue, requestVars, command, settled, overtaken, late>>
          /\ Goto(g, "stopping", "closing") /\ refresher' = [refresher EXCEPT ![g] = FALSE]
      BY <1>2 DEF StopVerifier
    <2>2. StoreInv' /\ opening' = opening /\ NothingWritten
      BY <1>1, <2>1, StoreRests
    <2>3. /\ phase[g] = "stopping" /\ phase'[g] = "closing" /\ ~refresher'[g]
          /\ \A i \in Generations \ {g} : phase'[i] = phase[i] /\ refresher'[i] = refresher[i]
      BY <1>1, <2>1, GotoMoves DEF ModuleTypes
    <2>4. ModuleTypes'
      BY <1>1, <2>1, GotoMoves DEF ModuleTypes
    <2>5. Placed(g)'
      BY <1>1, <2>1, <2>2, <2>3 DEF Placed
    <2> QED
      BY <2>1, <2>2, <2>3, <2>4, <2>5, OneMoves
  <1>3. CASE CloseLedger(g)
    <2>1. /\ UNCHANGED <<now, active, refresher, queue, requestVars, command, settled, overtaken, late>>
          /\ Goto(g, "closing", "clean") /\ Release({g}) /\ queue[g] = <<>>
      BY <1>3 DEF CloseLedger, Drained
    <2>2. StoreInv' /\ NothingWritten /\ opening'[g] = "closed"
          /\ \A i \in Generations \ {g} : opening'[i] = opening[i]
      BY <1>1, <2>1, ReleaseKeeps, ReleaseMoves
    <2>3. /\ phase[g] = "closing" /\ phase'[g] = "clean"
          /\ \A i \in Generations \ {g} : phase'[i] = phase[i]
      BY <1>1, <2>1, GotoMoves
    <2>4. ModuleTypes'
      BY <1>1, <2>1, GotoMoves DEF ModuleTypes
    <2>5. Placed(g)'
      BY <1>1, <2>1, <2>2, <2>3 DEF Placed, Range
    <2> QED
      BY <2>1, <2>2, <2>3, <2>4, <2>5, OneMoves
  <1> QED
    BY <1>2, <1>3 DEF Cleanup

LEMMA CaddyKeeps ==
  ASSUME DeployInv, NEW g \in Generations, Caddy(g)
  PROVE  DeployInv'
  <1>1. /\ StoreInv /\ ModuleTypes /\ Placed(g) /\ ActiveServes
        /\ \A i \in Generations : Placed(i)
    BY DEF DeployInv
  <1>2. UNCHANGED <<storeVars, now, refresher, queue, requestVars, command, settled, late>>
    BY DEF Caddy, Activate, Discard, Retire
  <1>3. StoreInv' /\ opening' = opening /\ NothingWritten
    BY <1>1, <1>2, StoreRests
  <1>4. CASE Activate(g)
    <2>1. Goto(g, "provisioned", "serving") /\ active' = g /\ UNCHANGED overtaken
      BY <1>4 DEF Activate
    <2>2. /\ phase[g] = "provisioned" /\ phase'[g] = "serving"
          /\ \A i \in Generations \ {g} : phase'[i] = phase[i]
      BY <1>1, <2>1, GotoMoves
    <2>3. ModuleTypes'
      BY <1>1, <1>2, <2>1, GotoMoves DEF ModuleTypes
    <2>4. ActiveServes'
      BY <2>1, <2>2 DEF ActiveServes
    <2>5. \A i \in Generations : Placed(i)'
      BY <1>1, <1>2, <1>3, <2>1, <2>2 DEF Placed
    <2> QED
      BY <1>2, <1>3, <2>1, <2>2, <2>3, <2>4, <2>5, Moves
  <1>5. CASE Discard(g)
    <2>1. Goto(g, "provisioned", "stopping") /\ UNCHANGED <<active, overtaken>>
      BY <1>5 DEF Discard
    <2>2. /\ phase[g] = "provisioned" /\ phase'[g] = "stopping"
          /\ \A i \in Generations \ {g} : phase'[i] = phase[i]
      BY <1>1, <2>1, GotoMoves
    <2>3. ModuleTypes'
      BY <1>1, <1>2, <2>1, GotoMoves DEF ModuleTypes
    <2>4. Placed(g)'
      BY <1>1, <1>2, <1>3, <2>1, <2>2 DEF Placed
    <2> QED
      BY <1>2, <1>3, <2>1, <2>2, <2>3, <2>4, OneMoves
  <1>6. CASE Retire(g)
    <2>1. /\ Goto(g, "serving", "stopping") /\ active # g /\ active' = active
          /\ overtaken' = overtaken \cup Inside(g)
      BY <1>6 DEF Retire
    <2>2. /\ phase[g] = "serving" /\ phase'[g] = "stopping"
          /\ \A i \in Generations \ {g} : phase'[i] = phase[i]
      BY <1>1, <2>1, GotoMoves
    <2>3. overtaken \subseteq overtaken' /\ overtaken' \subseteq Requests
      BY <2>1 DEF DeployInv, RequestTypes, Inside
    <2>4. ModuleTypes' /\ ActiveServes'
      BY <1>1, <1>2, <2>1, <2>2, GotoMoves DEF ModuleTypes, ActiveServes
    <2>5. \A i \in Generations : Placed(i)'
      BY <1>1, <1>2, <1>3, <2>2 DEF Placed
    <2>6. RequestTypes' /\ QueuedOnly'
      BY <1>2, <2>3 DEF DeployInv, RequestTypes, QueuedOnly, requestVars
    <2>7. ASSUME NEW r \in Requests PROVE Traced(r)'
      <3>1. Traced(r) /\ UNCHANGED <<served, by, start, queue, settled, late, dialect>>
        BY <1>2, <1>3 DEF DeployInv, requestVars, NothingWritten
      <3>2. served[r] = "inside" => phase'[by[r]] = "serving" \/ r \in overtaken'
        <4>1. CASE by[r] = g
          BY <2>1, <4>1 DEF Inside
        <4>2. CASE by[r] # g
          BY <2>2, <2>3, <3>1, <4>2 DEF Traced
        <4> QED
          BY <4>1, <4>2
      <3>3. r \in DOMAIN rows' => r \in DOMAIN rows /\ rows'[r].ts = rows[r].ts
        BY <1>3 DEF NothingWritten
      <3>4. r \notin DOMAIN rows => r \notin DOMAIN rows'
        BY <1>3 DEF NothingWritten
      <3>5. Column(TimeArg(start[r]))' = Column(TimeArg(start[r]))
        BY <3>1 DEF Column, TimeArg
      <3> QED
        BY <2>3, <3>1, <3>2, <3>3, <3>4, <3>5 DEF Traced
    <2> QED
      BY <1>3, <2>4, <2>5, <2>6, <2>7 DEF DeployInv
  <1> QED
    BY <1>4, <1>5, <1>6 DEF Caddy

LEMMA LedgerKeeps ==
  ASSUME DeployInv, NEW c \in Commands, Ledger(c)
  PROVE  DeployInv'
  <1>1. /\ StoreInv /\ ModuleTypes /\ ActiveServes
        /\ \A i \in Generations : Placed(i)
        /\ c \in Handles /\ {c} \in SUBSET Handles /\ \A i \in Generations : i \in Handles \ {c}
    BY HandlesAssumption DEF DeployInv
  <1>2. UNCHANGED <<now, moduleVars, queue, requestVars, settled, overtaken, late>>
    BY DEF Ledger, RunLedger, OpenLedger, Vacuum, EndCommand
  <1>3. ModuleTypes'
    BY <1>1, <1>2 DEF ModuleTypes, moduleVars, Ledger, RunLedger, OpenLedger, Vacuum, EndCommand
  <1>4. StoreInv' /\ NothingWritten /\ \A i \in Generations : opening'[i] = opening[i]
    <2>1. CASE RunLedger(c)
      BY <1>1, <2>1, BeginKeeps, BeginMoves DEF RunLedger
    <2>2. CASE OpenLedger(c)
      BY <1>1, <2>2, OpenStepKeeps, OpenStepMoves DEF OpenLedger
    <2>3. CASE Vacuum(c)
      <3>1. PICK before \in Times : Prune(before)
        BY <2>3 DEF Vacuum
      <3> QED
        BY <1>1, <3>1, PruneKeeps DEF Prune, NothingWritten
    <2>4. CASE EndCommand(c)
      BY <1>1, <2>4, ReleaseKeeps, ReleaseMoves DEF EndCommand
    <2> QED
      BY <2>1, <2>2, <2>3, <2>4 DEF Ledger
  <1>5. ActiveServes' /\ \A i \in Generations : Placed(i)' /\ phase'[i] = phase[i]
    BY <1>1, <1>2, <1>4 DEF ActiveServes, Placed, moduleVars
  <1> QED
    BY <1>2, <1>3, <1>4, <1>5, Moves

LEMMA ShutdownKeeps ==
  ASSUME DeployInv, Shutdown \/ Tick \/ UNCHANGED vars
  PROVE  DeployInv'
  <1>1. /\ StoreInv /\ ModuleTypes /\ ActiveServes
        /\ \A i \in Generations : Placed(i)
    BY DEF DeployInv
  <1>2. /\ UNCHANGED <<storeVars, phase, refresher, queue, requestVars, command, settled, overtaken, late>>
        /\ now' \in Instants /\ active' \in {active, 0}
    BY <1>1 DEF ModuleTypes, Shutdown, Tick, vars, moduleVars
  <1>3. StoreInv' /\ opening' = opening /\ NothingWritten
    BY <1>1, <1>2, StoreRests
  <1>4. ModuleTypes' /\ ActiveServes' /\ \A i \in Generations : Placed(i)'
    BY <1>1, <1>2, <1>3 DEF ModuleTypes, ActiveServes, Placed
  <1> QED
    BY <1>2, <1>3, <1>4, Moves

-----------------------------------------------------------------------------
(* Steps of the requests                                                   *)

LEMMA ArriveKeeps ==
  ASSUME DeployInv, NEW r \in Requests, Arrive(r)
  PROVE  DeployInv'
  <1>1. /\ StoreInv /\ ModuleTypes /\ RequestTypes /\ ActiveServes /\ QueuedOnly
        /\ \A i \in Generations : Placed(i)
        /\ \A q \in Requests : Traced(q)
    BY DEF DeployInv
  <1>2. /\ served[r] = "idle" /\ active # 0
        /\ served' = [served EXCEPT ![r] = "inside"]
        /\ by' = [by EXCEPT ![r] = active] /\ start' = [start EXCEPT ![r] = now]
        /\ UNCHANGED <<storeVars, now, moduleVars, queue, signed, command, settled, overtaken, late>>
    BY DEF Arrive
  <1>3. StoreInv' /\ opening' = opening /\ NothingWritten /\ UNCHANGED rows
    BY <1>1, <1>2, StoreRests DEF storeVars
  <1>4. ModuleTypes' /\ RequestTypes' /\ ActiveServes' /\ \A i \in Generations : Placed(i)'
    BY <1>1, <1>2, <1>3, InstantsAssumption DEF ModuleTypes, RequestTypes, ActiveServes, Placed, moduleVars
  <1>5. /\ served'[r] = "inside" /\ by'[r] = active /\ start'[r] = now
        /\ \A q \in Requests \ {r} : served'[q] = served[q] /\ by'[q] = by[q] /\ start'[q] = start[q]
    BY <1>1, <1>2 DEF RequestTypes
  <1>6. QueuedOnly'
    <2> SUFFICES ASSUME NEW g \in Generations, NEW q \in Range(queue[g]) PROVE served'[q] = "queued"
      BY <1>2 DEF QueuedOnly
    <2>1. served[q] = "queued"
      BY <1>1 DEF QueuedOnly
    <2>2. q \in Requests
      BY <1>1 DEF RequestTypes, Range
    <2> QED
      BY <1>2, <1>5, <2>1, <2>2
  <1>7. Traced(r)'
    <2>1. r \notin DOMAIN rows'
      BY <1>1, <1>2, <1>3 DEF Traced
    <2>2. phase'[active] = "serving" /\ active \in Generations
      BY <1>1, <1>2 DEF ActiveServes, ModuleTypes, moduleVars
    <2>3. r \in late' => r \in overtaken'
      BY <1>1, <1>2 DEF Traced
    <2> QED
      BY <1>5, <2>1, <2>2, <2>3 DEF Traced
  <1>8. ASSUME NEW q \in Requests \ {r} PROVE Traced(q)'
    <2>1. Traced(q) /\ UNCHANGED <<phase, queue, settled, overtaken, late, rows, dialect>>
      BY <1>1, <1>2, <1>3 DEF moduleVars, NothingWritten
    <2>2. Column(TimeArg(start[q]))' = Column(TimeArg(start[q]))
      BY <1>5, <2>1 DEF Column, TimeArg
    <2> QED
      BY <1>5, <2>1, <2>2 DEF Traced
  <1> QED
    BY <1>3, <1>4, <1>6, <1>7, <1>8 DEF DeployInv

\* Queues of events.
LEMMA Appended ==
  ASSUME NEW s \in Seq(Requests), NEW r \in Requests
  PROVE  /\ Append(s, r) \in Seq(Requests) /\ Append(s, r) # <<>>
         /\ Range(Append(s, r)) = Range(s) \cup {r}
  <1>1. /\ Append(s, r) \in Seq(Requests) /\ Len(Append(s, r)) = Len(s) + 1 /\ Len(s) \in Nat
        /\ Append(s, r)[Len(s) + 1] = r /\ \A i \in 1..Len(s) : Append(s, r)[i] = s[i]
        /\ DOMAIN Append(s, r) = 1..(Len(s) + 1) /\ DOMAIN s = 1..Len(s)
    OBVIOUS
  <1>2. Append(s, r) # <<>>
    BY <1>1
  <1>3. Range(Append(s, r)) = Range(s) \cup {r}
    BY <1>1 DEF Range
  <1> QED
    BY <1>1, <1>2, <1>3

LEMMA HeadAndTail ==
  ASSUME NEW s \in Seq(Requests), s # <<>>
  PROVE  /\ Head(s) \in Range(s) /\ Tail(s) \in Seq(Requests)
         /\ Range(s) = Range(Tail(s)) \cup {Head(s)}
  <1>1. /\ Len(s) \in Nat \ {0} /\ DOMAIN s = 1..Len(s) /\ Head(s) = s[1]
        /\ Tail(s) \in Seq(Requests) /\ DOMAIN Tail(s) = 1..(Len(s) - 1)
        /\ \A i \in 1..(Len(s) - 1) : Tail(s)[i] = s[i + 1]
    OBVIOUS
  <1>2. Head(s) \in Range(s)
    BY <1>1 DEF Range
  <1>3. Range(Tail(s)) \subseteq Range(s)
    BY <1>1 DEF Range
  <1>4. ASSUME NEW x \in Range(s), x # Head(s) PROVE x \in Range(Tail(s))
    <2>1. PICK i \in 1..Len(s) : x = s[i]
      BY <1>1 DEF Range
    <2>2. i - 1 \in 1..(Len(s) - 1) /\ (i - 1) + 1 = i
      BY <1>1, <1>4, <2>1
    <2>3. x = Tail(s)[i - 1]
      BY <1>1, <2>1, <2>2
    <2> QED
      BY <1>1, <2>2, <2>3 DEF Range
  <1> QED
    BY <1>1, <1>2, <1>3, <1>4

LEMMA CommitKeeps ==
  ASSUME DeployInv, NEW g \in Generations, Commit(g)
  PROVE  DeployInv'
  <1> DEFINE r == Head(queue[g])
  <1>1. /\ StoreInv /\ ModuleTypes /\ RequestTypes /\ ActiveServes /\ QueuedOnly
        /\ \A i \in Generations : Placed(i)
        /\ \A q \in Requests : Traced(q)
    BY DEF DeployInv
  <1>2. /\ opening[g] = "open" /\ queue[g] # <<>>
        /\ Insert(r, start[r], r \in signed) \/ UNCHANGED storeVars
        /\ settled' = settled \cup {r}
        /\ queue' = [queue EXCEPT ![g] = Tail(@)]
        /\ UNCHANGED <<now, moduleVars, requestVars, command, overtaken, late>>
    BY DEF Commit
  <1>3. queue[g] \in Seq(Requests)
    BY <1>1 DEF RequestTypes
  <1>4. /\ r \in Range(queue[g]) /\ Tail(queue[g]) \in Seq(Requests)
        /\ Range(queue[g]) = Range(Tail(queue[g])) \cup {r}
    BY <1>2, <1>3, HeadAndTail
  <1>5. r \in Requests /\ served[r] = "queued" /\ start[r] \in Times /\ (r \in signed) \in BOOLEAN
    BY <1>1, <1>3, <1>4 DEF QueuedOnly, RequestTypes, Range
  <1>6. queue'[g] = Tail(queue[g]) /\ \A i \in Generations \ {g} : queue'[i] = queue[i]
    BY <1>1, <1>2 DEF RequestTypes
  <1>7. /\ StoreInv' /\ opening' = opening /\ dialect' = dialect
        /\ DOMAIN rows' \subseteq DOMAIN rows \cup {r}
        /\ \A e \in DOMAIN rows' : \/ e \in DOMAIN rows /\ rows'[e].ts = rows[e].ts
                                   \/ e = r /\ rows'[e].ts = Column(TimeArg(start[r]))
    <2>1. CASE UNCHANGED storeVars
      BY <1>1, <2>1, StoreRests DEF NothingWritten
    <2>2. CASE Insert(r, start[r], r \in signed)
      <3>1. columns = Migrated
        BY <1>1, <1>2, HandlesAssumption DEF StoreInv, OpenPlace
      <3>2. StoreInv'
        BY <1>1, <1>5, <2>2, <3>1, InsertKeeps
      <3>3. opening' = opening /\ dialect' = dialect
        BY <2>2 DEF Insert
      <3>4. rows' = [e \in DOMAIN rows \cup {r} |->
                       IF e = r THEN [id |-> "given", ts |-> Column(TimeArg(start[r])),
                                      receipt |-> [signed |-> (r \in signed),
                                                   second |-> IF r \in signed THEN start[r].second ELSE 0]]
                                ELSE rows[e]]
        BY <2>2 DEF Insert
      <3> HIDE DEF r
      <3>5. /\ DOMAIN rows' = DOMAIN rows \cup {r}
            /\ rows'[r].ts = Column(TimeArg(start[r]))
            /\ \A e \in DOMAIN rows \ {r} : rows'[e] = rows[e]
        BY <3>4
      <3> QED
        BY <3>2, <3>3, <3>5
    <2> QED
      BY <1>2, <2>1, <2>2
  <1> HIDE DEF r
  <1>8. ModuleTypes' /\ ActiveServes'
    BY <1>1, <1>2 DEF ModuleTypes, ActiveServes, moduleVars
  <1>9. RequestTypes'
    BY <1>1, <1>2, <1>4, <1>5 DEF RequestTypes, requestVars
  <1>10. \A i \in Generations : Range(queue'[i]) \subseteq Range(queue[i])
    BY <1>4, <1>6
  <1>11. QueuedOnly'
    BY <1>1, <1>2, <1>10 DEF QueuedOnly, requestVars
  <1>12. ASSUME NEW i \in Generations PROVE Placed(i)'
    <2>1. phase[i] = "clean" => Range(queue'[i]) \subseteq late
      BY <1>1, <1>10 DEF Placed
    <2> QED
      BY <1>1, <1>2, <1>7, <2>1 DEF Placed, moduleVars
  <1>13. ASSUME NEW q \in Requests PROVE Traced(q)'
    <2>1. Traced(q) /\ UNCHANGED <<served, by, start, phase, overtaken, late, dialect>>
      BY <1>1, <1>2, <1>7 DEF requestVars, moduleVars
    <2>2. served[q] = "queued" => q \in settled' \/ q \in Range(queue'[by[q]])
      <3>1. CASE q = r
        BY <1>2, <3>1
      <3>2. CASE q # r /\ served[q] = "queued"
        <4>1. by[q] \in Generations /\ (q \in settled \/ q \in Range(queue[by[q]]))
          BY <2>1, <3>2 DEF Traced
        <4> QED
          BY <1>2, <1>4, <1>6, <3>2, <4>1
      <3> QED
        BY <3>1, <3>2
    <2>3. served[q] = "idle" => q \notin DOMAIN rows'
      BY <1>5, <1>7, <2>1 DEF Traced
    <2>4. q \in DOMAIN rows' => rows'[q].ts = Column(TimeArg(start[q]))
      BY <1>7, <2>1 DEF Traced
    <2>5. Column(TimeArg(start[q]))' = Column(TimeArg(start[q]))
      BY <2>1 DEF Column, TimeArg
    <2> QED
      BY <2>1, <2>2, <2>3, <2>4, <2>5 DEF Traced
  <1> QED
    BY <1>7, <1>8, <1>9, <1>11, <1>12, <1>13 DEF DeployInv

LEMMA RecordKeeps ==
  ASSUME DeployInv, NEW r \in Requests, Record(r)
  PROVE  DeployInv'
  <1>1. /\ StoreInv /\ ModuleTypes /\ RequestTypes /\ ActiveServes /\ QueuedOnly
        /\ \A i \in Generations : Placed(i)
        /\ \A q \in Requests : Traced(q)
    BY DEF DeployInv
  <1>2. /\ served[r] = "inside"
        /\ UNCHANGED <<storeVars, now, moduleVars, by, start, command, settled, overtaken>>
    BY DEF Record
  <1>3. StoreInv' /\ opening' = opening /\ NothingWritten /\ UNCHANGED rows
    BY <1>1, <1>2, StoreRests DEF storeVars
  <1>4. by[r] \in Generations /\ queue[by[r]] \in Seq(Requests)
    BY <1>1, <1>2 DEF Traced, RequestTypes
  <1>5. /\ Append(queue[by[r]], r) \in Seq(Requests)
        /\ Range(Append(queue[by[r]], r)) = Range(queue[by[r]]) \cup {r}
    BY <1>4, Appended
  <1>6. /\ \A i \in Generations : queue'[i] \in Seq(Requests)
        /\ \A i \in Generations : i # by[r] => queue'[i] = queue[i]
        /\ Range(queue'[by[r]]) \subseteq Range(queue[by[r]]) \cup {r}
        /\ \A i \in Generations : Range(queue[i]) \subseteq Range(queue'[i])
        /\ queue' = [i \in Generations |-> queue'[i]]
        /\ signed' \subseteq Requests
        /\ late \subseteq late' /\ late' \subseteq late \cup {r}
        /\ r \in late' \ late => phase[by[r]] = "clean"
        /\ phase[by[r]] = "clean" => r \in late' \/ UNCHANGED queue
    <2>1. CASE /\ queue' = [queue EXCEPT ![by[r]] = Append(@, r)]
               /\ signed' \in {signed, signed \cup {r}}
               /\ late' = IF phase[by[r]] = "clean" THEN late \cup {r} ELSE late
      BY <1>1, <1>4, <1>5, <2>1 DEF RequestTypes
    <2>2. CASE UNCHANGED <<queue, signed, late>>
      BY <1>1, <1>4, <2>2 DEF RequestTypes
    <2> QED
      BY <2>1, <2>2 DEF Record
  <1>7. /\ served' \in [Requests -> {"idle", "inside", "queued", "over"}]
        /\ \A q \in Requests \ {r} : served'[q] = served[q]
        /\ \/ served'[r] = "queued" /\ r \in Range(queue'[by[r]])
           \/ served'[r] = "over" /\ UNCHANGED queue
    <2>1. CASE /\ served' = [served EXCEPT ![r] = "queued"]
               /\ queue' = [queue EXCEPT ![by[r]] = Append(@, r)]
      <3>1. queue'[by[r]] = Append(queue[by[r]], r)
        BY <1>1, <1>4, <2>1 DEF RequestTypes
      <3> QED
        BY <1>1, <1>5, <2>1, <3>1 DEF RequestTypes
    <2>2. CASE served' = [served EXCEPT ![r] = "over"] /\ UNCHANGED <<queue, signed, late>>
      BY <1>1, <2>2 DEF RequestTypes
    <2> QED
      BY <2>1, <2>2 DEF Record
  <1>8. ModuleTypes' /\ ActiveServes'
    BY <1>1, <1>2 DEF ModuleTypes, ActiveServes, moduleVars
  <1>9. RequestTypes'
    BY <1>1, <1>2, <1>6, <1>7 DEF RequestTypes
  <1>10. QueuedOnly'
    <2> SUFFICES ASSUME NEW i \in Generations, NEW q \in Range(queue'[i]) PROVE served'[q] = "queued"
      BY DEF QueuedOnly
    <2>1. q \in Range(queue[i]) => served[q] = "queued" /\ q \in Requests \ {r}
      BY <1>1, <1>2 DEF QueuedOnly, RequestTypes, Range
    <2>2. CASE q \in Range(queue[i])
      BY <1>7, <2>1, <2>2
    <2>3. CASE q \notin Range(queue[i])
      BY <1>6, <1>7, <2>3
    <2> QED
      BY <2>2, <2>3
  <1>11. ASSUME NEW i \in Generations PROVE Placed(i)'
    <2>1. phase[i] = "clean" => Range(queue'[i]) \subseteq late'
      <3>1. CASE i = by[r]
        BY <1>1, <1>6, <3>1 DEF Placed
      <3>2. CASE i # by[r]
        BY <1>1, <1>6, <3>2 DEF Placed
      <3> QED
        BY <3>1, <3>2
    <2> QED
      BY <1>1, <1>2, <1>3, <2>1 DEF Placed, moduleVars
  <1>12. ASSUME NEW q \in Requests PROVE Traced(q)'
    <2>1. Traced(q) /\ UNCHANGED <<by, start, phase, overtaken, settled, rows, dialect>>
      BY <1>1, <1>2, <1>3 DEF moduleVars, NothingWritten
    <2>2. Column(TimeArg(start[q]))' = Column(TimeArg(start[q]))
      BY <2>1 DEF Column, TimeArg
    <2>3. CASE q = r
      <3>1. r \in late' => r \in overtaken
        BY <1>1, <1>2, <1>6 DEF Traced
      <3> QED
        BY <1>2, <1>4, <1>7, <2>1, <2>2, <2>3, <3>1 DEF Traced
    <2>4. CASE q # r
      <3>1. served'[q] = served[q]
        BY <1>7, <2>4
      <3>2. served[q] = "queued" => q \in settled \/ q \in Range(queue'[by[q]])
        BY <1>6, <2>1 DEF Traced
      <3>3. q \in late' => q \in late
        BY <1>6, <2>4
      <3> QED
        BY <2>1, <2>2, <3>1, <3>2, <3>3 DEF Traced
    <2> QED
      BY <2>3, <2>4
  <1> QED
    BY <1>3, <1>8, <1>9, <1>10, <1>11, <1>12 DEF DeployInv

LEMMA CrashKeeps ==
  ASSUME DeployInv, Crash
  PROVE  DeployInv'
  <1>1. /\ StoreInv /\ ModuleTypes /\ RequestTypes
        /\ \A i \in Generations : Placed(i)
        /\ \A q \in Requests : Traced(q)
    BY DEF DeployInv
  <1>2. /\ phase' = [i \in Generations |-> IF i \in Running THEN "crashed" ELSE phase[i]]
        /\ active' = 0
        /\ refresher' = [i \in Generations |-> FALSE]
        /\ queue' = [i \in Generations |-> <<>>]
        /\ served' = [q \in Requests |-> IF served[q] = "inside" THEN "over" ELSE served[q]]
        /\ settled' = settled \cup UNION {Range(queue[i]) : i \in Generations}
        /\ Release(Generations)
        /\ UNCHANGED <<now, by, start, signed, command, overtaken, late>>
    BY DEF Crash
  <1>3. Generations \in SUBSET Handles
    BY HandlesAssumption
  <1>4. StoreInv' /\ NothingWritten /\ \A i \in Generations : opening'[i] = "closed"
    BY <1>1, <1>2, <1>3, ReleaseKeeps, ReleaseMoves
  <1>5. ModuleTypes' /\ ActiveServes'
    BY <1>1, <1>2 DEF ModuleTypes, ActiveServes
  <1>6. settled' \subseteq Requests
    BY <1>1, <1>2 DEF RequestTypes, Range
  <1>7. RequestTypes'
    BY <1>1, <1>2, <1>6 DEF RequestTypes
  <1>8. QueuedOnly'
    BY <1>2 DEF QueuedOnly, Range
  <1>9. ASSUME NEW i \in Generations PROVE Placed(i)'
    <2>1. phase'[i] \in {"crashed", "unloaded", "clean", "refused"}
      BY <1>2 DEF Running
    <2> QED
      BY <1>2, <1>4, <2>1 DEF Placed, Range
  <1>10. ASSUME NEW q \in Requests PROVE Traced(q)'
    <2>1. Traced(q)
      BY <1>1
    <2>2. /\ served'[q] = (IF served[q] = "inside" THEN "over" ELSE served[q])
          /\ UNCHANGED <<by, start, overtaken, late, dialect>>
      BY <1>2, <1>4 DEF NothingWritten
    <2>3. q \in DOMAIN rows' => q \in DOMAIN rows /\ rows'[q].ts = rows[q].ts
      BY <1>4 DEF NothingWritten
    <2>4. served[q] = "queued" => q \in settled'
      BY <1>2, <2>1 DEF Traced
    <2>5. Column(TimeArg(start[q]))' = Column(TimeArg(start[q]))
      BY <2>2 DEF Column, TimeArg
    <2> QED
      BY <2>1, <2>2, <2>3, <2>4, <2>5 DEF Traced
  <1> QED
    BY <1>4, <1>5, <1>7, <1>8, <1>9, <1>10 DEF DeployInv

-----------------------------------------------------------------------------
(* Theorems                                                                *)

LEMMA StepKeeps ==
  ASSUME DeployInv, [Next]_vars
  PROVE  DeployInv'
  <1>1. CASE \E g \in Generations : Provision(g) \/ Caddy(g) \/ Cleanup(g) \/ Commit(g)
    BY <1>1, ProvisionKeeps, CaddyKeeps, CleanupKeeps, CommitKeeps
  <1>2. CASE \E r \in Requests : Arrive(r) \/ Record(r)
    BY <1>2, ArriveKeeps, RecordKeeps
  <1>3. CASE \E c \in Commands : Ledger(c)
    BY <1>3, LedgerKeeps
  <1>4. CASE Crash
    BY <1>4, CrashKeeps
  <1>5. CASE Shutdown \/ Tick \/ UNCHANGED vars
    BY <1>5, ShutdownKeeps
  <1> QED
    BY <1>1, <1>2, <1>3, <1>4, <1>5 DEF Next

\* The invariant that the theorems below rest on: what each handle knows of the
\* table, what each generation holds at its place, and where each event is.
THEOREM DeploymentInvariant == Spec => []DeployInv
  <1>1. Init => DeployInv
    BY InitDeploy
  <1>2. DeployInv /\ [Next]_vars => DeployInv'
    BY StepKeeps
  <1> QED
    BY <1>1, <1>2, PTL DEF Spec

\* Every variable keeps its type.
THEOREM DeploymentTypes == Spec => []TypeOK
  <1>1. DeployInv => TypeOK
    BY DEF DeployInv, StoreInv, ModuleTypes, RequestTypes, TypeOK
  <1> QED
    BY <1>1, DeploymentInvariant, PTL

\* A generation that was refused, was cleaned up or has died holds no database
\* handle and runs no refresher (Provision's error paths, Cleanup), and one that
\* serves has its ledger, for any number of overlapping reloads.
THEOREM DeploymentLeaksNothing == Spec => []NothingLeaks
  <1>1. DeployInv => NothingLeaks
    <2> SUFFICES ASSUME DeployInv, NEW g \in Generations
                 PROVE  /\ opening[g] \in Opening \cup {"open"} =>
                             phase[g] \in {"opening", "building", "provisioned", "serving", "stopping", "closing"}
                        /\ refresher[g] => phase[g] \in {"provisioned", "serving", "stopping"}
                        /\ phase[g] \in {"serving", "stopping", "closing"} => opening[g] = "open"
      BY DEF NothingLeaks
    <2>1. /\ Placed(g)
          /\ phase[g] \in {"unloaded", "opening", "building", "provisioned", "serving",
                           "stopping", "closing", "clean", "refused", "crashed"}
      BY DEF DeployInv, ModuleTypes
    <2>2. opening[g] \in {"closed", "failed"} => opening[g] \notin Opening \cup {"open"}
      BY DEF Opening
    <2> QED
      BY <2>1, <2>2 DEF Placed
  <1> QED
    BY <1>1, DeploymentInvariant, PTL

\* Cleanup loses no event that was recorded before its ledger had closed, by a
\* request that went on during the reload too, whatever else runs meanwhile; and
\* only such a request can come too late.
THEOREM DeploymentLosesOnlyLate == Spec => []ReloadLosesOnlyLate
  <1>1. DeployInv => ReloadLosesOnlyLate
    <2> SUFFICES ASSUME DeployInv PROVE ReloadLosesOnlyLate
      OBVIOUS
    <2>1. ASSUME NEW r \in Requests, served[r] = "queued", phase[by[r]] = "clean"
          PROVE  r \in settled \/ r \in late
      <3>1. Traced(r) /\ by[r] \in Generations
        BY <2>1 DEF DeployInv, Traced
      <3>2. Range(queue[by[r]]) \subseteq late
        BY <2>1, <3>1 DEF DeployInv, Placed
      <3> QED
        BY <2>1, <3>1, <3>2 DEF Traced
    <2>2. late \subseteq overtaken
      BY DEF DeployInv, RequestTypes, Traced
    <2> QED
      BY <2>1, <2>2 DEF ReloadLosesOnlyLate
  <1> QED
    BY <1>1, DeploymentInvariant, PTL

\* An opening that nobody else's overlaps never fails on a column that is already
\* there, whatever an interrupted migration has left (ensureSQLiteMigrations), and
\* one that succeeds finds every column, on every dialect.
THEOREM DeploymentOpensComplete == Spec => []OpensComplete
  <1>1. DeployInv => OpensComplete
    BY DEF DeployInv, StoreInv, OpenPlace, OpensComplete
  <1> QED
    BY <1>1, DeploymentInvariant, PTL

\* An export fails only within a migration or after an interrupted one, and what
\* it writes verifies against the receipts (ReceiptPayload), unless MySQL rounded
\* the time.
THEOREM DeploymentExportVerifies == Spec => []ExportVerifies
  <1>1. DeployInv => ExportVerifies
    BY DEF DeployInv, StoreInv, RowVerifies, ExportVerifies
  <1> QED
    BY <1>1, DeploymentInvariant, PTL

\* What a column keeps of a time is not before a time that Kept is not before.
LEMMA ColumnKeeps ==
  ASSUME NEW s \in Times, NEW t \in Times, ~Earlier(Kept(s), t)
  PROVE  ~Earlier(Column(TimeArg(s)), TimeArg(t))
  <1>1. /\ s.second \in Nat /\ s.fraction \in Nat /\ s.fraction <= LastFraction
        /\ t.second \in Nat /\ t.fraction \in Nat /\ t.fraction <= LastFraction
        /\ s = [second |-> s.second, fraction |-> s.fraction]
        /\ t = [second |-> t.second, fraction |-> t.fraction]
        /\ LastFraction \in Nat
    BY ClockAssumption DEF Times
  <1>2. CASE dialect = "sqlite"
    <2>1. /\ Column(TimeArg(s)) = [second |-> s.second, fraction |-> 0]
          /\ TimeArg(t) = [second |-> t.second, fraction |-> 0]
      BY <1>1, <1>2 DEF Column, TimeArg
    <2>2. s.second >= t.second
      BY <1>1, <1>2 DEF Kept, Earlier
    <2> QED
      BY <1>1, <2>1, <2>2 DEF Earlier
  <1>3. CASE dialect \notin {"sqlite", "mysql"}
    BY <1>3 DEF Column, TimeArg, Kept
  <1>4. CASE dialect = "mysql"
    <2>1. TimeArg(s) = s /\ TimeArg(t) = t
      BY <1>4 DEF TimeArg
    <2>2. /\ Floor(s.fraction) \in Nat /\ Rounded(s.fraction) \in Nat
          /\ Rounded(s.fraction) >= Floor(s.fraction)
      BY <1>1, RoundedNear
    <2>3. Kept(s) = [second |-> s.second, fraction |-> Floor(s.fraction)]
      BY <1>1, <1>4 DEF Kept
    <2>4. /\ s.second >= t.second
          /\ s.second = t.second => Floor(s.fraction) >= t.fraction
      BY <1>1, <2>2, <2>3 DEF Earlier
    <2>5. CASE Rounded(s.fraction) > LastFraction
      <3>1. Column(s) = [second |-> s.second + 1, fraction |-> 0]
        BY <1>4, <2>5 DEF Column
      <3> QED
        BY <1>1, <2>1, <2>4, <3>1 DEF Earlier
    <2>6. CASE ~(Rounded(s.fraction) > LastFraction)
      <3>1. Column(s) = [second |-> s.second, fraction |-> Rounded(s.fraction)]
        BY <1>1, <1>4, <2>6 DEF Column
      <3> QED
        BY <1>1, <2>1, <2>2, <2>4, <3>1 DEF Earlier
    <2> QED
      BY <2>5, <2>6
  <1> QED
    BY <1>2, <1>3, <1>4

\* At whatever point of a second an event falls, and however the dialect stores
\* it, a report over a window that holds it shows it and a prune before it keeps
\* it, but for the millisecond that the event is in when MySQL rounds it.
THEOREM DeploymentWindows == Spec => []WindowsHonest
  <1>1. DeployInv => WindowsHonest
    <2> SUFFICES ASSUME DeployInv, NEW e \in DOMAIN rows \cap Requests, NEW t \in Times,
                        ~Earlier(Kept(start[e]), t)
                 PROVE  Reported(rows[e], t) /\ ~Expired(rows[e], t)
      BY DEF WindowsHonest
    <2>1. rows[e].ts = Column(TimeArg(start[e])) /\ start[e] \in Times
      BY DEF DeployInv, Traced, RequestTypes
    <2>2. ~Earlier(rows[e].ts, TimeArg(t))
      BY <2>1, ColumnKeeps
    <2> QED
      BY <2>2 DEF Reported, Expired
  <1> QED
    BY <1>1, DeploymentInvariant, PTL
=============================================================================
