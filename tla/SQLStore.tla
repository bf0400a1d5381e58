------------------------------ MODULE SQLStore ------------------------------
(***************************************************************************)
(* The ledger's table in its database (internal/ledger/sql.go, dialect.go) *)
(* as the processes that open it leave it: the server, which writes, and   *)
(* the commands of the command line, which read and prune.  A database     *)
(* outlives them all.  Opening creates the schema and, on SQLite, migrates *)
(* older tables by statements each of which commits by itself.             *)
(*                                                                         *)
(* A time is a second and a fraction of it; some fractions are whole       *)
(* milliseconds, which is what MySQL's column keeps.                       *)
(***************************************************************************)
EXTENDS Naturals, Functions

CONSTANTS
  Handles,      \* whoever opens the ledger
  Requests,     \* the events, named by their requests
  LegacyRows,   \* rows of a table that an older version wrote
  MaxSecond,    \* bound of the clock, for TLC
  LastFraction, \* of a second
  Grain         \* fractions in a millisecond

ASSUME LegacyAssumption == Requests \cap LegacyRows = {}
ASSUME ClockAssumption == MaxSecond \in Nat /\ LastFraction \in Nat \ {0}
ASSUME GrainAssumption == Grain \in Nat \ {0} /\ (LastFraction + 1) % Grain = 0

VARIABLES
  dialect,    \* of the DSN
  columns,    \* those of the table that older versions lack
  rows,       \* crawl_events
  opening,    \* where openSQL is, for each handle
  \* History, read only by the properties:
  disturbed,  \* handles whose opening has met another one
  halfway     \* an opening ended after its first ALTER TABLE, before the UPDATE

storeVars == <<dialect, columns, rows, opening, disturbed, halfway>>

Times == [second : 0..MaxSecond, fraction : 0..LastFraction]
Earlier(s, t) == s.second < t.second \/ (s.second = t.second /\ s.fraction < t.fraction)

\* event_id is missing, the event's own, or made from the row's number; the
\* receipt's signature covers the second of the request.
Receipts == [signed : BOOLEAN, second : 0..MaxSecond]
Rows == [id : {"null", "given", "legacy"}, ts : [second : 0..(MaxSecond + 1), fraction : 0..LastFraction],
         receipt : Receipts]
Events == Requests \cup LegacyRows

NoTable == {"none"}
Migrated == {"event_id", "enforced"}

Opening == {"schema", "probe_id", "add_id", "fill", "probe_enforced", "add_enforced"}

StoreTypeOK ==
  /\ dialect \in {"sqlite", "postgres", "mysql"}
  /\ columns \in (SUBSET Migrated) \cup {NoTable}
  /\ DOMAIN rows \subseteq Events
  /\ rows \in [DOMAIN rows -> Rows]
  /\ opening \in [Handles -> Opening \cup {"closed", "open", "failed"}]
  /\ disturbed \subseteq Handles
  /\ halfway \in BOOLEAN

\* A database that is new, or as a version with or without the columns left it.
StoreInit ==
  /\ dialect \in {"sqlite", "postgres", "mysql"}
  /\ columns \in {NoTable, Migrated} \cup (IF dialect = "sqlite" THEN {{}, {"event_id"}} ELSE {})
  /\ rows = [e \in IF columns \in {NoTable, Migrated} THEN {} ELSE LegacyRows |->
               [id |-> IF "event_id" \in columns THEN "given" ELSE "null",
                ts |-> [second |-> 0, fraction |-> 0],
                receipt |-> [signed |-> FALSE, second |-> 0]]]
  /\ opening = [h \in Handles |-> "closed"]
  /\ disturbed = {}
  /\ halfway = FALSE

\* ExportJSONL cannot scan a missing id into a string.
ExportFails == \E e \in DOMAIN rows : rows[e].id = "null"

-----------------------------------------------------------------------------
(* openSQL                                                                 *)

Step(h, from, to) ==
  /\ opening[h] = from
  /\ opening' = [opening EXCEPT ![h] = to]

\* A step of an opening, the last one maybe.
OpenTo(h, from, to) ==
  /\ Step(h, from, to)
  /\ disturbed' = IF to = "open" THEN disturbed \ {h} ELSE disturbed

BeginOpen(h) ==
  LET others == {i \in Handles : opening[i] \in Opening} IN
  /\ Step(h, "closed", "schema")
  /\ disturbed' = IF others = {} THEN disturbed ELSE disturbed \cup others \cup {h}
  /\ UNCHANGED <<dialect, columns, rows, halfway>>

\* applySchema: CREATE TABLE IF NOT EXISTS.  Only SQLite is migrated.
ApplySchema(h) ==
  /\ OpenTo(h, "schema", IF dialect = "sqlite" THEN "probe_id" ELSE "open")
  /\ columns' = IF columns = NoTable THEN Migrated ELSE columns
  /\ UNCHANGED <<dialect, rows, halfway>>

\* Mutant: the migration does not look before it adds the column.
NeverThere(column) == FALSE

\* sqliteColumnExists
ColumnExists(column) == column \in columns

ProbeEventID(h) ==
  /\ OpenTo(h, "probe_id", IF ColumnExists("event_id") THEN "probe_enforced" ELSE "add_id")
  /\ UNCHANGED <<dialect, columns, rows, halfway>>

\* ALTER TABLE fails if the column has come to be there since it was looked for.
AddColumn(h, from, column, to) ==
  /\ OpenTo(h, from, IF column \in columns THEN "failed" ELSE to)
  /\ columns' = columns \cup {column}
  /\ UNCHANGED <<dialect, rows, halfway>>

\* Mutant: the UPDATE goes for every row.
EveryRow(row) == TRUE

MissingID(row) == row.id = "null"

FillEventIDs(h) ==
  /\ OpenTo(h, "fill", "probe_enforced")
  /\ rows' = [e \in DOMAIN rows |->
                IF MissingID(rows[e]) THEN [rows[e] EXCEPT !.id = "legacy"] ELSE rows[e]]
  /\ UNCHANGED <<dialect, columns, halfway>>

\* The unique index comes before the probe and changes nothing that is modelled.
ProbeEnforced(h) ==
  /\ OpenTo(h, "probe_enforced", IF ColumnExists("enforced") THEN "open" ELSE "add_enforced")
  /\ UNCHANGED <<dialect, columns, rows, halfway>>

OpenStep(h) ==
  \/ ApplySchema(h) \/ ProbeEventID(h) \/ FillEventIDs(h) \/ ProbeEnforced(h)
  \/ AddColumn(h, "add_id", "event_id", "fill")
  \/ AddColumn(h, "add_enforced", "enforced", "open")

\* The handles hs are closed: by their owners, after an error of a statement, or
\* with the process that held them.
Release(hs) ==
  /\ opening' = [h \in Handles |-> IF h \in hs THEN "closed" ELSE opening[h]]
  /\ disturbed' = disturbed \ hs
  /\ halfway' = (halfway \/ (ExportFails /\ \E h \in hs : opening[h] = "fill"))
  /\ UNCHANGED <<dialect, columns, rows>>

-----------------------------------------------------------------------------
(* Statements on an open ledger                                            *)

\* timeArg: SQLite's column is text with whole seconds.
TimeArg(t) == IF dialect = "sqlite" THEN [t EXCEPT !.fraction = 0] ELSE t

\* DATETIME(3) rounds to the nearest millisecond, up from the middle of one.
Floor(fraction) == fraction - (fraction % Grain)
Rounded(fraction) ==
  IF 2 * (fraction % Grain) < Grain THEN Floor(fraction) ELSE Floor(fraction) + Grain

\* Mutant: the rounding is not carried into the second.
CarryLost(t) == IF dialect = "mysql" THEN [t EXCEPT !.fraction = Rounded(@)] ELSE t

\* What the column keeps of a time that is bound.
Column(t) ==
  IF dialect # "mysql" THEN t
  ELSE IF Rounded(t.fraction) > LastFraction THEN [second |-> t.second + 1, fraction |-> 0]
  ELSE [t EXCEPT !.fraction = Rounded(@)]

\* insertArgs, WriteEvents
Insert(r, start, signed) ==
  /\ rows' = [e \in DOMAIN rows \cup {r} |->
                IF e = r THEN [id |-> "given", ts |-> Column(TimeArg(start)),
                               receipt |-> [signed |-> signed, second |-> IF signed THEN start.second ELSE 0]]
                         ELSE rows[e]]
  /\ UNCHANGED <<dialect, columns, opening, disturbed, halfway>>

\* Mutant: the cut-off is pruned too.
NotAfter(row, before) == ~Earlier(TimeArg(before), row.ts)

\* DELETE ... WHERE ts < ?
Expired(row, before) == Earlier(row.ts, TimeArg(before))

\* The VACUUM that follows on SQLite deletes nothing, whether it fails or not.
Prune(before) ==
  /\ rows' = Restrict(rows, {e \in DOMAIN rows : ~Expired(rows[e], before)})
  /\ UNCHANGED <<dialect, columns, opening, disturbed, halfway>>

\* Report: WHERE ts >= ?
Reported(row, since) == ~Earlier(row.ts, TimeArg(since))

\* receipts verify: the payload rebuilt from the row is the signed one.
Verifies(row) == row.id = "given" /\ row.ts.second = row.receipt.second

-----------------------------------------------------------------------------
(* What the store promises                                                 *)

\* Whoever opens the ledger by himself never finds a column that he is about to
\* add, whatever an earlier opening that was interrupted has left; two that
\* overlap may be in each other's way, but an opening that succeeds has every
\* column its statements name.
OpensComplete ==
  \A h \in Handles :
    /\ opening[h] = "failed" => h \in disturbed
    /\ opening[h] = "open" => columns = Migrated

\* An export fails only while a migration is between its two statements, or
\* after one that ended there; and every receipt in it verifies, unless the
\* column rounded its time.
ExportVerifies ==
  /\ ExportFails /\ "event_id" \in columns
       => halfway \/ \E h \in Handles : opening[h] = "fill"
  /\ dialect # "mysql" =>
       \A e \in DOMAIN rows : rows[e].receipt.signed => Verifies(rows[e])
=============================================================================
