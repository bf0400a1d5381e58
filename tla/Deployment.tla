----------------------------- MODULE Deployment -----------------------------
(***************************************************************************)
(* A server and the ledger it shares with the command line, through        *)
(* reloads, crashes and restarts (module.go: Provision, Cleanup;           *)
(* cmd/crawlwall/main.go: ledger).  Each load of the configuration         *)
(* provisions a module of its own, a generation, and Caddy cleans the      *)
(* older one up when the newer one serves; requests go on meanwhile.       *)
(*                                                                         *)
(* The buffered ledger appears as the log it implements (AuditLog): events *)
(* queued in order, each settled by writing or losing it, and all of them  *)
(* before Close returns.                                                   *)
(***************************************************************************)
EXTENDS SQLStore, Sequences

CONSTANTS
  MaxGenerations,  \* bound of the loads, for TLC
  Commands,        \* runs of crawlwall ledger
  Instants         \* the times that the clock is read at

Generations == 1..MaxGenerations

ASSUME HandlesAssumption == Handles = Generations \cup Commands /\ Generations \cap Commands = {}
ASSUME InstantsAssumption == Instants # {} /\ Instants \subseteq Times

VARIABLES
  now,        \* time.Now()
  phase,      \* where each generation is, between Provision and Cleanup
  active,     \* the generation that requests come to, 0 for none
  refresher,  \* its verifiers' background goroutines run
  queue,      \* its ledger's queue and batch
  served,     \* where each request is
  by,         \* the generation it came to
  start,      \* and when
  signed,     \* requests whose events carry a receipt
  command,    \* where each command is
  \* History, read only by the properties:
  settled,    \* events written, lost with a failed commit, or with the process
  overtaken,  \* requests inside when the Cleanup of their generation began
  late        \* requests that queued their event when the ledger was closed

requestVars == <<served, by, start, signed>>
moduleVars == <<phase, active, refresher>>
vars == <<storeVars, now, moduleVars, queue, requestVars, command, settled, overtaken, late>>

TypeOK ==
  /\ StoreTypeOK
  /\ now \in Instants
  /\ phase \in [Generations -> {"unloaded", "opening", "building", "provisioned", "serving",
                                "stopping", "closing", "clean", "refused", "crashed"}]
  /\ active \in Generations \cup {0}
  /\ refresher \in [Generations -> BOOLEAN]
  /\ queue \in [Generations -> Seq(Requests)]
  /\ served \in [Requests -> {"idle", "inside", "queued", "over"}]
  /\ by \in [Requests -> Generations \cup {0}]
  /\ start \in [Requests -> Times]
  /\ signed \subseteq Requests
  /\ command \in [Commands -> {"idle", "opening", "ran", "ended"}]
  /\ settled \subseteq Requests
  /\ overtaken \subseteq Requests
  /\ late \subseteq Requests

Init ==
  /\ StoreInit
  /\ now \in Instants /\ \A t \in Instants : ~Earlier(t, now)
  /\ phase = [g \in Generations |-> "unloaded"]
  /\ active = 0
  /\ refresher = [g \in Generations |-> FALSE]
  /\ queue = [g \in Generations |-> <<>>]
  /\ served = [r \in Requests |-> "idle"]
  /\ by = [r \in Requests |-> 0]
  /\ start = [r \in Requests |-> now]
  /\ signed = {}
  /\ command = [c \in Commands |-> "idle"]
  /\ settled = {}
  /\ overtaken = {}
  /\ late = {}

Goto(g, from, to) == phase[g] = from /\ phase' = [phase EXCEPT ![g] = to]

-----------------------------------------------------------------------------
(* Provision                                                               *)

Loading == {g \in Generations : phase[g] \in {"opening", "building", "provisioned"}}

\* The policy file is read and validated before anything is opened.
LoadFile(g) ==
  /\ Loading = {} /\ \A h \in 1..(g - 1) : phase[h] # "unloaded"
  /\ \/ Goto(g, "unloaded", "opening") /\ BeginOpen(g)
     \/ Goto(g, "unloaded", "refused") /\ UNCHANGED storeVars
  /\ UNCHANGED <<now, active, refresher, queue, requestVars, command, settled, overtaken, late>>

\* ledger.Open, a statement at a time, any of which may fail.
Open(g) ==
  /\ phase[g] = "opening"
  /\ OpenStep(g) \/ Release({g})
  /\ phase' = [phase EXCEPT ![g] = CASE opening'[g] = "open" -> "building"
                                     [] opening'[g] \in {"failed", "closed"} -> "refused"
                                     [] OTHER -> "opening"]
  /\ UNCHANGED <<now, active, refresher, queue, requestVars, command, settled, overtaken, late>>

\* Mutant: a module that is refused keeps its ledger.
NothingClosed(g) == {}
ClosedOnError(g) == {g}

\* NewEngine, NewSigner or setupRobots fails, and what was opened is closed.
BuildFails(g) ==
  /\ Goto(g, "building", "refused")
  /\ Release(ClosedOnError(g))
  /\ UNCHANGED <<now, active, refresher, queue, requestVars, command, settled, overtaken, late>>

Build(g) ==
  /\ Goto(g, "building", "provisioned")
  /\ refresher' = [refresher EXCEPT ![g] = TRUE]
  /\ UNCHANGED <<storeVars, now, active, queue, requestVars, command, settled, overtaken, late>>

-----------------------------------------------------------------------------
(* Caddy                                                                   *)

\* The configuration that was loaded takes the requests, all at once.
Activate(g) ==
  /\ Goto(g, "provisioned", "serving")
  /\ active' = g
  /\ UNCHANGED <<storeVars, now, refresher, queue, requestVars, command, settled, overtaken, late>>

\* Another module of it was refused, and this one is cleaned up unused.
Discard(g) ==
  /\ Goto(g, "provisioned", "stopping")
  /\ UNCHANGED <<storeVars, now, active, refresher, queue, requestVars, command, settled, overtaken, late>>

Shutdown ==
  /\ active # 0 /\ Loading = {}
  /\ active' = 0
  /\ UNCHANGED <<storeVars, now, phase, refresher, queue, requestVars, command, settled, overtaken, late>>

Inside(g) == {r \in Requests : served[r] = "inside" /\ by[r] = g}

\* Caddy cleans up the one that no longer takes requests.  It does not wait for
\* those inside, unless the process is about to end, and then no longer than the
\* grace period.
Retire(g) ==
  /\ Goto(g, "serving", "stopping") /\ active # g
  /\ overtaken' = overtaken \cup Inside(g)
  /\ UNCHANGED <<storeVars, now, active, refresher, queue, requestVars, command, settled, late>>

-----------------------------------------------------------------------------
(* Cleanup                                                                 *)

\* verifier.Stop returns when the refreshers have (IPRanges).
StopVerifier(g) ==
  /\ Goto(g, "stopping", "closing")
  /\ refresher' = [refresher EXCEPT ![g] = FALSE]
  /\ UNCHANGED <<storeVars, now, active, queue, requestVars, command, settled, overtaken, late>>

\* Mutant: the ledger is closed at once.
DrainedAtOnce(g) == TRUE
Drained(g) == queue[g] = <<>>

\* ledger.Close: the writer drains the queue, then the database is closed.
CloseLedger(g) ==
  /\ Goto(g, "closing", "clean")
  /\ Drained(g)
  /\ Release({g})
  /\ UNCHANGED <<now, active, refresher, queue, requestVars, command, settled, overtaken, late>>

\* The writer settles the oldest event: it is written, or lost.
Commit(g) ==
  /\ opening[g] = "open" /\ queue[g] # <<>>
  /\ LET r == Head(queue[g]) IN
     /\ Insert(r, start[r], r \in signed) \/ UNCHANGED storeVars
     /\ settled' = settled \cup {r}
  /\ queue' = [queue EXCEPT ![g] = Tail(@)]
  /\ UNCHANGED <<now, moduleVars, requestVars, command, overtaken, late>>

-----------------------------------------------------------------------------
(* Requests                                                                *)

Arrive(r) ==
  /\ served[r] = "idle" /\ active # 0
  /\ served' = [served EXCEPT ![r] = "inside"]
  /\ by' = [by EXCEPT ![r] = active]
  /\ start' = [start EXCEPT ![r] = now]
  /\ UNCHANGED <<storeVars, now, moduleVars, queue, signed, command, settled, overtaken, late>>

\* writeLedgerAndReceipt, whether or not the ledger is closed by then: nobody
\* reads what comes to the queue when it is.  A full queue drops the event.
Record(r) ==
  /\ served[r] = "inside"
  /\ \/ /\ served' = [served EXCEPT ![r] = "queued"]
        /\ queue' = [queue EXCEPT ![by[r]] = Append(@, r)]
        /\ signed' \in {signed, signed \cup {r}}
        /\ late' = IF phase[by[r]] = "clean" THEN late \cup {r} ELSE late
     \/ /\ served' = [served EXCEPT ![r] = "over"]
        /\ UNCHANGED <<queue, signed, late>>
  /\ UNCHANGED <<storeVars, now, moduleVars, by, start, command, settled, overtaken>>

-----------------------------------------------------------------------------
(* The command line                                                        *)

RunLedger(c) ==
  /\ command[c] = "idle"
  /\ command' = [command EXCEPT ![c] = "opening"]
  /\ BeginOpen(c)
  /\ UNCHANGED <<now, moduleVars, queue, requestVars, settled, overtaken, late>>

OpenLedger(c) ==
  /\ OpenStep(c)
  /\ UNCHANGED <<now, moduleVars, queue, requestVars, command, settled, overtaken, late>>

\* ledger vacuum; report and export change nothing.
Vacuum(c) ==
  /\ opening[c] = "open" /\ command[c] = "opening"
  /\ command' = [command EXCEPT ![c] = "ran"]
  /\ \E before \in Times : ~Earlier(now, before) /\ Prune(before)
  /\ UNCHANGED <<now, moduleVars, queue, requestVars, settled, overtaken, late>>

\* It ends: it is done, a statement has failed, or it is killed.
EndCommand(c) ==
  /\ command[c] \in {"opening", "ran"}
  /\ command' = [command EXCEPT ![c] = "ended"]
  /\ Release({c})
  /\ UNCHANGED <<now, moduleVars, queue, requestVars, settled, overtaken, late>>

-----------------------------------------------------------------------------
(* Crashes and time                                                        *)

Running == {g \in Generations : phase[g] \notin {"unloaded", "clean", "refused"}}

\* The server's process dies, and with it what its generations had in memory.
Crash ==
  /\ Running # {}
  /\ phase' = [g \in Generations |-> IF g \in Running THEN "crashed" ELSE phase[g]]
  /\ active' = 0
  /\ refresher' = [g \in Generations |-> FALSE]
  /\ queue' = [g \in Generations |-> <<>>]
  /\ served' = [r \in Requests |-> IF served[r] = "inside" THEN "over" ELSE served[r]]
  /\ settled' = settled \cup UNION {Range(queue[g]) : g \in Generations}
  /\ Release(Generations)
  /\ UNCHANGED <<now, by, start, signed, command, overtaken, late>>

Tick ==
  /\ now' \in Instants /\ Earlier(now, now')
  /\ UNCHANGED <<storeVars, moduleVars, queue, requestVars, command, settled, overtaken, late>>

-----------------------------------------------------------------------------
Provision(g) == LoadFile(g) \/ Open(g) \/ BuildFails(g) \/ Build(g)
Caddy(g) == Activate(g) \/ Discard(g) \/ Retire(g)
Cleanup(g) == StopVerifier(g) \/ CloseLedger(g)
Ledger(c) == RunLedger(c) \/ OpenLedger(c) \/ Vacuum(c) \/ EndCommand(c)

Next ==
  \/ \E g \in Generations : Provision(g) \/ Caddy(g) \/ Cleanup(g) \/ Commit(g)
  \/ \E r \in Requests : Arrive(r) \/ Record(r)
  \/ \E c \in Commands : Ledger(c)
  \/ Shutdown \/ Crash \/ Tick

Spec == Init /\ [][Next]_vars

-----------------------------------------------------------------------------
(* What a deployment promises                                              *)

\* A generation that is refused, cleaned up or gone holds no database handle and
\* runs no refresher, however far it had come; one that serves has its ledger.
NothingLeaks ==
  \A g \in Generations :
    /\ opening[g] \in Opening \cup {"open"} =>
         phase[g] \in {"opening", "building", "provisioned", "serving", "stopping", "closing"}
    /\ refresher[g] => phase[g] \in {"provisioned", "serving", "stopping"}
    /\ phase[g] \in {"serving", "stopping", "closing"} => opening[g] = "open"

\* Once a generation is cleaned up, the events that its requests recorded are
\* settled, those of requests that went on during the reload too, except what
\* was recorded after the ledger had closed; and only a request that was inside
\* when the cleanup began can come that late, however reloads, requests, commits
\* and crashes interleave.
ReloadLosesOnlyLate ==
  /\ \A r \in Requests :
       served[r] = "queued" /\ phase[by[r]] = "clean" => r \in settled \/ r \in late
  /\ late \subseteq overtaken

\* What the column keeps of a time is no earlier than this.
Kept(t) == IF dialect = "mysql" THEN [t EXCEPT !.fraction = Floor(@)] ELSE t

\* At whatever point of a second events fall, a report over a window shows all
\* of its events, and a vacuum keeps all that are not older than its cut-off; on
\* MySQL, those that are in it by more than a part of a millisecond.
WindowsHonest ==
  \A e \in DOMAIN rows \cap Requests, t \in Times :
    ~Earlier(Kept(start[e]), t) => Reported(rows[e], t) /\ ~Expired(rows[e], t)
=============================================================================
