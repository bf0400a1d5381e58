# TLA+ for CrawlWall

Specifications of CrawlWall, the crawler policy for Caddy, with the model-checking
runs that exercise them and proofs that the TLA+ proof system checks. They are written
from the Go code; a line such as `async.go:178` names the code a definition stands for,
relative to the package it lives in. `PROJECT.json` holds the same correspondence for
every definition, the runs, the mutants, the hazards, the findings and the theorems.

    tlc -workers 2 -config MCAsyncLedger.cfg MCAsyncLedger.tla
    tlc -workers 2 -config MCIPRanges.cfg MCIPRanges.tla
    tlc -workers 2 -config MCShadowRollout.cfg MCShadowRollout.tla
    tlc -workers 2 -config MCBoundedMaps.cfg MCBoundedMaps.tla
    tlc -workers 2 -config MCRobotsTxt.cfg MCRobotsTxt.tla
    tlc -workers 2 -config MCDeployment.cfg MCDeployment.tla
    tlapm AsyncLedgerProofs.tla        # and the other six modules named *Proofs

## The system

A request passes through `module.go` in this order: the client address and the bot are
derived from the request, the bot's verifier is asked, the policy is evaluated, the
decision is acted on (block, rate limit, pass), the next handler is called, and one
event is handed to the ledger, signed if the rule asks for a receipt. Everything the
handler calls is shared by all requests, and three of the things it calls keep state of
their own behind locks, goroutines or singleflight. Around it stand Caddy, which
provisions one module per load of the configuration and cleans up the one before, and
the command line, which opens the same ledger while the server writes to it.

| Part | State | Operations | Talks to | What is hard | What makes it correct |
|---|---|---|---|---|---|
| Buffered ledger, `internal/ledger/async.go` | queue channel, the writer's batch, drop counter, `quit`, `done` | WriteEvent, Flush, Report, ExportJSONL, Prune, Close, the writer's loop | handlers, the SQL ledger, the command line | a queue that is full, batches that fail, Flush against Close, the drain | events in arrival order and in one place; a barrier means what is before it is settled; readers see what was queued; Close drains and ends |
| SQL ledger, `sql.go`, `dialect.go`, `schema/` | one table, its columns | openSQL with schema and migration, WriteEvents, Report, ExportJSONL, Prune, Close | the buffered ledger, the command line | a migration of several statements, interrupted or overtaken; three dialects of time; one failing row in a batch | whoever opens it finds a complete table; what was signed survives the round trip; windows neither miss nor delete an event that is in them |
| IP-range verifier, `internal/verify/ip_ranges.go`, `cache.go` | networks, expiry, last error, backoff | Verify, forceRefresh, CacheStatus | HTTP sources, the refresher, the service | a shared fetch, its deadline, stale answers, backoff | one fetch at a time, newest wins, stale only as configured, a failed refresh goes unnoticed |
| Verification service, `service.go` | the refresher goroutines | Start, Stop, Verify | verifiers, the handler | Stop while a fetch is shared | verification and Stop return |
| Reverse-DNS verifier, `reverse_dns.go` | cache of results | Verify | the resolver | a lookup shared by requests with different deadlines; expiry and eviction | verified only after a round trip; errors forgotten; ends in time |
| Rate limiter, `internal/ratelimit` | buckets by key | Allow | the handler, `lru` | a bucket used after the unlock, idle eviction, clocks out of order | the limit holds however keys come and go |
| LRU, `internal/lru` | none | Trim | limiter, reverse-DNS cache | equal access times | at most `max` entries afterwards, the oldest gone |
| Request handler, `module.go` | none beyond the request | ServeHTTP, serveRobots, writeLedgerAndReceipt, Provision, Cleanup | everything above | three modes, two fail modes, errors and panics downstream; Provision that fails halfway; Cleanup under traffic | what is answered, recorded, charged and signed agree; a dry run predicts the rollout; a reload leaks nothing and loses only what is recorded after its ledger has closed |
| Policy engine, `internal/policy` | compiled rules | NewEngine, Evaluate, default and error decisions | handler, robots, `policy eval` | ties of priority, evaluation errors, a limit shared by pointer | the file's order does not matter; each request owns its limit |
| robots.txt, `internal/robots` | the rendered file | Generate | policy engine, handler | reduction to few lines under longest match | the file says what the edge does to an honest crawler |
| Identification, `internal/bot` | registry | Identify | handler, robots | needles of two bots in one User-Agent | the first bot in the file with a needle wins, else the default, and the crawler reads that bot's record |
| Configuration, `internal/config` | none | LoadFile, Validate | all | checks on values | what runs has been validated |
| Receipts, `internal/receipt` | key | Sign, VerifyEnvelope | handler, command line | canonical bytes | an exported receipt verifies |
| Command line, `cmd/crawlwall` | none | ledger report, export, vacuum; policy eval; receipts verify; others | packages | a database that a server uses meanwhile; a decision predicted with less than the handler knows | an export succeeds; what is predicted is what is answered, or cannot be told |
| Caddyfile, scaffold, version | none | parsing, templates | | none concurrent | |

## Modules

| Module | Models | State and actions |
|---|---|---|
| `AuditLog` | what the ledger promises to its callers: a best-effort log in arrival order | `Arrive`, `Refuse`, `Settle`, `Answer`, `AskToEnd`, `End` |
| `AsyncLedger` | `async.go` | `queue`, `batch`, `writer` (the select, commit, ack, report, stopped), `quit`; `WriteEvent`, `CallFlush`, `SendBarrier`, `FlushReturns`, `FlushCancelled`, `Read`, `Prune`, `CallClose`, `CloseInner`, and the writer's `Receive`, `Tick`, `StartDrain`, `FinishDrain`, `Commit`, `CloseAck`, `ReportDropped` |
| `SQLStore` | `sql.go` and `dialect.go`: the table as openings, statements and crashes leave it | `dialect`, `columns`, `rows`, `opening` (where openSQL is, for each handle); `BeginOpen`, `ApplySchema`, the probes, `AddColumn`, `FillEventIDs`, `Release`, `Insert`, `Prune` |
| `Deployment` | `module.go` Provision and Cleanup, `main.go` ledger, over one `SQLStore` | each generation's `phase` and `queue`, requests, commands; `LoadFile`, `Open`, `BuildFails`, `Build`, `Activate`, `Discard`, `Retire`, `StopVerifier`, `CloseLedger`, `Commit`, `Arrive`, `Record`, `RunLedger`, `Vacuum`, `EndCommand`, `Shutdown`, `Crash`, `Tick` |
| `IPRanges` | `ip_ranges.go`, `cache.go`, and Start, Stop and the refresher of `service.go` | the cache, the clock and the ticker; each goroutine's place in Get, Snapshot, Join or Lead, Fetched, Release, Settle |
| `HandlerParameters`, `RequestHandler` | `module.go`, with the decisions of `engine.go`, the event of `ledger.go` and the report's columns of `sql.go` | per request: place, decision, resolved key, event, answer; per key: tokens |
| `ShadowRollout` | a deployment and a dry run of the same policy under the same traffic | extends `RequestHandler`, whose variables are the deployment's; the dry run is an instance of it; their actions are paired |
| `LRU`, `CacheParameters` | `lru.Trim`; the constants of the two modules that use it | |
| `RateLimiter` | `limiter.go` | the map, the buckets, and each call between the mutex and AllowN |
| `ReverseDNS` | `reverse_dns.go` with the deadline of `service.go` | the result cache; each request's place in Get, Join, PTR, Forward |
| `BoundedMaps` | the limiter or the verifier, one at a time, over the same `Trim` | instances of both |
| `Policy` | `compile.go`, `engine.go`, `cel_env.go` for rules of seven kinds: path prefix, exact path, verified, claimed, label, header, query | pure |
| `PolicyAnswers` | who asks the engine and with what input: `identify.go`, whom `service.go` verifies at all, the handler, `policy eval` | pure |
| `RobotsTxt` | `robots.go`, `setupRobots` | `Provision`: the file, no file, or the refusal to load |
| `MC*` | constants and symmetry for TLC | |
| `AsyncLedgerProofs`, `RequestHandlerProofs`, `RolloutProofs`, `IPRangesProofs`, `DeploymentProofs`, `ReverseDNSProofs`, `BoundedMapsProofs`, `RobotsTxtProofs` | theorems about the modules they are named for, `ReverseDNSProofs` also about `LRU`, `RobotsTxtProofs` also about `Policy` | |

Between them the modules compose in this way: `AsyncLedger` implements `AuditLog`
through the instance `Log`, and `Deployment` uses the ledger as that log, in order and
settled before Close returns; `Deployment` extends `SQLStore`; `ShadowRollout` composes
two `RequestHandler`s; `BoundedMaps` composes `RateLimiter` and `ReverseDNS`;
`RobotsTxt` extends `PolicyAnswers`, which extends `Policy`. The handler sees verifier,
limiter and ledger through what they return, so that those modules can be checked apart
with their own interleavings.

### Abstractions worth knowing

* Data that no property tells apart is a model value: an event is its request's name, a
  fetched set of networks is the time its fetch began, a User-Agent is the set of
  needles it contains.
* A CEL expression is a set of bots and one test. Where the test reads something that
  may not be there, the rule has `absent`: what the expression comes to then. On a key
  that a map lacks, CEL breaks off, unless the expression asks first, as in
  `has(labels.path)` or `"x" in request.headers`; then it is false or true as it is
  written. The query is a string that may be empty, so a test of it never breaks.
* In `AsyncLedger` a batch reaches the table whole or not at all when the inner ledger
  is transactional, and as any prefix otherwise, so a bad row, a lost connection and a
  commit that reported failure are all there.
* In `SQLStore` an opening goes in steps, each of which may fail or be the last of its
  process: one for the statements of the schema, then one for each look at the columns
  and each statement of the migration that changes the table. The schema is one step
  because its table is made by its first statement; the others are indexes.
* A time is a second and a fraction, of which `Grain` make a millisecond. MySQL's
  `DATETIME(3)` rounds to the nearest millisecond, down as well as up, with the carry
  into the second, while `since` and the cut-off are bound as they are
  (`dialect.go:129`). SQLite's column has whole seconds, and what is compared with it is
  cut to them; PostgreSQL's keeps the fraction. A database begins new, current, or
  (SQLite) as a version without one or both of the newer columns left it.
* `Deployment` crashes the server's process at any time and starts it again; a command is
  killed at any time. Queued events die with the process, the database stays. Cleanup may
  begin with requests inside: Caddy waits for them when the process ends, within the grace
  period, but not on a reload. They go on, and record into a ledger that is open, closing
  or closed. The end of the drain and the closing of the database are one step here; what
  lies between them is in `AsyncLedger`.
* `IPRanges` counts time in units of five seconds; local steps take no time. A fetch
  takes any number of units up to its deadlines, which are the client's timeout for each
  source, the verification deadline when a request leads, and Stop when the refresher
  leads.
* `RateLimiter` lets a call be late by up to `MaxDelay` between reading the clock and
  taking its token. The token bucket is that of golang.org/x/time/rate, external to this
  code; tokens are counted in the time they take to earn.
* In `ReverseDNS` and `RateLimiter`, calls are numbered in the order in which they
  arrive; only their names are fixed by that, not what they do.
* `RequestHandler` calls the limiter by key with `Rpm` tokens, which refill one at a
  time whenever the environment likes. In `ShadowRollout` a token comes back to both
  deployments, or to the dry run alone where the other's bucket is full: that is what a
  bucket that earns at one rate does.
* Paths in `Policy` are sequences of characters over a small alphabet, the root being the
  empty one. `RobotsTxt` leaves out sitemaps, comments and the wording of warnings.
* `RobotsTxt` promises a crawler something only if its name belongs to one bot
  (`Alone`), and an honest one: a verifier that is asked says so. Nothing in Validate
  keeps two bots from having a needle in common, or one from having `*`; the file then
  has two records for the name.
* Every definition marked *Mutant* states a plausible slip in the code; none is used by
  the specification. Each property is checked to fail under one of them.

## What the runs show

| Run | Instance | What it shows |
|---|---|---|
| `ledger_safety` | 3 events, 2 readers, 1 Close, queue 2, batch 2, rows one by one | `FIFO`, `NothingForgotten`, `FlushBarrier`, `ReadYourWrites`, `CloseDrains` in every interleaving |
| `ledger_liveness` | 2 events, 1 reader, 1 Close, queue 1, transactions | `CallsReturn`: Flush and Close return; `EventsSettle`, `DropsReported`; the ledger implements `AuditLog` |
| `ledger_flush_commits` | 2 events, 2 readers, 1 Close, queue 2 | *violated*: a flush whose batch failed returns nil |
| `ranges` | 2 requests, the refresher, 1 source, 65 seconds | `AnswersAllowed`: fresh, stale or refused as configured, failures unnoticed while the cache is fresh; `NewestWins`, `BackoffHolds`, `StaysWarm`, `StopIsBounded`; `CallsReturn`: verifications and Stop return |
| `ranges_verify_timeout` | 2 requests, 1 source | *violated*: a request that joins the refresher's fetch exceeds its five seconds |
| `rollout` | 2 requests, 2 keys, a limit of one token, a deployment in each mode beside a dry run, both fail modes, with and without a signer | answer, event, report, bucket and receipt agree on every path; shadow predicts enforce under fail_mode allow and never understates the policy under either |
| `rollout_fail_block` | the same | *violated* under fail_mode block, where a verifier's error is a block in enforce and falls through to the policy in shadow |
| `handler_record` | 2 requests, 2 keys | *violated*: a panic downstream leaves no record |
| `bounded_maps` | 4 calls over a map of 1 bucket; 3 requests for 3 addresses over a cache of 1 | bounds hold, `RateHolds` across idle eviction and late clocks, reverse-DNS answers are honest and in time |
| `robots_txt` | two rules of seven kinds, 3 bots of which the default has a needle and a verifier, 7 paths: 9504 policies | `FileAgrees`: the file says what the handler answers wherever it was probed, everywhere if rules test prefixes, except to crawlers of the default bot where a rule tests what the generator gets wrong of them; `DelaySuffices`, with the same exception; `OrderIrrelevant`, of the handler's inputs and of `policy eval`'s; `EvalPredicts`: `policy eval` says what the handler does, or fails, or has come to a rule that it can only guess |
| `robots_disagrees` | the same | *violated*: a rule with `==` becomes a line that covers what is below |
| `deployment` | 2 generations, 1 command, 2 requests, 1 row of an older version, 2 instants on the two sides of a second of 2 milliseconds in 3 parts each, 3 dialects | `NothingLeaks`, `ReloadLosesOnlyLate`, `OpensComplete`, `ExportVerifies`, `WindowsHonest` through reloads, refusals, crashes, kills and failing statements |

The larger ones are `deployment` (2.9 million states, over a minute), `bounded_maps`
(2.7 million, a minute and a half) and `ranges` (1.15 million, two minutes with its
liveness). `robots_txt` has few states, but compares the file, the handler and `policy
eval` over all crawlers, paths and requests in each; it takes over a minute.

**Why these bounds are enough.** Two slots and batches of two make every case of the
writer occur: a full queue, a batch filled by size and one flushed by a barrier or the
ticker, a drain that meets more than a batch. A queue of one makes the sender of a
barrier wait. Two requests are needed for one to lead and one to join a fetch; the
clock of `ranges` reaches past the first expiry (50 seconds after the warm-up), the
refresher's tick before it (45), the stale window after it (5), and a backoff (20 here),
so that requests come in during each. A backoff that has run out while networks are
stale is not among these, as the stale window is shorter; it is left to the theorems,
which hold for any lengths. In `rollout` two requests meet at a bucket of one token, so
one of them exceeds it. In `bounded_maps` a map of one entry is over its bound at the
second, and the third call or request finds what the eviction has left; `EntryTTL` is a
little longer than the minute a bucket takes to fill, as ten minutes are in the code.
`HeadroomDivisor` is 8, as in the code, so maps this small trim to their bound; what
`Trim` leaves of larger ones is the theorem `TrimBounds`. In `robots_txt` two rules
suffice for one to carve a path out of another, and the named paths are nested, equal or
apart; the image crawler's bot has two needles, and the default one of its own and a
verifier, so that the generator is wrong about crawlers of the default bot in both ways.
In `deployment` two generations are one reload, with a refusal or a crash at any point of
either; one command is enough to overtake a migration or to be overtaken; one of the two
instants is rounded up into the next second, the other down within its millisecond, and
windows and cut-offs begin at every part of both seconds.

**Symmetry** is used in safety runs only: over events and readers, over requests and
keys in `rollout`, over requests in `deployment`, over addresses in `bounded_maps`.
`ranges` checks liveness and has none; rules, generations and numbered calls are never
permuted.

**Deadlock** is not checked: each of the systems stops, when every request is served and
the ledger or service is closed, or when the clock has run out.

**Fairness.** The ledger's writer is a goroutine and so weakly fair; its select picks at
random among ready cases, so a case that is ready again and again is taken: `Receive`,
`Tick` and `StartDrain` are strongly fair. A sender blocked on a channel is queued by the
runtime and served in turn, hence strong fairness of `SendBarrier`. No fairness is
assumed of handlers, of readers' contexts or of the caller of Close, and commits end,
because the writer bounds each by a timeout. In `IPRanges` goroutines run on, a fetch
ends at its deadline (the tick cannot pass it), and the refresher's select, picking at
random, takes the cancelled context in the end. `Deployment`, `ShadowRollout`,
`BoundedMaps` and `RobotsTxt` promise safety only and assume no fairness.

## What is proved

For all values of the constants under the named assumptions, by TLAPS:

| Module | Theorems | State |
|---|---|---|
| `AsyncLedgerProofs` | `LedgerTypes`, `LedgerOrder`, `LedgerKeepsEvents`, `LedgerFlushes`, `LedgerReads`, `LedgerCloses` | every invariant of `ledger_safety` |
| | `LedgerImplementsLog` | `SafeSpec => ImplementsLog`: every step is a step of `AuditLog` or a stutter |
| `IPRangesProofs` | `RangesTypes`, `RangesAnswer`, `RangesNewestWins` | `TypeOK`, `AnswersAllowed`, `NewestWins` |
| | `RangesBackOff` | `BackoffHolds`, if `FetchTime <= Refresh` |
| | `RangesStop` | `StopIsBounded` |
| | `RangesStayWarm` | `StaysWarm`, if `Refresh # 0` |
| `RequestHandlerProofs` | `HandlerTypes`, `HandlerRespectsMode`, `HandlerReportAddsUp`, `HandlerOwnsLimits`, `HandlerRecordsAnswer`, `HandlerSignsRecord` | the invariants of one handler |
| `RolloutProofs` | `RolloutDeploys` | a rollout's deployment runs as `RequestHandler!Spec` says |
| | `DryRunIsStricter`, `DryRunPredicts` | `ShadowIsStricter`, `ShadowPredictsAllow` |
| `DeploymentProofs` | `DeploymentTypes`, `DeploymentLeaksNothing`, `DeploymentLosesOnlyLate`, `DeploymentOpensComplete`, `DeploymentExportVerifies`, `DeploymentWindows` | every invariant of `deployment` |
| `ReverseDNSProofs` | `ReverseDNSHonest`, `ReverseDNSEnds` | `HonestAnswer`, `EndsInTime` of the verifier |
| | `TrimBounds`, `TrimDropsOldest` | what `Trim` leaves, of any finite map |
| `BoundedMapsProofs` | `BoundedMapsTypes`, `BoundedMapsHonest`, `BoundedMapsEnd` | the same, and both maps' bounds, in the composition |
| | `BoundedMapsRate` | `RateHolds` |
| `RobotsTxtProofs` | `RobotsFile`, `RobotsTypes` | what a served file is; `TypeOK` |
| | `RobotsAgrees`, `RobotsDelay` | `FileAgrees`, `DelaySuffices` |
| | `RobotsOrder`, `RobotsPredicted` | `OrderIrrelevant`, `EvalPredicts` of the engine |

Few of these properties are inductive. The arguments:

**The ledger** (`SizesAssumption`, `ModeAssumption`, `NamesAssumption`). `TypeInv`
strengthens the type with what the writer's place says of its variables: it selects only
with room in the batch, answers, reports and stops only with the batch empty, and holds a
reader's barrier when it is about to answer. `LedgerInv` adds the contents: arrival
numbers are given once and in order (`Stamps`); table, batch and queue are sorted by
arrival and each ahead of the next (`Order`); an accepted event or barrier is in exactly
one place (`EventPlaces`, `BarrierPlaces`); nothing queued before a barrier is still in
the queue once the writer has taken the barrier (`Passed`), nor anything queued before
quit once it is on its way to stop (`Stopping`); a reader that reads has been answered,
or the writer has stopped (`Readers`). For the refinement, `Commit` is the step that
matters: a batch is the oldest part of what is pending, so settling it is settling
everything up to the arrival of its last event, and the part that reached the table is
what came up to the last event written.

**IP ranges** (`TimesAssumption`, `StaleAssumption`, `ActorsAssumption`). `RangesInv`:
one fetch is under way at most (`Single`); the cache announces what it holds, with a
retry time no further off than a backoff (`CacheHolds`); a fetch under way is younger
than what the cache holds and not past its sources' deadline (`Flight`); and of each
request, what it was or is about to be told (`Informed`). `BackoffInv` adds that, until
a fetch has succeeded since a request came, the backoff it found still stands or the
networks it found were fresh (`Remembers`). A success also ends the backoff; when it
brings networks of the very instant of those found, these must still have been fresh,
hence `FetchTime <= Refresh`. `StopInv` follows the refresher (`Place`), its ticker
(`Ticks`: no tick is pending while it fetches, and the next comes after its fetch), the
time since Stop (`Stopping`) and each request's deadline (`Prompt`). `WarmInv` holds
unless something is `Slow`, which is stable: whatever breaks the premise of `StaysWarm`
breaks it for good. Otherwise (`Warm`) the last fetch ended after the tick before last
(`BetweenTicks`), after the last one when the refresher is back at its select, and the
fetch that serves a tick began no later than that tick, be it the refresher's or one it
joined; then expiry is one interval and the margin after a fetch began, and two fetches
in a row fill no more than the margin.

**The handler and the rollout** (`RpmAssumption`, `RulesAssumption`). `HandlerInv` says
of each request what holds at its place in ServeHTTP: before the policy is asked nothing
is decided (`Undecided`) and nothing answered (`Unanswered`); before the limiter is asked
the request's own limit holds its own key; when the next handler is called the event is
what the decision and the limiter made it (`PlainEvent`) and, in enforce, the request is
wanted; when it is done it was answered as robots.txt, refused, or passed on (`Answer`).
It has no part that relates two requests, and the proof shows why none is needed: each
step leaves all other requests as they were (`Untouched`), because each has its own event
and, through `LimitOwner`, its own limit. `RolloutProofs` reads the same theorems at the
dry run, through an instance of `RequestHandlerProofs` with the dry run's variables
(`SameServeHTTP` shows that instance and the specification's to be one), and adds what
relates the two: the dry run is never behind the deployment before the next handler and
decides the same (`Together`), its buckets miss at least the tokens the other's miss
(`Stricter`), and under fail_mode allow they differ in nothing (`Alike`).

**The deployment** (`LegacyAssumption`, `ClockAssumption`, `GrainAssumption`,
`HandlesAssumption`, `InstantsAssumption`). `StoreInv` is about the table, whoever opens
it: an opening that has met no other is the only one (`Undisturbed`); what an opening
has probed or added is still so at its place, unless it was disturbed (`OpenPlace`); a
null id beside the column means that some opening is between ALTER and UPDATE, or ended
there; each row verifies, but on MySQL. `DeployInv` adds which handle a generation holds
at its place, and that what is queued at one that is clean came late (`Placed`); where a
request and its event are, and that it is late only if it was overtaken (`Traced`); that
requests come to a generation that serves (`ActiveServes`) and that a queue holds only
events that were queued (`QueuedOnly`). `ReloadLosesOnlyLate` follows from `Placed` and
`Traced`: what is queued at a generation that is clean has been settled, or came when it
was clean already; and no request enters a generation after `Retire`, so that whoever is
late was inside then. `WindowsHonest` is about what a column makes of a time
(`ColumnKeeps`): it is no earlier than the time a window is compared with, or on MySQL
than the millisecond (`RoundedNear`).

**The bounded maps** (`HeadroomAssumption`, `BoundsAssumption`, `LimiterAssumption`,
`VerifierAssumption`). `TrimBounds` takes the oldest entry that stays, which a finite
non-empty map has, and counts what is older. `DNSInv` of the verifier: entries are
finite, within the bound, and each was put there within its lifetime (`Cached`, `Fresh`);
whoever waits has time left, and a leader's deadline is no later than a joiner's, as it
came first (`Timely`, `Looking`); what was answered is sound (`Answered`). In the
composition one map is exercised while the other rests as it began, so that `MapsInv` is
either the verifier's invariant, through an instance of `ReverseDNSProofs`, or the
limiter's.

**The limit** (the same). `RateHolds` speaks of stretches between two allowed calls,
which is no invariant of a step. `RateInv` speaks of all stretches of time: at any limit
that bounds those asked for, what a key's calls took in a stretch is within what the
stretch earns, and when the stretch lasts until now there is still room for what the key
has left (`Paid`). A key that is not in the map has a full minute left, since its next
call makes a full bucket; so a bucket may be let go only when it is full. That it is
needs `Held`: the bucket's clock and all its calls' are at most `MaxDelay` after the
entry's last access, which evictIdle finds `EntryTTL` ago. A call with a bucket in its
hands has the one its key has in the map (`Flying`), unless that was trimmed, or let go
since; then the call is more than a minute late, and its own delay pays for its token.
The delays are a sum over a set of calls. What such a sum gains when a call joins is
shown by a least counterexample under the strict subset relation, which is well founded
on finite sets: the induction theorems for finite sets take a predicate, which none of
the installed provers can instantiate.

**The policy and robots.txt** (`PathsAssumption`, `LimitsAssumption`,
`NeedlesAssumption`, `PoliciesAssumption`). The engine's rules are a sorted sequence, of
which the first that ends the loop decides. `SortExists` sorts by giving each rule the
place that the number of rules before it names; `CompiledSorts` says what any such
sequence has, and `EvaluateIs` puts the engine without a sequence: the rule that matches
or breaks and comes before all others that do. `OrderIrrelevant` follows, because the
reversed file has the same rules (`SameEnding`). For `EvalPredicts`, a rule that is not
guessed (`ReadAlike`) and does not break for want of labels or headers is found to
match, or not to, by `policy eval` as by the edge, and one that ends the loop at the
edge ends it for `policy eval` too (`KnowsLess`); so the two end at the same rule,
unless the first that they read otherwise is one that `policy eval` comes to, which
`Guesses` names (`EvalIsEdge`). `FileInv` is the only invariant needed of the state.
That the file says what is decided is `SaysAll`: the longest line over a candidate path
has its decision. A path with a line of its own is that line; one without is decided as
its closest prefix and has the same lines over it (`OverClosest`), so that of the paths
misstated a shortest cannot exist. A path that was not probed is decided as its longest
candidate, if all rules test for prefixes (`DecidedAsLongest`). `LinesOfIs` shows that a
crawler's record is that of the bot as which it is identified, through the merging of
records. What the edge is told of an honest crawler is what inputFor made up, but for
`Misjudged` (`HonestIs`), hence the decision is the same if no rule tests that
(`HonestDecision`). `DelayIsLong` is the arithmetic of the rounded delay.

## What is only model-checked

Liveness, for which the prover has no rule: `CallsReturn` of the ledger and of the IP
ranges, `EventsSettle`, `DropsReported`. Every other property of a passing run is also a
theorem; `StaysWarm` and `BackoffHolds` are theorems under the conditions named in the
table, and the runs check them under constants that satisfy these.

## Where the code and its words part

* `ledger_flush_commits`: `async.go:93` says a Flush returns when everything before it
  is committed. A failed batch is logged and dropped, and Flush returns nil.
* `ranges_verify_timeout`: `service.go:17` says `VerifyTimeout` bounds a verification,
  fetch included. Joiners of the refresher's fetch wait for the client's timeouts.
* `rollout_fail_block`: README and policy guide say that a dry run reports what enforce
  would reject. Under fail_mode block it does not for verifier errors.
* `handler_record`: README says every request leaves a record. A panic leaves none.
* `robots_disagrees`: `robots.go:5` and `robots.go:294` say that file and edge cannot
  disagree, but for the rules that get a warning. A rule with `==` gets none, and the run
  shows the two disagree below its path.

Smaller observations, which the properties name as their exceptions:

* A next handler that returns an error without having written is recorded with status
  200 (`module.go:275`): `AnswerRecorded` speaks of handlers that answer.
* Two rules whose limits resolve to one key share a bucket, and the first to come sets
  its rate: `RateHolds` goes by the largest.
* An event that is sent after the drain is accepted and never written, nor counted or
  logged as dropped. `async.go:137` announces it: a request in flight during a reload
  drops its event. `EventsSettle` excepts what is sent after Close; `ReloadLosesOnlyLate`
  shows that what was recorded before the ledger had closed is settled even so, and that
  only requests which the cleanup has overtaken can lose their event in this way.
* MySQL rounds every time to a millisecond (`schema/mysql.sql:7`). In the last half
  millisecond of a second that is the next second, where the receipt, signed with the
  second cut off (`ledger.go:147`), does not verify: `ExportVerifies` excepts MySQL. And
  since and cut-off are not rounded: an event at .000400 is stored as .000, so a report
  since .000300 misses it and a vacuum before .000300 deletes it. `WindowsHonest`
  promises there what holds, that events are safe but for the millisecond they are in. A
  server that cuts off instead, as MariaDB does by default, would have receipts verify,
  and the same gap in windows.
* A migration that dies between ALTER and UPDATE leaves null ids, which no later opening
  fills and every export fails on (`sql.go:362`): `ExportVerifies` shows that there is no
  other way to such a table.
* Of two openings of an old SQLite table that overlap, one may fail (`sql.go:357`):
  `OpensComplete` shows that none fails otherwise.
* `policy eval` asks without labels, headers and query, although `input.go:96` speaks of
  the same shape of input. A rule that reads a missing key makes it fail. A rule that asks
  for the key first (`has(labels.path)`, `"x" in request.headers`) does not, nor does one
  on `request.query`: there it silently predicts what becomes of a request without.
  `EvalPredicts` shows that it is wrong by no other rule. A rule that reads an absent
  header keeps robots.txt from being rendered and the module from loading
  (`CannotRender`).
* The default bot may have needles and a verifier. robots.txt is rendered for it as not
  claimed and, with a verifier, as verified (`robots.go:162`). At the edge its own
  needle claims it (`identify.go:68`), and who has no needle is never verified
  (`service.go:140`). If a rule tests that, the file says something else to such
  crawlers than the edge does: `FileAgrees` and `DelaySuffices` except them then
  (`Misjudged`, `WellJudged`), in spite of `robots.go:5`.
* Validate lets a block answer with a status below 200 (`validate.go:175`), which does
  not end a response. What the net/http server makes of it is outside this code.

## What is not modelled

* CEL as a language: a rule is one of seven tests. Rules that read `site.mode`
  (`engine.go:32`), which differs between a dry run and enforce, are excluded from what
  `rollout` says; host, method, address and User-Agent as such are not tested either,
  though rules on the User-Agent get no warning from `robots.go:285`.
* YAML, JSON, Ed25519 and key files, HTTP and DNS on the wire, URL and DSN parsing,
  placeholders of the dialects (`rebind`), the scanning of columns other than id, time
  and receipt: conversions of one value, with no state.
* `CacheStatus` of the verifiers, the `Retry-After` header, `remoteIPFromRequest`, the map
  of headers: functions of one state or one request that nothing else reads.
* The ledger that does nothing, the space that VACUUM gives back, the scanner's line
  limit of `receipts verify`.
* Of the command line, init, robots, bots and version, and all flags, files and tables;
  the Caddyfile directive; the scaffold's templates; the version.
* Validate's checks of single fields. Those that bound what the models range over (action
  types, modes, positive limits) are named where they are used.

What could still be added, in this order: `RateLimiter` composed with `RequestHandler`,
so that the tokens of the handler are the limiter's; a promise for crawlers whose name
two bots share; `CacheStatus` against what a request would be answered.
