----------------------------- MODULE RobotsTxt -----------------------------
(***************************************************************************)
(* The robots.txt that the handler serves (internal/robots/robots.go): a   *)
(* file rendered once, when the module is provisioned, by asking the       *)
(* policy engine what it would do for each bot at each path the policy     *)
(* mentions.  The edge goes on asking the engine at every request; what a  *)
(* crawler reads out of the file is to be what it meets there.             *)
(***************************************************************************)
EXTENDS PolicyAnswers

CONSTANTS
  Policies  \* rules in the order of the file, default action, paths in `sets'

VARIABLES
  policy,
  status,  \* the module is loaded, serves requests, or was refused
  file     \* the records of robots.txt, {} when it is not served

vars == <<policy, status, file>>

\* Rules have ids of their own (validate.go:120).
ASSUME PoliciesAssumption ==
  /\ Policies \subseteq [rules : Seq(Rules), default : Actions, sets : SUBSET Paths]
  /\ \A p \in Policies : \A i, j \in DOMAIN p.rules : p.rules[i].id = p.rules[j].id => i = j

Lines == [disallow : SUBSET Paths, allow : SUBSET Paths, delay : Nat]
Anyone == "*"
Tokens == {Anyone} \cup UNION {Needles[b] : b \in Bots}
Records == [agents : SUBSET Tokens, lines : Lines]

-----------------------------------------------------------------------------
(* Generate                                                                *)

\* candidatePaths
CandidatePaths(p) == {<<>>} \cup p.sets \cup {r.path : r \in Range(p.rules)}

\* inputFor: a plain GET of the bot as it says it is, verified if it can be; the
\* default is not claimed.
InputFor(bot, path) ==
  [bot |-> bot, path |-> path, verified |-> bot \in Verifiable, claimed |-> bot # Wildcard,
   labels |-> TRUE, header |-> "absent", query |-> "absent"]

Decision(engine, bot, path) == Evaluate(engine, InputFor(bot, path))
Blocked(engine, bot, path) == Decision(engine, bot, path).type = "block"

Covering(paths, path) == {c \in paths \ {path} : IsPrefix(c, path)}

\* Mutant: the shortest path that covers another is compared with it.
ShortestPrefix(paths, path) ==
  CHOOSE c \in Covering(paths, path) : \A d \in Covering(paths, path) : Len(c) <= Len(d)

ClosestPrefix(paths, path) ==
  CHOOSE c \in Covering(paths, path) : \A d \in Covering(paths, path) : Len(d) <= Len(c)

\* directives: the paths that need a line, since their closest prefix does not
\* imply what is decided for them, or none covers them and they are blocked.
NeedsLine(engine, paths, bot, path) ==
  IF Covering(paths, path) = {} THEN Blocked(engine, bot, path)
  ELSE Blocked(engine, bot, path) # Blocked(engine, bot, ClosestPrefix(paths, path))

\* Mutant: the delay is rounded down.
DelayRoundedDown(rpm) == IF rpm >= 60 THEN 0 ELSE 60 \div rpm

CrawlDelaySeconds(rpm) == IF rpm >= 60 THEN 0 ELSE (60 + rpm - 1) \div rpm

\* buildGroup
LinesFor(engine, paths, bot) ==
  LET stated == {c \in paths : NeedsLine(engine, paths, bot, c)}
      limits == {d \in {Decision(engine, bot, c) : c \in paths} : d.type = "rate_limit"}
  IN [disallow |-> {c \in stated : Blocked(engine, bot, c)},
      allow |-> {c \in stated : ~Blocked(engine, bot, c)},
      delay |-> Max({0} \cup {CrawlDelaySeconds(d.rpm) : d \in limits})]

\* Mutant: a bot joins the record of one that may fetch less.
CoveredLines(l, m) == l.disallow \subseteq m.disallow
SameLines(l, m) == l = m

\* agentsFor: the product tokens of a bot.
AgentsFor(b) == IF b = Wildcard THEN {Anyone} ELSE Needles[b]

\* mergeGroups: named bots with the same lines share a record.
Generate(p) ==
  LET engine == NewEngine(p)
      paths == CandidatePaths(p)
      named == {b \in Bots : AgentsFor(b) # {}}
      lines == [b \in named |-> LinesFor(engine, paths, b)]
      Sharing(b) == IF b = Wildcard THEN {b}
                    ELSE {c \in named \ {Wildcard} : SameLines(lines[b], lines[c])}
  IN {[agents |-> UNION {AgentsFor(c) : c \in Sharing(b)},
       lines |-> lines[CHOOSE c \in Sharing(b) : TRUE]] : b \in named}

-----------------------------------------------------------------------------
Init ==
  /\ policy \in Policies
  /\ status = "loaded"
  /\ file = {}

\* setupRobots: a rule that cannot be evaluated keeps the module from loading.
CannotRender ==
  LET engine == NewEngine(policy) IN
  \E b \in Bots, c \in CandidatePaths(policy) :
    AgentsFor(b) # {} /\ Decision(engine, b, c) = Error

\* robots.serve decides whether a file is rendered.
Provision ==
  /\ status = "loaded"
  /\ \/ status' = "serving" /\ UNCHANGED file
     \/ CannotRender /\ status' = "refused" /\ UNCHANGED file
     \/ ~CannotRender /\ status' = "serving" /\ file' = Generate(policy)
  /\ UNCHANGED policy

Next == Provision

Spec == Init /\ [][Next]_vars

-----------------------------------------------------------------------------
(* What the file promises                                                  *)

\* Nothing keeps two bots from having a needle in common, or one from having `*';
\* the file then has two records for it, and nothing is promised to a crawler that
\* may go by either.
Names(b) == Needles[b] \cup AgentsFor(b)
Alone(b) == \A c \in Bots \ {b} : Names(b) \cap Names(c) = {}

TypeOK ==
  /\ policy \in Policies
  /\ status \in {"loaded", "serving", "refused"}
  /\ file \subseteq Records
  /\ \A b \in {c \in Bots : Alone(c)} : \A a \in AgentsFor(b) :
       file # {} => Cardinality({r \in file : a \in r.agents}) = 1

\* A crawler goes by its own record, or else by the one for anyone, and there by
\* the longest line that covers a path (robots.go:99); what no line covers is
\* free, and so is the file itself.
LinesOf(agent) ==
  LET own == {r \in file : r.agents \cap agent # {}}
  IN (CHOOSE r \in IF own = {} THEN {q \in file : Anyone \in q.agents} ELSE own : TRUE).lines

Fetchable(lines, path) ==
  LET covering == {c \in lines.disallow \cup lines.allow : IsPrefix(c, path)}
      Longest(c) == \A d \in covering : Len(d) <= Len(c)
  IN path = RobotsPath \/ covering = {} \/ \E c \in covering : Longest(c) /\ c \in lines.allow

\* The crawlers that go by one record: their User-Agent names one bot, or none.
Crawlers == {Needles[b] : b \in {c \in Bots : Alone(c)}} \cup {a \in {{}} : Alone(Wildcard)}

\* An honest crawler's plain GET: a verifier finds what it says to be so.
Honest(agent, path) ==
  [agent |-> agent, path |-> path, header |-> "absent", query |-> "absent", proof |-> "verified"]

\* What inputFor gets wrong of a crawler that goes by the default bot: one with a
\* needle of the default claims it, and one without is not verified, even if the
\* default has a verifier.
Misjudged(agent) ==
  {t \in {"claimed", "verified"} :
    /\ Identify(agent) = Wildcard
    /\ IF t = "claimed" THEN Claims(agent) ELSE ~Claims(agent) /\ Wildcard \in Verifiable}

\* The crawlers of which it gets nothing wrong that a rule tests.
WellJudged == {a \in Crawlers : \A r \in Range(policy.rules) : r.test \notin Misjudged(a)}

Refuses(engine, agent, path) ==
  OK \notin EdgeStatuses(engine, TRUE, Honest(agent, path), "block")

AgreesAt(engine, agent, path) == Fetchable(LinesOf(agent), path) <=> ~Refuses(engine, agent, path)

\* However few lines it has, the file says of every path that was probed what the
\* handler answers there, to each crawler, and of every path of the site when all
\* rules test for a prefix; unless a rule tests what the generator gets wrong of
\* the crawlers that go by the default bot.
FileAgrees ==
  LET engine == NewEngine(policy)
      prefixesOnly == \A r \in Range(policy.rules) : r.test \in {"prefix", "verified", "claimed"}
      spoken == IF prefixesOnly THEN Paths ELSE CandidatePaths(policy)
  IN file # {} => \A a \in WellJudged, c \in spoken : AgreesAt(engine, a, c)

\* A crawler that waits for the delay it reads stays within each limit that it
\* may meet at a path that was probed, with the same exception.
DelaySuffices ==
  LET engine == NewEngine(policy) IN
  file # {} =>
    \A a \in WellJudged, c \in CandidatePaths(policy) :
      LET d == EdgeDecision(engine, Honest(a, c), "block")
      IN d.type = "rate_limit" /\ d.rpm < 60 => LinesOf(a).delay * d.rpm >= 60

\* What is decided does not depend on where in the file a rule stands, whoever asks.
OrderIrrelevant ==
  LET engine == NewEngine(policy)
      other == NewEngine([policy EXCEPT !.rules = Reverse(@)])
  IN \A r \in Requests : \A in \in {EdgeInput(r), EvalInput(r)} :
       Evaluate(engine, in) = Evaluate(other, in)

\* The rules that `policy eval' comes to and reads otherwise than the handler, with
\* no error: they are content without the key, or test the query.
Guesses(r) ==
  {q \in Range(policy.rules) :
    /\ q.test = "query" \/ (q.test \in {"label", "header"} /\ q.absent # "breaks")
    /\ Matches(q, EdgeInput(r)) # Matches(q, EvalInput(r))
    /\ \A p \in Range(policy.rules) : Before(p, q) => ~Matches(p, EvalInput(r))}

\* What `policy eval' says is decided is what the handler decides, and the status it
\* predicts is the answer unless a limit has tokens left, whatever headers, labels
\* and query the request turns out to have: where a rule reads a key that it does
\* not know of, it fails.  It is wrong only by a rule that it guesses: one that is
\* content to find nothing where the request has something.  It does not know of
\* robots.txt, nor that a verifier's failure is refused when fail_mode is block.
EvalPredicts ==
  status = "serving" =>
    LET engine == NewEngine(policy) IN
    \A r \in Requests, failMode \in FailModes :
      LET d == EvalDecision(engine, r)
          answers == EdgeStatuses(engine, file # {}, r, failMode)
      IN \/ d = Error
         \/ file # {} /\ r.path = RobotsPath
         \/ Proof(r) = "error" /\ failMode = "block"
         \/ Guesses(r) # {}
         \/ /\ EdgeDecision(engine, r, failMode) = d
            /\ PredictedStatus(d) \in answers
            /\ answers \subseteq {OK, PredictedStatus(d)}

\* The rules that get a warning, since they test what the file cannot carry.
Warned == {r \in Range(policy.rules) : r.test \in {"label", "header", "query"}}

\* What robots.go:294 says, of the crawlers that are judged well: the rules that get
\* a warning are the only places where the file and the edge can disagree.
CannotDisagree ==
  LET engine == NewEngine(policy) IN
  file # {} /\ Warned = {} => \A a \in WellJudged, c \in Paths : AgreesAt(engine, a, c)
=============================================================================
