---------------------------- MODULE PolicyAnswers ----------------------------
(***************************************************************************)
(* Who asks the engine what becomes of a request, and with which input:    *)
(* the handler (module.go) with all it knows, and `policy eval' and        *)
(* `policy test' (main.go), which have no request.  Both identify the bot  *)
(* by the same code (internal/bot/identify.go).                            *)
(***************************************************************************)
EXTENDS Policy

CONSTANTS
  Registry,   \* the bots in the order of the file
  Needles,    \* needles of each: match.user_agents, trimmed and in lower case
  Verifiable, \* the bots whose verify.type is not none
  Requests,   \* agent: the needles its User-Agent contains; path; header; query;
              \* proof: what a verifier says of it
  RobotsPath  \* /robots.txt

ASSUME RegistryAssumption == Registry \in Seq(Bots) /\ Range(Registry) = Bots
\* Whoever is not the default has a needle (validate.go:73).
ASSUME NeedlesAssumption ==
  DOMAIN Needles = Bots /\ \A b \in Bots \ {Wildcard} : Needles[b] # {}

OK == 200
Forbidden == 403
TooManyRequests == 429
PolicyError == 500
Unavailable == 503
FailModes == {"block", "allow"}

\* Identify: the first bot with a needle in the User-Agent, or the default; a bot is
\* claimed by its needle, the default too, but not by being the default.
Claiming(agent) == {i \in DOMAIN Registry : Needles[Registry[i]] \cap agent # {}}
Identify(agent) ==
  IF Claiming(agent) = {} THEN Wildcard ELSE Registry[Min(Claiming(agent))]
Claims(agent) == Claiming(agent) # {}

\* Service.Verify: who claims nothing is not verified, nor is a bot without verifier.
Proof(r) ==
  IF Claims(r.agent) /\ Identify(r.agent) \in Verifiable THEN r.proof ELSE "unverified"

-----------------------------------------------------------------------------
(* The handler, in enforce                                                 *)

EdgeInput(r) ==
  [bot |-> Identify(r.agent), path |-> r.path, verified |-> Proof(r) = "verified",
   claimed |-> Claims(r.agent), labels |-> TRUE, header |-> r.header, query |-> r.query]

\* EvaluationErrorDecision
ErrorDecision(failMode) ==
  IF failMode = "block" THEN [type |-> "block", status |-> PolicyError, rpm |-> 0]
                        ELSE [type |-> "allow", status |-> 0, rpm |-> 0]

EdgeDecision(engine, r, failMode) ==
  LET d == Evaluate(engine, EdgeInput(r)) IN IF d = Error THEN ErrorDecision(failMode) ELSE d

BlockStatus(d) == IF d.status = 0 THEN Forbidden ELSE d.status

\* The statuses a request may meet; a limit may or may not be exceeded, and what
\* the next handler answers is OK.
EdgeStatuses(engine, robots, r, failMode) ==
  LET d == EdgeDecision(engine, r, failMode) IN
  IF robots /\ r.path = RobotsPath THEN {OK}
  ELSE IF Proof(r) = "error" /\ failMode = "block" THEN {Unavailable}
  ELSE CASE d.type = "block" -> {BlockStatus(d)}
         [] d.type = "rate_limit" -> {OK, TooManyRequests}
         [] OTHER -> {OK}

-----------------------------------------------------------------------------
(* policy eval, policy test                                                *)

\* evaluatePolicy: no headers, no labels, no query, and a verifier that fails says no
\* more than that the bot is not verified.
EvalInput(r) ==
  [EdgeInput(r) EXCEPT !.labels = FALSE, !.header = "absent", !.query = "absent"]
EvalDecision(engine, r) == Evaluate(engine, EvalInput(r))

PredictedStatus(d) ==
  CASE d.type = "block" -> BlockStatus(d)
    [] d.type = "rate_limit" -> TooManyRequests
    [] OTHER -> OK
=============================================================================
