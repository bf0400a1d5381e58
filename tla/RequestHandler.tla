--------------------------- MODULE RequestHandler ---------------------------
(***************************************************************************)
(* The Caddy middleware (module.go): concurrent requests go through        *)
(* verification, policy, the rate limiter and the next handler; each hands *)
(* one event to the ledger.  The verifier, the policy engine and the next  *)
(* handler appear by what they may answer, the limiter as one bucket of    *)
(* tokens for each key, refilled as time passes.                           *)
(***************************************************************************)
EXTENDS HandlerParameters

VARIABLES
  \* The configuration, and what the requests bring with them:
  mode,      \* site.mode
  failMode,  \* runtime.fail_mode
  signs,     \* a receipt signer is configured
  key,       \* what limit.key resolves to, for each request
  \* The handler:
  pc,        \* where ServeHTTP is, for each request
  decision,  \* the policy's decision
  resolved,  \* Limit.ResolvedKey, in the memory of whoever owns the Limit
  spent,     \* the tokens missing from each bucket
  event,     \* the ledger event, as far as it is filled in
  recorded,  \* the event was handed to the ledger
  upstream,  \* what the next handler did, "none" if it was not called
  response,  \* the status the client got, 0 before that
  \* History, read only by the properties:
  charged,   \* the bucket the request was charged to
  over       \* that bucket was empty

history == <<charged, over>>
given == <<mode, failMode, signs, key>>
vars == <<given, pc, decision, resolved, spent, event, recorded, upstream, response, history>>

\* observe is an alias of shadow.
Modes == {"enforce", "shadow"}
FailModes == {"block", "allow"}
Enforce == mode = "enforce"
FailBlock == failMode = "block"
Actions == {"allow", "block", "rate_limit", "allow_metered"}
None == "none"
OK == 200
Forbidden == 403
TooManyRequests == 429
PolicyError == 500
BadGateway == 502
Unavailable == 503
Gone == 410  \* stands for a status the policy or the next handler chooses
Statuses == {0, OK, Forbidden, Gone, TooManyRequests, PolicyError, BadGateway, Unavailable}

\* The rule of a decision matters for its limit only.
AllowRule == CHOOSE rule \in Rules : TRUE

\* A block action without a status has status 0.
Decision == [action : Actions, status : {0, Gone, PolicyError}, rule : Rules, receipt : BOOLEAN]
PolicyDecisions ==
  {d \in Decision : /\ d.status \in {0, Gone} /\ (d.action # "block" => d.status = 0)
                    /\ d.action # "rate_limit" => d.rule = AllowRule}

Event == [action : Actions \cup {"rate_limit_exceeded"}, status : Statuses,
          enforced : BOOLEAN, signed : Actions \cup {"rate_limit_exceeded", None}]

\* EventFromRequest
EventOf(d) == [action |-> d.action, status |-> d.status, enforced |-> FALSE, signed |-> None]

AllowDecision == [action |-> "allow", status |-> 0, rule |-> AllowRule, receipt |-> FALSE]

TypeOK ==
  /\ mode \in Modes
  /\ failMode \in FailModes
  /\ signs \in BOOLEAN
  /\ key \in [Requests -> Keys]
  /\ pc \in [Requests -> {"idle", "verify", "evaluate", "act", "next", "done", "panicked"}]
  /\ decision \in [Requests -> Decision]
  /\ resolved \in [Requests \cup Rules -> Keys \cup {None}]
  /\ spent \in [Keys -> 0..Rpm]
  /\ event \in [Requests -> Event]
  /\ recorded \in [Requests -> BOOLEAN]
  /\ upstream \in [Requests -> {None, "served", "error", "panic"}]
  /\ response \in [Requests -> Statuses]
  /\ charged \in [Requests -> Keys \cup {None}]
  /\ over \in [Requests -> BOOLEAN]

\* Provision leaves a handler that has seen no request.
Starts ==
  /\ pc = [r \in Requests |-> "idle"]
  /\ decision = [r \in Requests |-> AllowDecision]
  /\ resolved = [o \in Requests \cup Rules |-> None]
  /\ spent = [k \in Keys |-> 0]
  /\ event = [r \in Requests |-> EventOf(AllowDecision)]
  /\ recorded = [r \in Requests |-> FALSE]
  /\ upstream = [r \in Requests |-> None]
  /\ response = [r \in Requests |-> 0]
  /\ charged = [r \in Requests |-> None]
  /\ over = [r \in Requests |-> FALSE]

Init ==
  /\ mode \in Modes
  /\ failMode \in FailModes
  /\ signs \in BOOLEAN
  /\ key \in [Requests -> Keys]
  /\ Starts

Goto(r, place) == pc' = [pc EXCEPT ![r] = place]

-----------------------------------------------------------------------------
(* writeLedgerAndReceipt                                                   *)

\* Mutant: the receipt is over the decision and not over what came of it.
SignsDecision(r, e) == decision[r].action
SignedAction(r, e) == e.action

WantsReceipt(r, e) == signs /\ (e.action = "allow_metered" \/ decision[r].receipt)

\* A receipt that cannot be signed is logged, and the event goes without one.
Record(r, e) ==
  /\ \E signed \in {None} \cup (IF WantsReceipt(r, e) THEN {SignedAction(r, e)} ELSE {}) :
       event' = [event EXCEPT ![r] = [e EXCEPT !.signed = signed]]
  /\ recorded' = [recorded EXCEPT ![r] = TRUE]

Respond(r, status) == response' = [response EXCEPT ![r] = status]

\* Mutant: a refusal is not marked as enforced.
NotMarked(action, status) ==
  [action |-> action, status |-> status, enforced |-> FALSE, signed |-> None]
RefusedEvent(action, status) ==
  [action |-> action, status |-> status, enforced |-> TRUE, signed |-> None]

\* The handler answers by itself: record the event as enforced, then answer.
Refuse(r, action, status) ==
  /\ Record(r, RefusedEvent(action, status))
  /\ Respond(r, status)
  /\ Goto(r, "done")

-----------------------------------------------------------------------------
(* ServeHTTP                                                               *)

Arrive(r) ==
  /\ pc[r] = "idle"
  /\ Goto(r, "verify")
  /\ UNCHANGED <<decision, resolved, spent, event, recorded, upstream, response, history>>

\* robots.txt is answered before verification, and its event allows it.
ServeRobots(r) ==
  /\ pc[r] = "idle"
  /\ Record(r, [EventOf(AllowDecision) EXCEPT !.status = OK])
  /\ Respond(r, OK)
  /\ Goto(r, "done")
  /\ UNCHANGED <<decision, resolved, spent, upstream, history>>

\* Mutant: the fail-closed path does not look at the mode.
FailsInAnyMode == FailBlock
FailsClosed == Enforce /\ FailBlock

Verified(r) ==
  /\ pc[r] = "verify"
  /\ Goto(r, "evaluate")
  /\ UNCHANGED <<decision, resolved, spent, event, recorded, upstream, response, history>>

\* The verifier returned an error.  The event starts from the default action,
\* whose receipt flag the policy cannot set.
VerifierError(r) ==
  /\ pc[r] = "verify"
  /\ IF FailsClosed
     THEN Refuse(r, "block", Unavailable)
     ELSE Goto(r, "evaluate") /\ UNCHANGED <<event, recorded, response>>
  /\ UNCHANGED <<decision, resolved, spent, upstream, history>>

\* Mutant: the decision points to the rule's own Limit.
RuleLimit(r, d) == d.rule

\* actionWithOwnedLimit: the Limit a decision points to is the request's own.
LimitOwner(r, d) == r

\* The decision, and the key its Limit is told.
Decide(r, d) ==
  /\ decision' = [decision EXCEPT ![r] = d]
  /\ event' = [event EXCEPT ![r] = EventOf(d)]
  /\ resolved' = IF d.action = "rate_limit"
                 THEN [resolved EXCEPT ![LimitOwner(r, d)] = key[r]]
                 ELSE resolved

\* EvaluationErrorDecision
ErrorDecision ==
  IF FailBlock THEN [AllowDecision EXCEPT !.action = "block", !.status = PolicyError]
               ELSE AllowDecision

\* The first rule that matches, or the default action; or an evaluation error.
Evaluate(r) ==
  /\ pc[r] = "evaluate"
  /\ \E d \in PolicyDecisions \cup {ErrorDecision} : Decide(r, d)
  /\ Goto(r, "act")
  /\ UNCHANGED <<spent, recorded, upstream, response, history>>

\* Mutant: a block without a status is recorded and answered as it stands.
StatusAsIs(d) == d.status
BlockStatus(d) == IF d.status = 0 THEN Forbidden ELSE d.status

Block(r) ==
  /\ pc[r] = "act" /\ decision[r].action = "block"
  /\ IF Enforce
     THEN Refuse(r, "block", BlockStatus(decision[r]))
     ELSE Goto(r, "next") /\ UNCHANGED <<event, recorded, response>>
  /\ UNCHANGED <<decision, resolved, spent, upstream, history>>

\* Mutant: the limiter does not limit.
AlwaysAToken(k) == TRUE
HasToken(k) == spent[k] < Rpm

\* Mutant: the dry-run modes ask the limiter and take nothing from it.
SpendInEnforce(k) == IF Enforce THEN [spent EXCEPT ![k] = @ + 1] ELSE spent
Spend(k) == [spent EXCEPT ![k] = @ + 1]

\* Mutant: an exceeded limit is recorded as the rule's own action.
RuleAction == "rate_limit"
ExceededAction == "rate_limit_exceeded"

\* Limiter.Allow, in every mode, with the key that the Limit holds by now.
RateLimit(r) ==
  LET k == resolved[LimitOwner(r, decision[r])] IN
  /\ pc[r] = "act" /\ decision[r].action = "rate_limit"
  /\ charged' = [charged EXCEPT ![r] = k]
  /\ over' = [over EXCEPT ![r] = spent[k] >= Rpm]
  /\ \/ /\ HasToken(k)
        /\ spent' = Spend(k)
        /\ Goto(r, "next")
        /\ UNCHANGED <<event, recorded, response>>
     \/ /\ ~HasToken(k)
        /\ UNCHANGED spent
        /\ IF Enforce
           THEN Refuse(r, ExceededAction, TooManyRequests)
           ELSE /\ event' = [event EXCEPT ![r].action = ExceededAction]
                /\ Goto(r, "next")
                /\ UNCHANGED <<recorded, response>>
  /\ UNCHANGED <<decision, resolved, upstream>>

Pass(r) ==
  /\ pc[r] = "act" /\ decision[r].action \in {"allow", "allow_metered"}
  /\ Goto(r, "next")
  /\ UNCHANGED <<decision, resolved, spent, event, recorded, upstream, response, history>>

Act(r) == Block(r) \/ RateLimit(r) \/ Pass(r)

-----------------------------------------------------------------------------
(* The next handler                                                        *)

CallNext(r, outcome) ==
  /\ pc[r] = "next"
  /\ upstream' = [upstream EXCEPT ![r] = outcome]
  /\ UNCHANGED <<decision, resolved, spent, history>>

\* It answers, with the status of its choice.
Serve(r) ==
  /\ CallNext(r, "served")
  /\ \E status \in {OK, Gone} :
       /\ Record(r, [event[r] EXCEPT !.status = status])
       /\ Respond(r, status)
  /\ Goto(r, "done")

\* It returns an error and has written nothing: the recorder holds no status,
\* and Caddy's error handling answers after ServeHTTP has returned.
NextError(r) ==
  /\ CallNext(r, "error")
  /\ Record(r, [event[r] EXCEPT !.status = OK])
  /\ Respond(r, BadGateway)
  /\ Goto(r, "done")

\* It panics, as a proxy does to abort a response it cannot finish; ServeHTTP
\* neither recovers nor defers its record.
NextPanics(r) ==
  /\ CallNext(r, "panic")
  /\ Goto(r, "panicked")
  /\ UNCHANGED <<event, recorded, response>>

CallsNext(r) == Serve(r) \/ NextError(r) \/ NextPanics(r)

\* Time gives a bucket a token back.
Refill(k) ==
  /\ spent[k] > 0
  /\ spent' = [spent EXCEPT ![k] = @ - 1]
  /\ UNCHANGED <<pc, decision, resolved, event, recorded, upstream, response, history>>

-----------------------------------------------------------------------------
Verify(r) == Verified(r) \/ VerifierError(r)

ServeHTTP(r) == Arrive(r) \/ ServeRobots(r) \/ Verify(r) \/ Evaluate(r) \/ Act(r) \/ CallsNext(r)

Next ==
  /\ \/ \E r \in Requests : ServeHTTP(r)
     \/ \E k \in Keys : Refill(k)
  /\ UNCHANGED given

Spec == Init /\ [][Next]_vars

-----------------------------------------------------------------------------
(* What the handler promises                                               *)

\* The handler answered by itself, and robots.txt is not what it answered.
Refused(r) == recorded[r] /\ upstream[r] = None /\ response[r] # OK

\* The policy or its limit would have the request refused.
Unwanted(r) == decision[r].action = "block" \/ over[r]

\* In enforce no unwanted request reaches the next handler; in the dry-run modes
\* every request does, whatever was decided and whatever failed.
ModeRespected ==
  \A r \in Requests : recorded[r] => IF Enforce THEN Unwanted(r) => Refused(r) ELSE ~Refused(r)

\* The columns of ledger report (sql.go, Report).
Allowed(e) == e.action \in {"allow", "rate_limit"} /\ ~e.enforced
Blocked(e) == e.enforced
WouldBlock(e) == e.action \in {"block", "rate_limit_exceeded"} /\ ~e.enforced
Metered(e) == e.action = "allow_metered"

\* The report counts every event in exactly one column, and in the right one: a
\* request the handler answered as blocked; one it passed on as allowed, as
\* metered, or, when the policy would have refused it, as would-block.
ReportAddsUp ==
  \A r \in Requests :
    recorded[r] =>
      LET e == event[r] IN
      /\ Blocked(e) <=> Refused(r)
      /\ WouldBlock(e) <=> ~Refused(r) /\ Unwanted(r)
      /\ Metered(e) <=> decision[r].action = "allow_metered"
      /\ Allowed(e) <=> ~Blocked(e) /\ ~WouldBlock(e) /\ ~Metered(e)

\* Requests that match a rule at the same time are charged to their own buckets.
OwnBucket == \A r \in Requests : charged[r] \in {None, key[r]}

\* The event tells the status the client was answered, as long as the next
\* handler answers by itself; 0 is none.
AnswerRecorded ==
  \A r \in Requests :
    recorded[r] /\ upstream[r] # "error" => event[r].status = response[r] /\ response[r] # 0

\* A receipt is signed over the action that is recorded.
ReceiptMatches ==
  \A r \in Requests : recorded[r] => event[r].signed \in {None, event[r].action}

\* What README.md:203 says of every request: one ledger record is written.
EveryRequestRecorded == \A r \in Requests : pc[r] \in {"done", "panicked"} => recorded[r]
=============================================================================
