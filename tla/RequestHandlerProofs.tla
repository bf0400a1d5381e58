------------------------ MODULE RequestHandlerProofs ------------------------
(***************************************************************************)
(* Theorems about RequestHandler, for any requests, rules, keys and limit. *)
(***************************************************************************)
EXTENDS RequestHandler, TLAPS

-----------------------------------------------------------------------------
(* The inductive invariant says of each request what is known of it at its *)
(* place in ServeHTTP.  Nothing it says speaks of two requests: that is    *)
(* what their own limits and their own events are for.                     *)

\* Before the policy is asked, nothing has been decided.
Undecided(r) ==
  /\ decision[r] = AllowDecision
  /\ ~over[r]
  /\ charged[r] = None

Unanswered(r) == ~recorded[r] /\ upstream[r] = None /\ response[r] = 0

\* The event of a request that was not refused.
PlainEvent(r) ==
  /\ event[r].action = IF over[r] THEN ExceededAction ELSE decision[r].action
  /\ ~event[r].enforced

\* How a request that was recorded was answered.
AnsweredRobots(r) ==
  /\ Undecided(r) /\ PlainEvent(r)
  /\ upstream[r] = None /\ response[r] = OK /\ event[r].status = OK

AnsweredRefused(r) ==
  /\ Enforce
  /\ upstream[r] = None
  /\ response[r] \notin {0, OK} /\ event[r].status = response[r]
  /\ event[r].enforced
  /\ event[r].action = IF over[r] THEN ExceededAction ELSE "block"
  /\ Unwanted(r) \/ Undecided(r)
  /\ decision[r].action # "allow_metered"

AnsweredUpstream(r) ==
  /\ PlainEvent(r)
  /\ Enforce => ~Unwanted(r)
  /\ upstream[r] \in {"served", "error"}
  /\ upstream[r] = "served" => response[r] # 0 /\ event[r].status = response[r]

Answer(r) ==
  /\ AnsweredRobots(r) \/ AnsweredRefused(r) \/ AnsweredUpstream(r)
  /\ event[r].signed \in {None, event[r].action}

Place(r) ==
  /\ over[r] => decision[r].action = "rate_limit"
  /\ charged[r] \in {None, key[r]}
  /\ pc[r] \in {"idle", "verify", "evaluate"} => Unanswered(r) /\ Undecided(r)
  /\ pc[r] = "act" => /\ Unanswered(r) /\ PlainEvent(r) /\ ~over[r]
                      /\ decision[r].action = "rate_limit" => resolved[r] = key[r]
  /\ pc[r] = "next" => Unanswered(r) /\ PlainEvent(r) /\ (Enforce => ~Unwanted(r))
  /\ pc[r] = "panicked" => ~recorded[r]
  /\ pc[r] = "done" => recorded[r] /\ Answer(r)

HandlerInv == TypeOK /\ \A r \in Requests : Place(r)

-----------------------------------------------------------------------------
(* Facts about decisions and events                                        *)

LEMMA AllowDecisionFacts ==
  /\ AllowRule \in Rules
  /\ AllowDecision \in Decision
  /\ AllowDecision.action = "allow"
  /\ AllowDecision.status = 0
  /\ ErrorDecision \in Decision
  <1>1. AllowRule \in Rules
    BY RulesAssumption DEF AllowRule
  <1>2. AllowDecision \in Decision
    BY <1>1 DEF AllowDecision, Decision, Actions
  <1>3. ErrorDecision \in Decision
    <2>1. ASSUME NEW d \in Decision
          PROVE  [d EXCEPT !.action = "block", !.status = PolicyError] \in Decision
      BY DEF Decision, Actions
    <2>2. [AllowDecision EXCEPT !.action = "block", !.status = PolicyError] \in Decision
      BY <1>2, <2>1
    <2> QED
      BY <1>2, <2>2 DEF ErrorDecision
  <1> QED
    BY <1>1, <1>2, <1>3 DEF AllowDecision

LEMMA EventOfFacts ==
  ASSUME NEW d \in Decision
  PROVE  /\ EventOf(d) \in Event
         /\ EventOf(d).action = d.action
         /\ ~EventOf(d).enforced
         /\ EventOf(d).status = d.status
  BY DEF EventOf, Event, Decision, Actions, Statuses, OK, Forbidden, Gone,
         TooManyRequests, PolicyError, BadGateway, Unavailable

LEMMA RefusedEventFacts ==
  ASSUME NEW action \in {"block", "rate_limit_exceeded"}, NEW status \in Statuses
  PROVE  /\ RefusedEvent(action, status) \in Event
         /\ RefusedEvent(action, status).action = action
         /\ RefusedEvent(action, status).status = status
         /\ RefusedEvent(action, status).enforced
  BY DEF RefusedEvent, Event, Actions

LEMMA StatusFacts ==
  ASSUME NEW e \in Event, NEW status \in Statuses
  PROVE  /\ [e EXCEPT !.status = status] \in Event
         /\ [e EXCEPT !.status = status].action = e.action
         /\ [e EXCEPT !.status = status].status = status
         /\ [e EXCEPT !.status = status].enforced = e.enforced
  BY DEF Event

\* writeLedgerAndReceipt hands over the event it is given, of this request, and
\* a receipt, if there is one, over its action.
LEMMA RecordFacts ==
  ASSUME TypeOK, NEW r \in Requests, NEW e \in Event, Record(r, e)
  PROVE  /\ event' \in [Requests -> Event]
         /\ recorded' \in [Requests -> BOOLEAN]
         /\ recorded'[r]
         /\ event'[r].action = e.action
         /\ event'[r].status = e.status
         /\ event'[r].enforced = e.enforced
         /\ event'[r].signed \in {None, e.action}
         /\ \A q \in Requests \ {r} : event'[q] = event[q] /\ recorded'[q] = recorded[q]
  <1>1. PICK signed \in {None, e.action} :
          event' = [event EXCEPT ![r] = [e EXCEPT !.signed = signed]]
    BY DEF Record, SignedAction
  <1>2. /\ [e EXCEPT !.signed = signed] \in Event
        /\ [e EXCEPT !.signed = signed].action = e.action
        /\ [e EXCEPT !.signed = signed].status = e.status
        /\ [e EXCEPT !.signed = signed].enforced = e.enforced
        /\ [e EXCEPT !.signed = signed].signed = signed
    BY DEF Event
  <1>3. event \in [Requests -> Event] /\ recorded \in [Requests -> BOOLEAN]
    BY DEF TypeOK
  <1>4. recorded' = [recorded EXCEPT ![r] = TRUE]
    BY DEF Record
  <1> QED
    BY <1>1, <1>2, <1>3, <1>4

-----------------------------------------------------------------------------
(* Steps                                                                   *)

\* What a step of another request leaves alone.
Untouched(q) ==
  /\ pc'[q] = pc[q] /\ decision'[q] = decision[q] /\ resolved'[q] = resolved[q]
  /\ event'[q] = event[q] /\ recorded'[q] = recorded[q] /\ upstream'[q] = upstream[q]
  /\ response'[q] = response[q] /\ charged'[q] = charged[q] /\ over'[q] = over[q]

LEMMA UntouchedPlace ==
  ASSUME NEW q \in Requests, Place(q), UNCHANGED given, Untouched(q)
  PROVE  Place(q)'
  BY DEF Place, Answer, AnsweredRobots, AnsweredRefused, AnsweredUpstream, PlainEvent,
         Unanswered, Undecided, Unwanted, Enforce, Untouched, given

\* What a step of request r has to keep.
StepKeeps(r) ==
  TypeOK' /\ Place(r)' /\ \A q \in Requests \ {r} : Untouched(q)

LEMMA GivenTypes ==
  ASSUME TypeOK, UNCHANGED given
  PROVE  (mode \in Modes /\ failMode \in FailModes /\ signs \in BOOLEAN /\ key \in [Requests -> Keys])'
  BY DEF TypeOK, given

LEMMA ArriveStep ==
  ASSUME HandlerInv, NEW r \in Requests, UNCHANGED given, Arrive(r)
  PROVE  StepKeeps(r)
  <1>1. TypeOK'
    BY GivenTypes DEF HandlerInv, TypeOK, Arrive, Goto, history
  <1>2. Place(r)'
    BY DEF HandlerInv, TypeOK, Arrive, Goto, history, given, Place, Unanswered, Undecided
  <1>3. \A q \in Requests \ {r} : Untouched(q)
    BY DEF HandlerInv, TypeOK, Arrive, Goto, history, Untouched
  <1> QED
    BY <1>1, <1>2, <1>3 DEF StepKeeps

LEMMA ServeRobotsStep ==
  ASSUME HandlerInv, NEW r \in Requests, UNCHANGED given, ServeRobots(r)
  PROVE  StepKeeps(r)
  <1> DEFINE e == [EventOf(AllowDecision) EXCEPT !.status = OK]
  <1>1. /\ EventOf(AllowDecision) \in Event /\ OK \in Statuses
        /\ EventOf(AllowDecision).action = "allow" /\ ~EventOf(AllowDecision).enforced
    BY AllowDecisionFacts, EventOfFacts DEF Statuses
  <1>2. e \in Event /\ e.action = "allow" /\ e.status = OK /\ ~e.enforced
    BY <1>1, StatusFacts
  <1>3. Record(r, e) /\ TypeOK
    BY DEF ServeRobots, HandlerInv
  <1> HIDE DEF e
  <1>4. /\ event' \in [Requests -> Event] /\ recorded' \in [Requests -> BOOLEAN] /\ recorded'[r]
        /\ event'[r].action = "allow" /\ event'[r].status = OK /\ ~event'[r].enforced
        /\ event'[r].signed \in {None, "allow"}
        /\ \A q \in Requests \ {r} : event'[q] = event[q] /\ recorded'[q] = recorded[q]
    BY <1>2, <1>3, RecordFacts
  <1>5. TypeOK'
    BY <1>1, <1>4, GivenTypes DEF HandlerInv, TypeOK, ServeRobots, Respond, Goto, history
  <1>6. /\ Undecided(r) /\ upstream[r] = None /\ pc[r] = "idle"
    BY DEF HandlerInv, ServeRobots, Place, Unanswered
  <1>7. pc'[r] = "done" /\ response'[r] = OK /\ Undecided(r)' /\ upstream'[r] = None
    BY <1>6 DEF HandlerInv, TypeOK, ServeRobots, Respond, Goto, history, Undecided
  <1>8. Place(r)'
    BY <1>4, <1>7, AllowDecisionFacts
    DEF Place, Answer, AnsweredRobots, PlainEvent, Undecided
  <1>9. \A q \in Requests \ {r} : Untouched(q)
    BY <1>4 DEF HandlerInv, TypeOK, ServeRobots, Respond, Goto, history, Untouched
  <1> QED
    BY <1>5, <1>8, <1>9 DEF StepKeeps

LEMMA VerifiedStep ==
  ASSUME HandlerInv, NEW r \in Requests, UNCHANGED given, Verified(r)
  PROVE  StepKeeps(r)
  <1>1. TypeOK'
    BY GivenTypes DEF HandlerInv, TypeOK, Verified, Goto, history
  <1>2. Place(r)'
    BY DEF HandlerInv, TypeOK, Verified, Goto, history, given, Place, Unanswered, Undecided
  <1>3. \A q \in Requests \ {r} : Untouched(q)
    BY DEF HandlerInv, TypeOK, Verified, Goto, history, Untouched
  <1> QED
    BY <1>1, <1>2, <1>3 DEF StepKeeps

\* A refusal, in any of its three places.
LEMMA RefuseFacts ==
  ASSUME TypeOK, NEW r \in Requests, NEW action \in {"block", "rate_limit_exceeded"},
         NEW status \in Statuses, Refuse(r, action, status)
  PROVE  /\ event' \in [Requests -> Event] /\ recorded' \in [Requests -> BOOLEAN]
         /\ response' \in [Requests -> Statuses]
         /\ recorded'[r] /\ response'[r] = status /\ pc' = [pc EXCEPT ![r] = "done"]
         /\ event'[r].action = action /\ event'[r].status = status /\ event'[r].enforced
         /\ event'[r].signed \in {None, action}
         /\ \A q \in Requests \ {r} : /\ event'[q] = event[q] /\ recorded'[q] = recorded[q]
                                      /\ response'[q] = response[q]
  <1> DEFINE e == RefusedEvent(action, status)
  <1>1. e \in Event /\ e.action = action /\ e.status = status /\ e.enforced
    BY RefusedEventFacts
  <1>2. Record(r, e)
    BY DEF Refuse
  <1>3. response' = [response EXCEPT ![r] = status] /\ pc' = [pc EXCEPT ![r] = "done"]
    BY DEF Refuse, Respond, Goto
  <1>4. response \in [Requests -> Statuses]
    BY DEF TypeOK
  <1> HIDE DEF e
  <1> QED
    BY <1>1, <1>2, <1>3, <1>4, RecordFacts

LEMMA VerifierErrorStep ==
  ASSUME HandlerInv, NEW r \in Requests, UNCHANGED given, VerifierError(r)
  PROVE  StepKeeps(r)
  <1>1. TypeOK /\ pc[r] = "verify" /\ Place(r) /\ Unanswered(r) /\ Undecided(r)
    BY DEF HandlerInv, VerifierError, Place
  <1>2. UNCHANGED <<decision, resolved, spent, upstream, charged, over>>
    BY DEF VerifierError, history
  <1>3. CASE FailsClosed
    <2>1. Unavailable \in Statuses \ {0, OK}
      BY DEF Unavailable, Statuses, OK
    <2>2. Refuse(r, "block", Unavailable)
      BY <1>3 DEF VerifierError
    <2>3. /\ event' \in [Requests -> Event] /\ recorded' \in [Requests -> BOOLEAN]
          /\ response' \in [Requests -> Statuses]
          /\ recorded'[r] /\ response'[r] = Unavailable /\ pc' = [pc EXCEPT ![r] = "done"]
          /\ event'[r].action = "block" /\ event'[r].status = Unavailable /\ event'[r].enforced
          /\ event'[r].signed \in {None, "block"}
          /\ \A q \in Requests \ {r} : /\ event'[q] = event[q] /\ recorded'[q] = recorded[q]
                                       /\ response'[q] = response[q]
      BY <1>1, <2>1, <2>2, RefuseFacts
    <2>4. TypeOK'
      BY <1>1, <1>2, <2>3, GivenTypes DEF TypeOK
    <2>5. Enforce' /\ Undecided(r)' /\ pc'[r] = "done" /\ upstream'[r] = None
      BY <1>1, <1>2, <1>3, <2>3 DEF TypeOK, FailsClosed, Enforce, given, Undecided, Unanswered
    <2>6. Place(r)'
      BY <2>1, <2>3, <2>5, AllowDecisionFacts DEF Place, Answer, AnsweredRefused, Undecided
    <2>7. \A q \in Requests \ {r} : Untouched(q)
      BY <1>1, <1>2, <2>3 DEF TypeOK, Untouched
    <2> QED
      BY <2>4, <2>6, <2>7 DEF StepKeeps
  <1>4. CASE ~FailsClosed
    <2>1. pc' = [pc EXCEPT ![r] = "evaluate"] /\ UNCHANGED <<event, recorded, response>>
      BY <1>4 DEF VerifierError, Goto
    <2>2. TypeOK'
      BY <1>1, <1>2, <2>1, GivenTypes DEF TypeOK
    <2>3. Place(r)'
      BY <1>1, <1>2, <2>1 DEF TypeOK, given, Place, Unanswered, Undecided
    <2>4. \A q \in Requests \ {r} : Untouched(q)
      BY <1>1, <1>2, <2>1 DEF TypeOK, Untouched
    <2> QED
      BY <2>2, <2>3, <2>4 DEF StepKeeps
  <1> QED
    BY <1>3, <1>4

LEMMA EvaluateStep ==
  ASSUME HandlerInv, NEW r \in Requests, UNCHANGED given, Evaluate(r)
  PROVE  StepKeeps(r)
  <1>1. TypeOK /\ pc[r] = "evaluate" /\ Place(r) /\ Unanswered(r) /\ Undecided(r)
    BY DEF HandlerInv, Evaluate, Place
  <1>2. /\ UNCHANGED <<spent, recorded, upstream, response, charged, over>>
        /\ pc' = [pc EXCEPT ![r] = "act"]
    BY DEF Evaluate, Goto, history
  <1>3. PICK d \in Decision : Decide(r, d)
    BY AllowDecisionFacts DEF Evaluate, PolicyDecisions
  <1>4. /\ EventOf(d) \in Event /\ EventOf(d).action = d.action /\ ~EventOf(d).enforced
    BY EventOfFacts
  <1>5. /\ decision' = [decision EXCEPT ![r] = d]
        /\ event' = [event EXCEPT ![r] = EventOf(d)]
        /\ resolved' = IF d.action = "rate_limit" THEN [resolved EXCEPT ![r] = key[r]] ELSE resolved
    BY <1>3 DEF Decide, LimitOwner
  <1>6. TypeOK'
    BY <1>1, <1>2, <1>4, <1>5, GivenTypes DEF TypeOK
  <1>7. /\ decision'[r] = d /\ event'[r] = EventOf(d) /\ pc'[r] = "act" /\ key'[r] = key[r]
        /\ d.action = "rate_limit" => resolved'[r] = key[r]
    BY <1>1, <1>2, <1>5 DEF TypeOK, given
  <1>8. Unanswered(r)' /\ ~over'[r] /\ charged'[r] = None
    BY <1>1, <1>2 DEF Unanswered, Undecided
  <1>9. Place(r)'
    BY <1>4, <1>7, <1>8 DEF Place, PlainEvent
  <1>10. \A q \in Requests \ {r} : Untouched(q)
    BY <1>1, <1>2, <1>5, RulesAssumption DEF TypeOK, Untouched
  <1> QED
    BY <1>6, <1>9, <1>10 DEF StepKeeps

LEMMA BlockStep ==
  ASSUME HandlerInv, NEW r \in Requests, UNCHANGED given, Block(r)
  PROVE  StepKeeps(r)
  <1>1. /\ TypeOK /\ pc[r] = "act" /\ decision[r].action = "block"
        /\ Place(r) /\ Unanswered(r) /\ PlainEvent(r) /\ ~over[r] /\ charged[r] \in {None, key[r]}
    BY DEF HandlerInv, Block, Place
  <1>2. UNCHANGED <<decision, resolved, spent, upstream, charged, over>>
    BY DEF Block, history
  <1>3. CASE Enforce
    <2> DEFINE status == BlockStatus(decision[r])
    <2>1. status \in Statuses \ {0, OK}
      BY <1>1 DEF BlockStatus, Statuses, Forbidden, OK, Gone, PolicyError, TypeOK, Decision
    <2>2. Refuse(r, "block", status)
      BY <1>3 DEF Block
    <2> HIDE DEF status
    <2>3. /\ event' \in [Requests -> Event] /\ recorded' \in [Requests -> BOOLEAN]
          /\ response' \in [Requests -> Statuses]
          /\ recorded'[r] /\ response'[r] = status /\ pc' = [pc EXCEPT ![r] = "done"]
          /\ event'[r].action = "block" /\ event'[r].status = status /\ event'[r].enforced
          /\ event'[r].signed \in {None, "block"}
          /\ \A q \in Requests \ {r} : /\ event'[q] = event[q] /\ recorded'[q] = recorded[q]
                                       /\ response'[q] = response[q]
      BY <1>1, <2>1, <2>2, RefuseFacts
    <2>4. TypeOK'
      BY <1>1, <1>2, <2>3, GivenTypes DEF TypeOK
    <2>5. /\ Enforce' /\ Unwanted(r)' /\ pc'[r] = "done" /\ upstream'[r] = None
          /\ ~over'[r] /\ charged'[r] \in {None, key'[r]} /\ decision'[r].action = "block"
      BY <1>1, <1>2, <1>3, <2>3 DEF TypeOK, Enforce, given, Unwanted, Unanswered
    <2>6. Place(r)'
      BY <2>1, <2>3, <2>5 DEF Place, Answer, AnsweredRefused
    <2>7. \A q \in Requests \ {r} : Untouched(q)
      BY <1>1, <1>2, <2>3 DEF TypeOK, Untouched
    <2> QED
      BY <2>4, <2>6, <2>7 DEF StepKeeps
  <1>4. CASE ~Enforce
    <2>1. pc' = [pc EXCEPT ![r] = "next"] /\ UNCHANGED <<event, recorded, response>>
      BY <1>4 DEF Block, Goto
    <2>2. TypeOK'
      BY <1>1, <1>2, <2>1, GivenTypes DEF TypeOK
    <2>3. Place(r)'
      BY <1>1, <1>2, <1>4, <2>1 DEF TypeOK, given, Place, Unanswered, PlainEvent, Enforce
    <2>4. \A q \in Requests \ {r} : Untouched(q)
      BY <1>1, <1>2, <2>1 DEF TypeOK, Untouched
    <2> QED
      BY <2>2, <2>3, <2>4 DEF StepKeeps
  <1> QED
    BY <1>3, <1>4

LEMMA PassStep ==
  ASSUME HandlerInv, NEW r \in Requests, UNCHANGED given, Pass(r)
  PROVE  StepKeeps(r)
  <1>1. /\ TypeOK /\ pc[r] = "act" /\ decision[r].action \in {"allow", "allow_metered"}
        /\ Place(r) /\ Unanswered(r) /\ PlainEvent(r) /\ ~over[r]
    BY DEF HandlerInv, Pass, Place
  <1>2. TypeOK'
    BY <1>1, GivenTypes DEF TypeOK, Pass, Goto, history
  <1>3. Place(r)'
    BY <1>1 DEF TypeOK, Pass, Goto, history, given, Place, Unanswered, PlainEvent, Unwanted
  <1>4. \A q \in Requests \ {r} : Untouched(q)
    BY <1>1 DEF TypeOK, Pass, Goto, history, Untouched
  <1> QED
    BY <1>2, <1>3, <1>4 DEF StepKeeps

\* The limiter: the limit's key is the request's own, so that is what it is
\* charged to.
LEMMA RateLimitStep ==
  ASSUME HandlerInv, NEW r \in Requests, UNCHANGED given, RateLimit(r)
  PROVE  StepKeeps(r)
  <1>1. /\ TypeOK /\ pc[r] = "act" /\ decision[r].action = "rate_limit"
        /\ Place(r) /\ Unanswered(r) /\ PlainEvent(r) /\ ~over[r]
        /\ resolved[r] = key[r] /\ key[r] \in Keys
    BY DEF HandlerInv, RateLimit, Place, TypeOK
  <1>2. UNCHANGED <<decision, resolved, upstream>>
    BY DEF RateLimit
  <1>3. /\ charged' = [charged EXCEPT ![r] = key[r]]
        /\ over' = [over EXCEPT ![r] = spent[key[r]] >= Rpm]
    BY <1>1 DEF RateLimit, LimitOwner
  <1>4. spent[key[r]] \in 0..Rpm /\ Rpm \in Nat
    BY <1>1, RpmAssumption DEF TypeOK
  <1>5. /\ charged' \in [Requests -> Keys \cup {None}] /\ over' \in [Requests -> BOOLEAN]
        /\ charged'[r] = key'[r]
        /\ \A q \in Requests \ {r} : charged'[q] = charged[q] /\ over'[q] = over[q]
    BY <1>1, <1>3, <1>4 DEF TypeOK, given
  <1>over. over'[r] <=> ~HasToken(key[r])
    <2>1. over'[r] = (spent[key[r]] >= Rpm)
      BY <1>1, <1>3, Zenon DEF TypeOK
    <2>2. (spent[key[r]] >= Rpm) <=> ~(spent[key[r]] < Rpm)
      BY <1>4
    <2> QED
      BY <2>1, <2>2, Zenon DEF HasToken
  <1>6. CASE /\ HasToken(key[r])
             /\ spent' = Spend(key[r])
             /\ Goto(r, "next")
             /\ UNCHANGED <<event, recorded, response>>
    <2>1. ~over'[r] /\ spent' \in [Keys -> 0..Rpm] /\ pc' = [pc EXCEPT ![r] = "next"]
      BY <1>1, <1>4, <1>over, <1>6 DEF HasToken, Spend, TypeOK, Goto
    <2>2. TypeOK'
      BY <1>1, <1>2, <1>5, <1>6, <2>1, GivenTypes DEF TypeOK
    <2>3. Place(r)'
      BY <1>1, <1>2, <1>5, <1>6, <2>1 DEF TypeOK, given, Place, Unanswered, PlainEvent, Unwanted
    <2>4. \A q \in Requests \ {r} : Untouched(q)
      BY <1>1, <1>2, <1>5, <1>6, <2>1 DEF TypeOK, Untouched
    <2> QED
      BY <2>2, <2>3, <2>4 DEF StepKeeps
  <1>7. CASE ~HasToken(key[r]) /\ UNCHANGED spent /\ Enforce
             /\ Refuse(r, ExceededAction, TooManyRequests)
    <2>1. /\ over'[r] /\ TooManyRequests \in Statuses \ {0, OK}
          /\ ExceededAction = "rate_limit_exceeded"
      BY <1>over, <1>7 DEF TooManyRequests, Statuses, OK, ExceededAction
    <2>2. /\ event' \in [Requests -> Event] /\ recorded' \in [Requests -> BOOLEAN]
          /\ response' \in [Requests -> Statuses]
          /\ recorded'[r] /\ response'[r] = TooManyRequests /\ pc' = [pc EXCEPT ![r] = "done"]
          /\ event'[r].action = ExceededAction /\ event'[r].status = TooManyRequests
          /\ event'[r].enforced /\ event'[r].signed \in {None, ExceededAction}
          /\ \A q \in Requests \ {r} : /\ event'[q] = event[q] /\ recorded'[q] = recorded[q]
                                       /\ response'[q] = response[q]
      BY <1>1, <1>7, <2>1, RefuseFacts
    <2>3. TypeOK'
      BY <1>1, <1>2, <1>5, <1>7, <2>2, GivenTypes DEF TypeOK
    <2>4. /\ Enforce' /\ Unwanted(r)' /\ pc'[r] = "done" /\ upstream'[r] = None
          /\ decision'[r].action = "rate_limit"
      BY <1>1, <1>2, <1>7, <2>1, <2>2 DEF TypeOK, Enforce, given, Unwanted, Unanswered
    <2>5. Place(r)'
      BY <1>5, <2>1, <2>2, <2>4 DEF Place, Answer, AnsweredRefused
    <2>6. \A q \in Requests \ {r} : Untouched(q)
      BY <1>1, <1>2, <1>5, <2>2 DEF TypeOK, Untouched
    <2> QED
      BY <2>3, <2>5, <2>6 DEF StepKeeps
  <1>8. CASE /\ ~HasToken(key[r]) /\ UNCHANGED spent /\ ~Enforce
             /\ event' = [event EXCEPT ![r].action = ExceededAction]
             /\ Goto(r, "next")
             /\ UNCHANGED <<recorded, response>>
    <2>1. over'[r] /\ pc' = [pc EXCEPT ![r] = "next"]
      BY <1>over, <1>8 DEF Goto
    <2>2. /\ event[r] \in Event
          /\ [event[r] EXCEPT !.action = ExceededAction] \in Event
          /\ [event[r] EXCEPT !.action = ExceededAction].action = ExceededAction
          /\ [event[r] EXCEPT !.action = ExceededAction].enforced = event[r].enforced
      BY <1>1 DEF TypeOK, Event, ExceededAction
    <2>3. /\ event' \in [Requests -> Event]
          /\ event'[r].action = ExceededAction /\ event'[r].enforced = event[r].enforced
          /\ \A q \in Requests \ {r} : event'[q] = event[q]
      BY <1>1, <1>8, <2>2 DEF TypeOK
    <2>4. TypeOK'
      BY <1>1, <1>2, <1>5, <1>8, <2>1, <2>3, GivenTypes DEF TypeOK
    <2>5. Place(r)'
      BY <1>1, <1>2, <1>5, <1>8, <2>1, <2>3
      DEF TypeOK, given, Place, Unanswered, PlainEvent, Enforce
    <2>6. \A q \in Requests \ {r} : Untouched(q)
      BY <1>1, <1>2, <1>5, <1>8, <2>1, <2>3 DEF TypeOK, Untouched
    <2> QED
      BY <2>4, <2>5, <2>6 DEF StepKeeps
  <1> QED
    BY <1>1, <1>6, <1>7, <1>8 DEF RateLimit, LimitOwner

LEMMA ServeStep ==
  ASSUME HandlerInv, NEW r \in Requests, UNCHANGED given, Serve(r)
  PROVE  StepKeeps(r)
  <1>1. TypeOK /\ pc[r] = "next" /\ Place(r) /\ Unanswered(r) /\ PlainEvent(r) /\ event[r] \in Event
    BY DEF HandlerInv, Serve, CallNext, Place, TypeOK
  <1>2. /\ UNCHANGED <<decision, resolved, spent, charged, over>>
        /\ upstream' = [upstream EXCEPT ![r] = "served"]
        /\ pc' = [pc EXCEPT ![r] = "done"]
    BY DEF Serve, CallNext, Goto, history
  <1>3. PICK status \in {OK, Gone} :
          Record(r, [event[r] EXCEPT !.status = status]) /\ response' = [response EXCEPT ![r] = status]
    BY DEF Serve, Respond
  <1>4. status \in Statuses \ {0}
    BY DEF Statuses, OK, Gone
  <1>5. /\ [event[r] EXCEPT !.status = status] \in Event
        /\ [event[r] EXCEPT !.status = status].action = event[r].action
        /\ [event[r] EXCEPT !.status = status].status = status
        /\ [event[r] EXCEPT !.status = status].enforced = event[r].enforced
    BY <1>1, <1>4, StatusFacts
  <1>6. /\ event' \in [Requests -> Event] /\ recorded' \in [Requests -> BOOLEAN] /\ recorded'[r]
        /\ event'[r].action = event[r].action /\ event'[r].status = status
        /\ event'[r].enforced = event[r].enforced
        /\ event'[r].signed \in {None, event'[r].action}
        /\ \A q \in Requests \ {r} : event'[q] = event[q] /\ recorded'[q] = recorded[q]
    BY <1>1, <1>3, <1>5, RecordFacts
  <1>7. TypeOK'
    BY <1>1, <1>2, <1>3, <1>4, <1>6, GivenTypes DEF TypeOK
  <1>8. /\ pc'[r] = "done" /\ upstream'[r] = "served" /\ response'[r] = status
        /\ PlainEvent(r)' /\ (Enforce => ~Unwanted(r))'
    BY <1>1, <1>2, <1>3, <1>6 DEF TypeOK, given, Place, PlainEvent, Enforce, Unwanted
  <1>9. Place(r)'
    BY <1>1, <1>2, <1>4, <1>6, <1>8 DEF Place, Answer, AnsweredUpstream, given
  <1>10. \A q \in Requests \ {r} : Untouched(q)
    BY <1>1, <1>2, <1>3, <1>6 DEF TypeOK, Untouched
  <1> QED
    BY <1>7, <1>9, <1>10 DEF StepKeeps

LEMMA NextErrorStep ==
  ASSUME HandlerInv, NEW r \in Requests, UNCHANGED given, NextError(r)
  PROVE  StepKeeps(r)
  <1>1. TypeOK /\ pc[r] = "next" /\ Place(r) /\ Unanswered(r) /\ PlainEvent(r) /\ event[r] \in Event
    BY DEF HandlerInv, NextError, CallNext, Place, TypeOK
  <1>2. /\ UNCHANGED <<decision, resolved, spent, charged, over>>
        /\ upstream' = [upstream EXCEPT ![r] = "error"]
        /\ pc' = [pc EXCEPT ![r] = "done"]
        /\ response' = [response EXCEPT ![r] = BadGateway]
        /\ Record(r, [event[r] EXCEPT !.status = OK])
    BY DEF NextError, CallNext, Goto, Respond, history
  <1>3. OK \in Statuses /\ BadGateway \in Statuses
    BY DEF Statuses
  <1>4. /\ [event[r] EXCEPT !.status = OK] \in Event
        /\ [event[r] EXCEPT !.status = OK].action = event[r].action
        /\ [event[r] EXCEPT !.status = OK].enforced = event[r].enforced
    BY <1>1, <1>3, StatusFacts
  <1>5. /\ event' \in [Requests -> Event] /\ recorded' \in [Requests -> BOOLEAN] /\ recorded'[r]
        /\ event'[r].action = event[r].action
        /\ event'[r].enforced = event[r].enforced
        /\ event'[r].signed \in {None, event'[r].action}
        /\ \A q \in Requests \ {r} : event'[q] = event[q] /\ recorded'[q] = recorded[q]
    BY <1>1, <1>2, <1>4, RecordFacts
  <1>6. TypeOK'
    BY <1>1, <1>2, <1>3, <1>5, GivenTypes DEF TypeOK
  <1>7. /\ pc'[r] = "done" /\ upstream'[r] = "error"
        /\ PlainEvent(r)' /\ (Enforce => ~Unwanted(r))'
    BY <1>1, <1>2, <1>5 DEF TypeOK, given, Place, PlainEvent, Enforce, Unwanted
  <1>8. Place(r)'
    BY <1>1, <1>2, <1>5, <1>7 DEF Place, Answer, AnsweredUpstream, given
  <1>9. \A q \in Requests \ {r} : Untouched(q)
    BY <1>1, <1>2, <1>5 DEF TypeOK, Untouched
  <1> QED
    BY <1>6, <1>8, <1>9 DEF StepKeeps

LEMMA NextPanicsStep ==
  ASSUME HandlerInv, NEW r \in Requests, UNCHANGED given, NextPanics(r)
  PROVE  StepKeeps(r)
  <1>1. TypeOK /\ pc[r] = "next" /\ Place(r) /\ Unanswered(r)
    BY DEF HandlerInv, NextPanics, CallNext, Place
  <1>2. TypeOK'
    BY <1>1, GivenTypes DEF TypeOK, NextPanics, CallNext, Goto, history
  <1>3. Place(r)'
    BY <1>1 DEF TypeOK, NextPanics, CallNext, Goto, history, given, Place, Unanswered
  <1>4. \A q \in Requests \ {r} : Untouched(q)
    BY <1>1 DEF TypeOK, NextPanics, CallNext, Goto, history, Untouched
  <1> QED
    BY <1>2, <1>3, <1>4 DEF StepKeeps

LEMMA RefillStep ==
  ASSUME HandlerInv, NEW k \in Keys, UNCHANGED given, Refill(k)
  PROVE  HandlerInv'
  <1>1. TypeOK'
    BY GivenTypes, RpmAssumption DEF HandlerInv, TypeOK, Refill, history
  <1>2. \A q \in Requests : Place(q) /\ Untouched(q)
    BY DEF HandlerInv, Refill, history, Untouched
  <1> QED
    BY <1>1, <1>2, UntouchedPlace DEF HandlerInv

-----------------------------------------------------------------------------
(* Theorems                                                                *)

LEMMA InitHandlerInv == Init => HandlerInv
  <1> SUFFICES ASSUME Init PROVE HandlerInv
    OBVIOUS
  <1>1. TypeOK
    BY AllowDecisionFacts, EventOfFacts, RpmAssumption DEF Init, Starts, TypeOK, Statuses
  <1>2. \A r \in Requests : Place(r)
    BY DEF Init, Starts, Place, Unanswered, Undecided
  <1> QED
    BY <1>1, <1>2 DEF HandlerInv

LEMMA ServeHTTPStep ==
  ASSUME HandlerInv, NEW r \in Requests, UNCHANGED given, ServeHTTP(r)
  PROVE  StepKeeps(r)
  BY ArriveStep, ServeRobotsStep, VerifiedStep, VerifierErrorStep, EvaluateStep,
     BlockStep, RateLimitStep, PassStep, ServeStep, NextErrorStep, NextPanicsStep
  DEF ServeHTTP, Verify, Act, CallsNext

LEMMA StepHandlerInv == HandlerInv /\ [Next]_vars => HandlerInv'
  <1> SUFFICES ASSUME HandlerInv, [Next]_vars PROVE HandlerInv'
    OBVIOUS
  <1>1. ASSUME NEW r \in Requests, ServeHTTP(r), UNCHANGED given PROVE HandlerInv'
    <2>1. StepKeeps(r)
      BY <1>1, ServeHTTPStep
    <2>2. \A q \in Requests \ {r} : Place(q)'
      BY <1>1, <2>1, UntouchedPlace DEF StepKeeps, HandlerInv
    <2> QED
      BY <2>1, <2>2 DEF StepKeeps, HandlerInv
  <1>2. ASSUME NEW k \in Keys, Refill(k), UNCHANGED given PROVE HandlerInv'
    BY <1>2, RefillStep
  <1>3. CASE UNCHANGED vars
    <2>1. TypeOK'
      BY <1>3 DEF HandlerInv, TypeOK, vars, given, history
    <2>2. \A q \in Requests : Place(q) /\ Untouched(q)
      BY <1>3 DEF HandlerInv, vars, history, Untouched
    <2>3. UNCHANGED given
      BY <1>3 DEF vars
    <2> QED
      BY <2>1, <2>2, <2>3, UntouchedPlace DEF HandlerInv
  <1> QED
    BY <1>1, <1>2, <1>3 DEF Next

THEOREM HandlerInvariant == Spec => []HandlerInv
  <1> QED
    BY InitHandlerInv, StepHandlerInv, PTL DEF Spec

\* Types, the buckets' among them: no bucket misses more tokens than it has.
THEOREM HandlerTypes == Spec => []TypeOK
  <1>1. HandlerInv => TypeOK
    BY DEF HandlerInv
  <1> QED
    BY <1>1, HandlerInvariant, PTL

LEMMA RecordedPlace ==
  ASSUME HandlerInv, NEW r \in Requests, recorded[r]
  PROVE  Answer(r) /\ Place(r) /\ event[r] \in Event /\ decision[r] \in Decision
  <1>1. Place(r) /\ pc[r] \in {"idle", "verify", "evaluate", "act", "next", "done", "panicked"}
        /\ event[r] \in Event /\ decision[r] \in Decision
    BY DEF HandlerInv, TypeOK
  <1> QED
    BY <1>1 DEF Place, Unanswered

LEMMA InvRespectsMode == HandlerInv => ModeRespected
  <1> SUFFICES ASSUME HandlerInv, NEW r \in Requests, recorded[r]
               PROVE  IF Enforce THEN Unwanted(r) => Refused(r) ELSE ~Refused(r)
    BY DEF ModeRespected
  <1>1. Answer(r)
    BY RecordedPlace
  <1>2. CASE AnsweredRobots(r)
    BY <1>2, AllowDecisionFacts DEF AnsweredRobots, Undecided, Unwanted, Refused
  <1>3. CASE AnsweredRefused(r)
    BY <1>3 DEF AnsweredRefused, Refused, Enforce
  <1>4. CASE AnsweredUpstream(r)
    BY <1>4 DEF AnsweredUpstream, Refused, None
  <1> QED
    BY <1>1, <1>2, <1>3, <1>4 DEF Answer

\* In enforce whom the policy or a limit would refuse is answered by the handler
\* and not by the next one; in the dry-run modes nobody is (module.go:177).
THEOREM HandlerRespectsMode == Spec => []ModeRespected
  BY InvRespectsMode, HandlerInvariant, PTL

LEMMA InvAddsUp == HandlerInv => ReportAddsUp
  <1> SUFFICES ASSUME HandlerInv, NEW r \in Requests, recorded[r]
               PROVE  /\ Blocked(event[r]) <=> Refused(r)
                      /\ WouldBlock(event[r]) <=> ~Refused(r) /\ Unwanted(r)
                      /\ Metered(event[r]) <=> decision[r].action = "allow_metered"
                      /\ Allowed(event[r]) <=> /\ ~Blocked(event[r])
                                               /\ ~WouldBlock(event[r])
                                               /\ ~Metered(event[r])
    BY DEF ReportAddsUp
  <1>1. Answer(r) /\ Place(r) /\ event[r] \in Event /\ decision[r] \in Decision
    BY RecordedPlace
  <1>2. event[r].action \in Actions \cup {"rate_limit_exceeded"} /\ event[r].enforced \in BOOLEAN
        /\ decision[r].action \in Actions
    BY <1>1 DEF Event, Decision
  <1>3. over[r] => decision[r].action = "rate_limit"
    BY <1>1 DEF Place
  <1>4. CASE AnsweredRobots(r)
    BY <1>4, AllowDecisionFacts
    DEF AnsweredRobots, Undecided, PlainEvent, Unwanted, Refused, Blocked, WouldBlock, Metered, Allowed
  <1>5. CASE AnsweredRefused(r)
    BY <1>2, <1>5
    DEF AnsweredRefused, ExceededAction, Refused, Blocked, WouldBlock, Metered, Allowed
  <1>6. CASE AnsweredUpstream(r)
    BY <1>2, <1>3, <1>6
    DEF AnsweredUpstream, PlainEvent, ExceededAction, Unwanted, Refused, Blocked, WouldBlock,
        Metered, Allowed, Actions, None
  <1> QED
    BY <1>1, <1>4, <1>5, <1>6 DEF Answer

\* Every event is in exactly one column of ledger report, and the column tells
\* what became of the request (sql.go:166).
THEOREM HandlerReportAddsUp == Spec => []ReportAddsUp
  BY InvAddsUp, HandlerInvariant, PTL

\* However many requests match a rule at once, each is charged to the bucket of
\* its own key (engine.go:75, actionWithOwnedLimit).
THEOREM HandlerOwnsLimits == Spec => []OwnBucket
  <1>1. HandlerInv => OwnBucket
    BY DEF HandlerInv, Place, OwnBucket
  <1> QED
    BY <1>1, HandlerInvariant, PTL

\* The event tells the status the client was answered, unless the next handler
\* returned an error (module.go:275).
THEOREM HandlerRecordsAnswer == Spec => []AnswerRecorded
  <1>1. HandlerInv => AnswerRecorded
    <2> SUFFICES ASSUME HandlerInv, NEW r \in Requests, recorded[r], upstream[r] # "error"
                 PROVE  event[r].status = response[r] /\ response[r] # 0
      BY DEF AnswerRecorded
    <2>1. Answer(r)
      BY RecordedPlace
    <2> QED
      BY <2>1 DEF Answer, AnsweredRobots, AnsweredRefused, AnsweredUpstream, OK
  <1> QED
    BY <1>1, HandlerInvariant, PTL

\* A receipt is over the action that is recorded (module.go:340).
THEOREM HandlerSignsRecord == Spec => []ReceiptMatches
  <1>1. HandlerInv => ReceiptMatches
    BY RecordedPlace DEF ReceiptMatches, Answer
  <1> QED
    BY <1>1, HandlerInvariant, PTL
=============================================================================
