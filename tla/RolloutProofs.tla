---------------------------- MODULE RolloutProofs ----------------------------
(***************************************************************************)
(* Theorems about ShadowRollout, for any requests, rules, keys and limit.  *)
(* Either deployment is a RequestHandler, so what RequestHandlerProofs     *)
(* shows holds of both; the rest relates one to the other.                 *)
(***************************************************************************)
EXTENDS ShadowRollout, RequestHandlerProofs

\* The dry run, with the facts that are proved of a handler.
SP == INSTANCE RequestHandlerProofs WITH
  mode <- "shadow", pc <- pcS, decision <- decisionS, resolved <- resolvedS, spent <- spentS,
  event <- eventS, recorded <- recordedS, upstream <- upstreamS, response <- responseS,
  charged <- chargedS, over <- overS

-----------------------------------------------------------------------------
(* Either deployment is a handler                                          *)

\* The deployment's part of a rollout is a run of the handler (module.go:157), so
\* that the theorems about Spec hold of it.
THEOREM RolloutDeploys == RolloutSpec => Spec
  <1>1. RolloutInit => Init
    BY DEF RolloutInit
  <1>2. RolloutNext => Next \/ UNCHANGED vars
    BY DEF RolloutNext, BothArrive, BothVerify, BothEvaluate, BothAct, OneCallsNext, BothRefill,
           Answered, Next, ServeHTTP, Verify, vars, deployed, given, history
  <1>3. UNCHANGED rolloutVars => UNCHANGED vars
    BY DEF rolloutVars, vars, deployed, given, history
  <1> QED
    BY <1>1, <1>2, <1>3, PTL DEF RolloutSpec, Spec

LEMMA SameServeHTTP ==
  ASSUME NEW r \in Requests
  PROVE  S!ServeHTTP(r) <=> SP!ServeHTTP(r)
  BY Zenon DEF S!history, SP!history, S!Enforce, SP!Enforce, S!FailBlock, SP!FailBlock,
      S!Actions, SP!Actions, S!None, SP!None, S!OK, SP!OK, S!Forbidden, SP!Forbidden,
      S!TooManyRequests, SP!TooManyRequests, S!PolicyError, SP!PolicyError,
      S!BadGateway, SP!BadGateway, S!Unavailable, SP!Unavailable, S!Gone, SP!Gone,
      S!Statuses, SP!Statuses, S!AllowRule, SP!AllowRule, S!Decision, SP!Decision,
      S!PolicyDecisions, SP!PolicyDecisions, S!Event, SP!Event, S!EventOf, SP!EventOf,
      S!AllowDecision, SP!AllowDecision, S!Goto, SP!Goto, S!SignedAction, SP!SignedAction,
      S!WantsReceipt, SP!WantsReceipt, S!Record, SP!Record, S!Respond, SP!Respond,
      S!RefusedEvent, SP!RefusedEvent, S!Refuse, SP!Refuse, S!Arrive, SP!Arrive,
      S!ServeRobots, SP!ServeRobots, S!FailsClosed, SP!FailsClosed, S!Verified, SP!Verified,
      S!VerifierError, SP!VerifierError, S!LimitOwner, SP!LimitOwner, S!Decide, SP!Decide,
      S!ErrorDecision, SP!ErrorDecision, S!Evaluate, SP!Evaluate, S!BlockStatus, SP!BlockStatus,
      S!Block, SP!Block, S!HasToken, SP!HasToken, S!Spend, SP!Spend,
      S!ExceededAction, SP!ExceededAction, S!RateLimit, SP!RateLimit, S!Pass, SP!Pass,
      S!Act, SP!Act, S!CallNext, SP!CallNext, S!Serve, SP!Serve, S!NextError, SP!NextError,
      S!NextPanics, SP!NextPanics, S!CallsNext, SP!CallsNext, S!Verify, SP!Verify,
      S!ServeHTTP, SP!ServeHTTP

LEMMA SameRefill ==
  ASSUME NEW k \in Keys
  PROVE  S!Refill(k) <=> SP!Refill(k)
  BY Zenon DEF S!Refill, SP!Refill, S!history, SP!history

-----------------------------------------------------------------------------
(* What relates them                                                       *)

Busy == {"evaluate", "act"}

\* The dry run is never behind the deployment in ServeHTTP before the next
\* handler is called, and decides the same; it may be alone there with a request
\* whose verification failed.
Together(r) ==
  /\ pc[r] \in {"idle", "verify"} \cup Busy => pcS[r] = pc[r]
  /\ pcS[r] \in {"idle", "verify"} => pc[r] = pcS[r]
  /\ pcS[r] \in Busy => pc[r] = pcS[r] \/ (pc[r] = "done" /\ Undecided(r))
  /\ pc[r] = "act" => decisionS[r] = decision[r]
  /\ Undecided(r) \/ (decisionS[r] = decision[r] /\ (over[r] => overS[r]))

Stricter == \A k \in Keys : spent[k] <= spentS[k]

\* Under fail_mode allow no verification refuses, and they differ in nothing.
Alike(r) ==
  /\ pcS[r] \in Busy => pc[r] = pcS[r]
  /\ decisionS[r] = decision[r] /\ overS[r] = over[r]
  /\ Refused(r) => Unwanted(r)

AllAlike == spentS = spent /\ \A r \in Requests : Alike(r)

RolloutInv ==
  /\ HandlerInv /\ SP!HandlerInv
  /\ Stricter /\ \A r \in Requests : Together(r)
  /\ failMode = "allow" => AllAlike

-----------------------------------------------------------------------------
(* Steps                                                                   *)

LEMMA Domains ==
  ASSUME RolloutInv
  PROVE  /\ DOMAIN pc = Requests /\ DOMAIN pcS = Requests
         /\ pc = [q \in Requests |-> pc[q]] /\ pcS = [q \in Requests |-> pcS[q]]
         /\ decision = [q \in Requests |-> decision[q]] /\ decisionS = [q \in Requests |-> decisionS[q]]
         /\ over = [q \in Requests |-> over[q]] /\ overS = [q \in Requests |-> overS[q]]
         /\ \A q \in Requests : over[q] \in BOOLEAN /\ overS[q] \in BOOLEAN
         /\ recorded = [q \in Requests |-> recorded[q]]
         /\ response = [q \in Requests |-> response[q]]
         /\ upstream = [q \in Requests |-> upstream[q]]
         /\ spent \in [Keys -> 0..Rpm] /\ spentS \in [Keys -> 0..Rpm]
  BY DEF RolloutInv, HandlerInv, TypeOK, SP!HandlerInv, SP!TypeOK

LEMMA Frame ==
  ASSUME NEW q \in Requests, Untouched(q), SP!Untouched(q)
  PROVE  /\ Together(q) => Together(q)'
         /\ Alike(q) => Alike(q)'
  BY DEF Together, Alike, Busy, Undecided, Refused, Unwanted, Untouched, SP!Untouched

\* What a joint step of request r has to keep, given that both handlers keep
\* what they keep.
PairKeeps(r) ==
  /\ Together(r)'
  /\ failMode = "allow" => Alike(r)'

BucketsKeep == Stricter' /\ (failMode = "allow" => spentS' = spent')

\* A step that leaves the buckets alone.
LEMMA BucketsRest ==
  ASSUME RolloutInv, UNCHANGED <<spent, spentS>>
  PROVE  BucketsKeep
  BY DEF RolloutInv, BucketsKeep, Stricter, AllAlike

LEMMA NotRefusedYet ==
  ASSUME NEW r \in Requests, HandlerInv', pc'[r] \in {"idle", "verify", "evaluate", "act", "next"}
  PROVE  ~Refused(r)'
  BY DEF HandlerInv, Place, Unanswered, Refused

LEMMA BothArriveStep ==
  ASSUME RolloutInv, NEW r \in Requests, HandlerInv', UNCHANGED given, BothArrive(r)
  PROVE  PairKeeps(r) /\ BucketsKeep
  <1>1. CASE Arrive(r) /\ S!Arrive(r)
    <2>1. pc'[r] = "verify" /\ pcS'[r] = "verify"
          /\ UNCHANGED <<decision, over, charged, decisionS, overS, spent, spentS>>
      BY <1>1, Domains DEF Arrive, S!Arrive, Goto, S!Goto, history, S!history
    <2>2. ~Refused(r)'
      BY <2>1, NotRefusedYet
    <2> QED
      BY <2>1, <2>2, BucketsRest DEF PairKeeps, RolloutInv, AllAlike, Together, Alike, Busy, Undecided
  <1>2. CASE ServeRobots(r) /\ S!ServeRobots(r)
    <2>1. pc'[r] = "done" /\ pcS'[r] = "done" /\ response'[r] = OK
          /\ UNCHANGED <<decision, over, charged, decisionS, overS, spent, spentS>>
      BY <1>2, Domains
      DEF ServeRobots, S!ServeRobots, Goto, S!Goto, Respond, history, S!history
    <2>2. ~Refused(r)'
      BY <2>1 DEF Refused
    <2> QED
      BY <2>1, <2>2, BucketsRest DEF PairKeeps, RolloutInv, AllAlike, Together, Alike, Busy, Undecided
  <1> QED
    BY <1>1, <1>2 DEF BothArrive

LEMMA BothVerifyStep ==
  ASSUME RolloutInv, NEW r \in Requests, HandlerInv', UNCHANGED given, BothVerify(r)
  PROVE  PairKeeps(r) /\ BucketsKeep
  <1>1. CASE Verified(r) /\ S!Verified(r)
    <2>1. pc'[r] = "evaluate" /\ pcS'[r] = "evaluate"
          /\ UNCHANGED <<decision, over, charged, decisionS, overS, spent, spentS>>
      BY <1>1, Domains DEF Verified, S!Verified, Goto, S!Goto, history, S!history
    <2>2. ~Refused(r)'
      BY <2>1, NotRefusedYet
    <2> QED
      BY <2>1, <2>2, BucketsRest DEF PairKeeps, RolloutInv, AllAlike, Together, Alike, Busy, Undecided
  <1>2. CASE VerifierError(r) /\ S!VerifierError(r)
    <2>1. Undecided(r)
      BY <1>2 DEF VerifierError, RolloutInv, HandlerInv, Place
    <2>2. UNCHANGED <<decision, over, charged, decisionS, overS, spent, spentS>>
      BY <1>2 DEF VerifierError, S!VerifierError, history, S!history
    <2>3. pcS'[r] = "evaluate"
      BY <1>2, Domains DEF S!VerifierError, S!FailsClosed, S!Enforce, S!Goto
    <2>4. pc'[r] = IF FailsClosed THEN "done" ELSE "evaluate"
      BY <1>2, Domains DEF VerifierError, Refuse, Goto
    <2>5. failMode = "allow" => pc'[r] = "evaluate" /\ ~Refused(r)'
      BY <2>4, NotRefusedYet DEF FailsClosed, FailBlock
    <2>6. Together(r)'
      BY <2>1, <2>2, <2>3, <2>4 DEF Together, Busy, Undecided
    <2> QED
      BY <2>2, <2>3, <2>5, <2>6, BucketsRest DEF PairKeeps, RolloutInv, AllAlike, Alike, Busy
  <1> QED
    BY <1>1, <1>2 DEF BothVerify

LEMMA BothEvaluateStep ==
  ASSUME RolloutInv, NEW r \in Requests, HandlerInv', SP!HandlerInv', UNCHANGED given, BothEvaluate(r)
  PROVE  PairKeeps(r) /\ BucketsKeep
  <1>1. CASE Evaluate(r) /\ S!Evaluate(r) /\ decision'[r] = decisionS'[r]
    <2>1. pc'[r] = "act" /\ pcS'[r] = "act" /\ UNCHANGED <<over, overS, spent, spentS>>
      BY <1>1, Domains DEF Evaluate, S!Evaluate, Goto, S!Goto, history, S!history
    <2>2. ~Refused(r)'
      BY <2>1, NotRefusedYet
    <2>3. ~over[r]
      BY <1>1 DEF Evaluate, RolloutInv, HandlerInv, Place, Undecided
    <2> QED
      BY <1>1, <2>1, <2>2, <2>3, BucketsRest
      DEF PairKeeps, RolloutInv, AllAlike, Together, Alike, Busy
  <1>2. CASE Answered(r) /\ S!Evaluate(r)
    <2>1. pcS[r] = "evaluate" /\ pc[r] = "done" /\ pcS'[r] = "act"
          /\ UNCHANGED <<pc, decision, over, charged, spent, spentS>>
      BY <1>2, Domains DEF Answered, S!Evaluate, S!Goto, S!history, deployed, history
    <2>2. Undecided(r) /\ failMode # "allow"
      BY <2>1 DEF RolloutInv, AllAlike, Together, Alike, Busy
    <2> QED
      BY <2>1, <2>2, BucketsRest DEF PairKeeps, RolloutInv, Together, Busy, Undecided
  <1> QED
    BY <1>1, <1>2 DEF BothEvaluate

\* The bucket a handler asks is the one of the request's own key.
LEMMA OwnKeys ==
  ASSUME RolloutInv, NEW r \in Requests, key[r] \in Keys
  PROVE  /\ pc[r] = "act" /\ decision[r].action = "rate_limit" => resolved[LimitOwner(r, decision[r])] = key[r]
         /\ pcS[r] = "act" /\ decisionS[r].action = "rate_limit"
              => resolvedS[S!LimitOwner(r, decisionS[r])] = key[r]
  BY DEF RolloutInv, HandlerInv, SP!HandlerInv, Place, SP!Place, LimitOwner, S!LimitOwner

\* The dry run acts: it always goes on to the next handler.
LEMMA ShadowActs ==
  ASSUME RolloutInv, NEW r \in Requests, S!Act(r)
  PROVE  /\ pcS[r] = "act" /\ pcS'[r] = "next" /\ decisionS' = decisionS
         /\ decisionS[r].action # "rate_limit" => UNCHANGED <<spentS, overS>>
         /\ decisionS[r].action = "rate_limit" =>
              LET k == resolvedS[S!LimitOwner(r, decisionS[r])] IN
              /\ overS' = [overS EXCEPT ![r] = spentS[k] >= Rpm]
              /\ spentS' = IF spentS[k] < Rpm THEN [spentS EXCEPT ![k] = @ + 1] ELSE spentS
  <1>1. CASE S!Block(r)
    BY <1>1, Domains DEF S!Block, S!Enforce, S!Goto, S!history
  <1>2. CASE S!Pass(r)
    BY <1>2, Domains DEF S!Pass, S!Goto, S!history
  <1>3. CASE S!RateLimit(r)
    BY <1>3, Domains DEF S!RateLimit, S!HasToken, S!Spend, S!Enforce, S!Goto
  <1> QED
    BY <1>1, <1>2, <1>3 DEF S!Act

\* The deployment acts: it answers itself or goes on.
LEMMA DeployedActs ==
  ASSUME RolloutInv, NEW r \in Requests, HandlerInv', Act(r)
  PROVE  /\ pc[r] = "act" /\ pc'[r] \in {"next", "done"} /\ decision' = decision
         /\ Refused(r)' => Unwanted(r)'
         /\ decision[r].action # "rate_limit" => UNCHANGED <<spent, over>>
         /\ decision[r].action = "rate_limit" =>
              LET k == resolved[LimitOwner(r, decision[r])] IN
              /\ over' = [over EXCEPT ![r] = spent[k] >= Rpm]
              /\ spent' = IF spent[k] < Rpm THEN [spent EXCEPT ![k] = @ + 1] ELSE spent
  <1>1. CASE Block(r)
    <2>1. pc'[r] \in {"next", "done"} /\ pc[r] = "act" /\ decision[r].action = "block"
          /\ UNCHANGED <<decision, spent, over>>
      BY <1>1, Domains DEF Block, Refuse, Goto, history
    <2> QED
      BY <2>1 DEF Unwanted
  <1>2. CASE Pass(r)
    <2>1. pc'[r] = "next" /\ pc[r] = "act" /\ decision[r].action \in {"allow", "allow_metered"}
          /\ UNCHANGED <<decision, spent, over>>
      BY <1>2, Domains DEF Pass, Goto, history
    <2> QED
      BY <2>1, NotRefusedYet
  <1>3. CASE RateLimit(r)
    <2> DEFINE k == resolved[LimitOwner(r, decision[r])]
    <2>1. /\ pc[r] = "act" /\ decision[r].action = "rate_limit" /\ decision' = decision
          /\ over' = [over EXCEPT ![r] = spent[k] >= Rpm]
          /\ spent' = IF spent[k] < Rpm THEN [spent EXCEPT ![k] = @ + 1] ELSE spent
      BY <1>3 DEF RateLimit, HasToken, Spend
    <2>2. pc'[r] = "next" \/ (pc'[r] = "done" /\ spent[k] >= Rpm)
      <3>1. k \in Keys
        BY <2>1, OwnKeys DEF RolloutInv, HandlerInv, TypeOK
      <3>2. spent[k] \in Nat /\ Rpm \in Nat
        BY <3>1, Domains, RpmAssumption
      <3> QED
        BY <1>3, <3>2, Domains DEF RateLimit, HasToken, Refuse, Goto
    <2>3. over'[r] = (spent[k] >= Rpm)
      BY <2>1, Domains
    <2>4. Refused(r)' => Unwanted(r)'
      BY <2>2, <2>3, NotRefusedYet DEF Unwanted
    <2> QED
      BY <2>1, <2>2, <2>4
  <1> QED
    BY <1>1, <1>2, <1>3 DEF Act

LEMMA BothActStep ==
  ASSUME RolloutInv, NEW r \in Requests, HandlerInv', SP!HandlerInv', UNCHANGED given, BothAct(r)
  PROVE  PairKeeps(r) /\ BucketsKeep
  <1> DEFINE k == key[r]
  <1>1. k \in Keys /\ Rpm \in Nat /\ spent[k] \in 0..Rpm /\ spentS[k] \in 0..Rpm
    BY Domains, RpmAssumption DEF RolloutInv, HandlerInv, TypeOK
  <1>2. /\ spent[k] <= spentS[k]
        /\ failMode = "allow" => spent = spentS
    BY <1>1 DEF RolloutInv, Stricter, AllAlike
  <1>3. CASE Act(r) /\ S!Act(r)
    <2>1. /\ pc[r] = "act" /\ pcS[r] = "act" /\ pc'[r] \in {"next", "done"} /\ pcS'[r] = "next"
          /\ UNCHANGED <<decision, decisionS>>
          /\ Refused(r)' => Unwanted(r)'
      BY <1>3, DeployedActs, ShadowActs
    <2>2. decisionS[r] = decision[r] /\ ~over[r]
      BY <2>1 DEF RolloutInv, HandlerInv, Place, Together
    <2>3. CASE decision[r].action # "rate_limit"
      <3>1. UNCHANGED <<spent, over, spentS, overS>>
        BY <1>3, <2>2, <2>3, DeployedActs, ShadowActs
      <3> QED
        BY <2>1, <2>2, <3>1, BucketsRest
        DEF PairKeeps, RolloutInv, AllAlike, Together, Alike, Busy
    <2>4. CASE decision[r].action = "rate_limit"
      <3>1. /\ over' = [over EXCEPT ![r] = spent[k] >= Rpm]
            /\ overS' = [overS EXCEPT ![r] = spentS[k] >= Rpm]
            /\ spent' = IF spent[k] < Rpm THEN [spent EXCEPT ![k] = @ + 1] ELSE spent
            /\ spentS' = IF spentS[k] < Rpm THEN [spentS EXCEPT ![k] = @ + 1] ELSE spentS
        BY <1>1, <1>3, <2>1, <2>2, <2>4, OwnKeys, DeployedActs, ShadowActs
      <3>2. over'[r] = (spent[k] >= Rpm) /\ overS'[r] = (spentS[k] >= Rpm)
        BY <3>1, Domains
      <3>3. over'[r] => overS'[r]
        <4>1. spent[k] >= Rpm => spentS[k] >= Rpm
          BY <1>1, <1>2
        <4> QED
          BY <3>2, <4>1
      <3>4. Stricter'
        BY <1>1, <1>2, <3>1, Domains DEF Stricter, RolloutInv
      <3>5. failMode = "allow" => spentS' = spent' /\ overS'[r] = over'[r]
        BY <1>2, <3>1, <3>2
      <3>6. PairKeeps(r)
        BY <2>1, <2>2, <3>3, <3>5 DEF PairKeeps, RolloutInv, AllAlike, Together, Alike, Busy
      <3> QED
        BY <3>4, <3>5, <3>6 DEF BucketsKeep
    <2> QED
      BY <2>3, <2>4
  <1>4. CASE Answered(r) /\ S!Act(r)
    <2>1. pcS[r] = "act" /\ pc[r] = "done" /\ pcS'[r] = "next" /\ decisionS' = decisionS
          /\ UNCHANGED <<pc, decision, over, charged, spent>>
      BY <1>4, ShadowActs DEF Answered, deployed, history
    <2>2. Undecided(r) /\ failMode # "allow"
      BY <2>1 DEF RolloutInv, AllAlike, Together, Alike, Busy
    <2>3. PairKeeps(r)
      BY <2>1, <2>2 DEF PairKeeps, Together, Busy, Undecided
    <2>4. Stricter'
      <3>1. CASE decisionS[r].action # "rate_limit"
        BY <1>4, <2>1, <3>1, ShadowActs, BucketsRest DEF BucketsKeep
      <3>2. CASE decisionS[r].action = "rate_limit"
        <4>1. spentS' = IF spentS[k] < Rpm THEN [spentS EXCEPT ![k] = @ + 1] ELSE spentS
          BY <1>1, <1>4, <2>1, <3>2, OwnKeys, ShadowActs
        <4> QED
          BY <1>1, <1>2, <2>1, <4>1, Domains DEF Stricter, RolloutInv
      <3> QED
        BY <3>1, <3>2
    <2> QED
      BY <2>2, <2>3, <2>4 DEF BucketsKeep
  <1> QED
    BY <1>3, <1>4 DEF BothAct

LEMMA OneCallsNextStep ==
  ASSUME RolloutInv, NEW r \in Requests, HandlerInv', UNCHANGED given, OneCallsNext(r)
  PROVE  PairKeeps(r) /\ BucketsKeep
  <1>1. CASE CallsNext(r) /\ UNCHANGED shadowed
    <2>1. pc[r] = "next" /\ pc'[r] \in {"done", "panicked"} /\ upstream'[r] # None
          /\ UNCHANGED <<decision, over, charged, spent>>
      BY <1>1, Domains
      DEF CallsNext, Serve, NextError, NextPanics, CallNext, Goto, history, None
    <2>2. UNCHANGED <<pcS, decisionS, overS, spentS>>
      BY <1>1 DEF shadowed
    <2>3. ~Refused(r)'
      BY <2>1 DEF Refused
    <2> QED
      BY <2>1, <2>2, <2>3, BucketsRest
      DEF PairKeeps, RolloutInv, AllAlike, Together, Alike, Busy, Undecided
  <1>2. CASE S!CallsNext(r) /\ UNCHANGED deployed
    <2>1. pcS[r] = "next" /\ pcS'[r] \in {"done", "panicked"}
          /\ UNCHANGED <<decisionS, overS, spentS>>
      BY <1>2, Domains
      DEF S!CallsNext, S!Serve, S!NextError, S!NextPanics, S!CallNext, S!Goto, S!history
    <2>2. UNCHANGED <<pc, decision, over, charged, spent, recorded, upstream, response>>
      BY <1>2 DEF deployed, history
    <2> QED
      BY <2>1, <2>2, BucketsRest
      DEF PairKeeps, RolloutInv, AllAlike, Together, Alike, Busy, Undecided, Refused, Unwanted
  <1> QED
    BY <1>1, <1>2 DEF OneCallsNext

LEMMA BothRefillStep ==
  ASSUME RolloutInv, NEW k \in Keys, UNCHANGED given, BothRefill(k)
  PROVE  /\ BucketsKeep
         /\ \A q \in Requests : Untouched(q) /\ SP!Untouched(q)
  <1>1. CASE Refill(k) /\ S!Refill(k)
    <2>1. spent' = [spent EXCEPT ![k] = @ - 1] /\ spentS' = [spentS EXCEPT ![k] = @ - 1]
          /\ spent[k] > 0 /\ spentS[k] > 0
      BY <1>1 DEF Refill, S!Refill
    <2>2. Stricter'
      <3> SUFFICES ASSUME NEW j \in Keys PROVE spent'[j] <= spentS'[j]
        BY DEF Stricter
      <3>1. spent[j] \in Nat /\ spentS[j] \in Nat /\ spent[j] <= spentS[j]
        BY Domains, RpmAssumption DEF RolloutInv, Stricter
      <3>2. /\ spent'[j] = IF j = k THEN spent[j] - 1 ELSE spent[j]
            /\ spentS'[j] = IF j = k THEN spentS[j] - 1 ELSE spentS[j]
        BY <2>1, Domains
      <3> QED
        BY <3>1, <3>2
    <2>3. failMode = "allow" => spentS' = spent'
      BY <2>1 DEF RolloutInv, AllAlike
    <2> QED
      BY <1>1, <2>2, <2>3 DEF BucketsKeep, Refill, S!Refill, history, S!history, Untouched, SP!Untouched
  <1>2. CASE S!Refill(k) /\ spent[k] = 0 /\ UNCHANGED deployed
    <2>1. spentS' = [spentS EXCEPT ![k] = @ - 1] /\ spentS[k] > 0 /\ spent[k] = 0 /\ spent' = spent
      BY <1>2 DEF S!Refill, deployed
    <2>2. failMode # "allow"
      BY <2>1 DEF RolloutInv, AllAlike
    <2>3. BucketsKeep
      BY <2>1, <2>2, Domains, RpmAssumption DEF RolloutInv, BucketsKeep, Stricter
    <2> QED
      BY <1>2, <2>3 DEF S!Refill, S!history, deployed, history, Untouched, SP!Untouched
  <1> QED
    BY <1>1, <1>2 DEF BothRefill

-----------------------------------------------------------------------------
(* Theorems                                                                *)

\* What a joint step is for either handler.
LEMMA JointStep ==
  ASSUME NEW r \in Requests,
         BothArrive(r) \/ BothVerify(r) \/ BothEvaluate(r) \/ BothAct(r) \/ OneCallsNext(r)
  PROVE  /\ ServeHTTP(r) \/ UNCHANGED deployed
         /\ SP!ServeHTTP(r) \/ UNCHANGED shadowed
  <1>1. S!ServeHTTP(r) \/ UNCHANGED shadowed
    BY DEF BothArrive, BothVerify, BothEvaluate, BothAct, OneCallsNext, S!ServeHTTP, S!Verify
  <1>2. ServeHTTP(r) \/ UNCHANGED deployed
    BY DEF BothArrive, BothVerify, BothEvaluate, BothAct, OneCallsNext, Answered, ServeHTTP, Verify
  <1> QED
    BY <1>1, <1>2, SameServeHTTP

LEMMA HandlersKeep ==
  ASSUME RolloutInv, [RolloutNext]_rolloutVars
  PROVE  HandlerInv' /\ SP!HandlerInv'
  <1>1. [Next]_vars
    BY DEF RolloutNext, BothArrive, BothVerify, BothEvaluate, BothAct, OneCallsNext, BothRefill,
           Answered, Next, ServeHTTP, Verify, vars, rolloutVars, deployed, given, history
  <1>2. [SP!Next]_SP!vars
    <2>1. CASE UNCHANGED shadowed /\ UNCHANGED given
      BY <2>1 DEF shadowed, given, SP!vars, SP!given, SP!history
    <2>2. ASSUME NEW r \in Requests, SP!ServeHTTP(r), UNCHANGED given PROVE SP!Next
      BY <2>2 DEF given, SP!Next, SP!given
    <2>3. ASSUME NEW k \in Keys, S!Refill(k), UNCHANGED given PROVE SP!Next
      BY <2>3, SameRefill DEF given, SP!Next, SP!given
    <2>4. CASE UNCHANGED rolloutVars
      BY <2>1, <2>4 DEF rolloutVars
    <2>5. CASE RolloutNext
      BY <2>1, <2>2, <2>3, <2>5, JointStep DEF RolloutNext, BothRefill
    <2> QED
      BY <2>4, <2>5
  <1>3. HandlerInv /\ SP!HandlerInv
    BY DEF RolloutInv
  <1> QED
    BY <1>1, <1>2, <1>3, StepHandlerInv, SP!StepHandlerInv, RpmAssumption, RulesAssumption

LEMMA InitRolloutInv == RolloutInit => RolloutInv
  <1> SUFFICES ASSUME RolloutInit PROVE RolloutInv
    OBVIOUS
  <1>1. HandlerInv
    BY InitHandlerInv DEF RolloutInit
  <1>2. SP!HandlerInv
    <2>1. SP!Init
      BY DEF RolloutInit, Init, SP!Init, S!Starts, SP!Starts, SP!Modes, Modes, FailModes, SP!FailModes,
         S!AllowDecision, SP!AllowDecision, S!AllowRule, SP!AllowRule, S!EventOf, SP!EventOf, S!None, SP!None
    <2> QED
      BY <2>1, SP!InitHandlerInv, RpmAssumption, RulesAssumption
  <1>3. Stricter /\ spentS = spent
    BY RpmAssumption DEF RolloutInit, Init, Starts, S!Starts, Stricter
  <1>4. \A r \in Requests : Together(r) /\ Alike(r)
    BY DEF RolloutInit, Init, Starts, S!Starts, AllowDecision, S!AllowDecision, AllowRule, S!AllowRule,
       Together, Alike, Undecided, Busy, Refused, None, S!None
  <1> QED
    BY <1>1, <1>2, <1>3, <1>4 DEF RolloutInv, AllAlike

LEMMA StepRolloutInv == RolloutInv /\ [RolloutNext]_rolloutVars => RolloutInv'
  <1> SUFFICES ASSUME RolloutInv, [RolloutNext]_rolloutVars PROVE RolloutInv'
    OBVIOUS
  <1>1. HandlerInv' /\ SP!HandlerInv'
    BY HandlersKeep
  <1>2. \A q \in Requests : Together(q) /\ (failMode = "allow" => Alike(q))
    BY DEF RolloutInv, AllAlike
  <1>3. ASSUME NEW r \in Requests, UNCHANGED given,
               BothArrive(r) \/ BothVerify(r) \/ BothEvaluate(r) \/ BothAct(r) \/ OneCallsNext(r)
        PROVE  RolloutInv'
    <2>1. PairKeeps(r) /\ BucketsKeep
      BY <1>1, <1>3, BothArriveStep, BothVerifyStep, BothEvaluateStep, BothActStep, OneCallsNextStep
    <2>2. \A q \in Requests \ {r} : Untouched(q) /\ SP!Untouched(q)
      <3>1. \A q \in Requests \ {r} : Untouched(q)
        <4>1. CASE ServeHTTP(r)
          BY <1>3, <4>1, ServeHTTPStep DEF StepKeeps, RolloutInv
        <4>2. CASE UNCHANGED deployed
          BY <4>2 DEF deployed, history, Untouched
        <4> QED
          BY <1>3, <4>1, <4>2, JointStep
      <3>2. \A q \in Requests \ {r} : SP!Untouched(q)
        <4>1. CASE SP!ServeHTTP(r)
          <5>1. UNCHANGED SP!given
            BY <1>3 DEF given, SP!given
          <5>2. SP!StepKeeps(r)
            BY <4>1, <5>1, SP!ServeHTTPStep, RpmAssumption, RulesAssumption DEF RolloutInv
          <5> QED
            BY <5>2 DEF SP!StepKeeps
        <4>2. CASE UNCHANGED shadowed
          BY <4>2 DEF shadowed, SP!Untouched
        <4> QED
          BY <1>3, <4>1, <4>2, JointStep
      <3> QED
        BY <3>1, <3>2
    <2>3. failMode' = failMode
      BY <1>3 DEF given
    <2> QED
      BY <1>1, <1>2, <2>1, <2>2, <2>3, Frame DEF RolloutInv, PairKeeps, BucketsKeep, AllAlike
  <1>4. ASSUME NEW k \in Keys, UNCHANGED given, BothRefill(k) PROVE RolloutInv'
    <2>1. BucketsKeep /\ \A q \in Requests : Untouched(q) /\ SP!Untouched(q)
      BY <1>4, BothRefillStep
    <2>2. failMode' = failMode
      BY <1>4 DEF given
    <2> QED
      BY <1>1, <1>2, <2>1, <2>2, Frame DEF RolloutInv, BucketsKeep, AllAlike
  <1>5. CASE UNCHANGED rolloutVars
    <2>1. failMode' = failMode /\ UNCHANGED <<spent, spentS>>
      BY <1>5 DEF rolloutVars, given, deployed, shadowed
    <2>2. \A q \in Requests : Untouched(q) /\ SP!Untouched(q)
      BY <1>5 DEF rolloutVars, deployed, shadowed, history, Untouched, SP!Untouched
    <2> QED
      BY <1>1, <1>2, <2>1, <2>2, Frame, BucketsRest DEF RolloutInv, BucketsKeep, AllAlike
  <1> QED
    BY <1>3, <1>4, <1>5 DEF RolloutNext

THEOREM RolloutInvariant == RolloutSpec => []RolloutInv
  BY InitRolloutInv, StepRolloutInv, PTL DEF RolloutSpec

\* A dry run reports everyone whom the policy or its limit would have refused,
\* for any number of requests and keys and under either fail_mode: its buckets
\* are never fuller than those of the deployment (README.md:252).
THEOREM DryRunIsStricter == RolloutSpec => []ShadowIsStricter
  <1>1. RolloutInv => ShadowIsStricter
    <2> SUFFICES ASSUME RolloutInv, NEW r \in Requests, recordedS[r], Unwanted(r)
                 PROVE  S!WouldBlock(eventS[r])
      BY DEF RolloutInv, Stricter, ShadowIsStricter
    <2>1. SP!ReportAddsUp /\ SP!ModeRespected
      BY SP!InvAddsUp, SP!InvRespectsMode, RpmAssumption, RulesAssumption DEF RolloutInv
    <2>2. SP!Unwanted(r)
      <3>1. ~Undecided(r)
        BY AllowDecisionFacts DEF Undecided, Unwanted
      <3> QED
        BY <3>1 DEF RolloutInv, Together, Unwanted, SP!Unwanted
    <2>3. ~SP!Refused(r)
      BY <2>1 DEF SP!ModeRespected, SP!Enforce
    <2> QED
      BY <2>1, <2>2, <2>3 DEF SP!ReportAddsUp, SP!WouldBlock, S!WouldBlock
  <1> QED
    BY <1>1, RolloutInvariant, PTL

\* Under fail_mode allow a dry run and the rollout in enforce agree on every
\* request and every bucket (docs/policy-guide.md:59).
THEOREM DryRunPredicts == RolloutSpec => []ShadowPredictsAllow
  <1>1. RolloutInv => ShadowPredictsAllow
    <2> SUFFICES ASSUME RolloutInv, failMode = "allow" PROVE spent = spentS /\ ShadowPredicts
      BY DEF ShadowPredictsAllow
    <2>1. spent = spentS
      BY DEF RolloutInv, AllAlike
    <2>2. ASSUME Enforce, NEW r \in Requests, recorded[r], recordedS[r]
          PROVE  S!WouldBlock(eventS[r]) <=> Blocked(event[r])
      <3>1. SP!ReportAddsUp /\ SP!ModeRespected
        BY SP!InvAddsUp, SP!InvRespectsMode, RpmAssumption, RulesAssumption DEF RolloutInv
      <3>2. ReportAddsUp /\ ModeRespected
        BY InvAddsUp, InvRespectsMode DEF RolloutInv
      <3>3. S!WouldBlock(eventS[r]) <=> SP!Unwanted(r)
        BY <2>2, <3>1 DEF SP!ReportAddsUp, SP!ModeRespected, SP!Enforce, SP!WouldBlock, S!WouldBlock
      <3>4. SP!Unwanted(r) <=> Unwanted(r)
        BY DEF RolloutInv, AllAlike, Alike, Unwanted, SP!Unwanted
      <3>5. Unwanted(r) <=> Refused(r)
        BY <2>2, <3>2 DEF RolloutInv, AllAlike, Alike, ModeRespected
      <3> QED
        BY <2>2, <3>2, <3>3, <3>4, <3>5 DEF ReportAddsUp
    <2> QED
      BY <2>1, <2>2 DEF ShadowPredicts
  <1> QED
    BY <1>1, RolloutInvariant, PTL
=============================================================================
