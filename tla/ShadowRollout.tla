--------------------------- MODULE ShadowRollout ---------------------------
(***************************************************************************)
(* A deployment beside a dry run of the same policy on the same traffic:   *)
(* what the dry run tells of the rollout in enforce that follows it.  The  *)
(* variables of RequestHandler are those of the deployment, in any mode;   *)
(* the others are those of the dry run.  Both see each request at the same *)
(* time, get the same answers from the verifier and the policy, and        *)
(* resolve the same keys; each calls its next handler in its own time.     *)
(***************************************************************************)
EXTENDS RequestHandler

VARIABLES
  pcS, decisionS, resolvedS, spentS, eventS, recordedS, upstreamS, responseS, chargedS, overS

deployed == <<pc, decision, resolved, spent, event, recorded, upstream, response, history>>
shadowed == <<pcS, decisionS, resolvedS, spentS, eventS, recordedS, upstreamS, responseS,
              chargedS, overS>>
rolloutVars == <<given, deployed, shadowed>>

S == INSTANCE RequestHandler WITH
  mode <- "shadow", pc <- pcS, decision <- decisionS, resolved <- resolvedS, spent <- spentS,
  event <- eventS, recorded <- recordedS, upstream <- upstreamS, response <- responseS,
  charged <- chargedS, over <- overS

\* The configurations differ in the mode alone.
RolloutInit == Init /\ S!Starts

\* What enforce has answered, the dry run goes on with alone.
Answered(r) == pc[r] = "done" /\ UNCHANGED deployed

BothArrive(r) ==
  \/ Arrive(r) /\ S!Arrive(r)
  \/ ServeRobots(r) /\ S!ServeRobots(r)

BothVerify(r) ==
  \/ Verified(r) /\ S!Verified(r)
  \/ VerifierError(r) /\ S!VerifierError(r)

BothEvaluate(r) ==
  \/ Evaluate(r) /\ S!Evaluate(r) /\ decision'[r] = decisionS'[r]
  \/ Answered(r) /\ S!Evaluate(r)

BothAct(r) ==
  \/ Act(r) /\ S!Act(r)
  \/ Answered(r) /\ S!Act(r)

OneCallsNext(r) ==
  \/ CallsNext(r) /\ UNCHANGED shadowed
  \/ S!CallsNext(r) /\ UNCHANGED deployed

\* The dry run's buckets miss no fewer tokens than those of enforce.
BothRefill(k) ==
  \/ Refill(k) /\ S!Refill(k)
  \/ S!Refill(k) /\ spent[k] = 0 /\ UNCHANGED deployed

RolloutNext ==
  /\ \/ \E r \in Requests :
          BothArrive(r) \/ BothVerify(r) \/ BothEvaluate(r) \/ BothAct(r) \/ OneCallsNext(r)
     \/ \E k \in Keys : BothRefill(k)
  /\ UNCHANGED given

RolloutSpec == RolloutInit /\ [][RolloutNext]_rolloutVars

-----------------------------------------------------------------------------
(* What the dry run promises                                               *)

\* What shadow reports as would-block is what enforce blocked, request by
\* request (README.md:252): that is how a dry run is used.
ShadowPredicts ==
  Enforce => \A r \in Requests :
    recorded[r] /\ recordedS[r] => (S!WouldBlock(eventS[r]) <=> Blocked(event[r]))

\* So it is under fail_mode allow, where the dry run's buckets are as full as
\* those of enforce (docs/policy-guide.md:59).
ShadowPredictsAllow == failMode = "allow" => spent = spentS /\ ShadowPredicts

\* Under either fail_mode a dry run never understates the policy: its buckets
\* miss at least the tokens those of enforce miss, and whom enforce limits, or
\* blocks by policy, it reports as would-block.
ShadowIsStricter ==
  /\ \A k \in Keys : spent[k] <= spentS[k]
  /\ \A r \in Requests : recordedS[r] /\ Unwanted(r) => S!WouldBlock(eventS[r])
=============================================================================
