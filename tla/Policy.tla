------------------------------- MODULE Policy -------------------------------
(***************************************************************************)
(* The policy engine (internal/policy/compile.go, engine.go): rules in the *)
(* order of their priorities, of which the first that matches decides.     *)
(*                                                                         *)
(* A rule's CEL expression is abstracted to the bots it speaks of and one  *)
(* test.  A path is a sequence of characters; the root is <<>>.            *)
(***************************************************************************)
EXTENDS Naturals, SequencesExt

CONSTANTS
  Bots,      \* the bots of the policy
  Wildcard,  \* the one with match.default
  Paths,     \* the paths of the site
  Rpms       \* the limits of rate_limit rules

ASSUME BotsAssumption == Wildcard \in Bots
Characters == UNION {Range(p) : p \in Paths}
ASSUME PathsAssumption == <<>> \in Paths /\ Paths \subseteq Seq(Characters)
ASSUME LimitsAssumption == Rpms \subseteq Nat \ {0}

\* A block without a status has status 0.
Gone == 410
Actions == [type : {"allow"}, status : {0}, rpm : {0}]
           \cup [type : {"block"}, status : {0, Gone}, rpm : {0}]
           \cup [type : {"rate_limit"}, status : {0}, rpm : Rpms]

\* What Evaluate returns when a rule cannot be evaluated.
Error == [type |-> "error", status |-> 0, rpm |-> 0]

\* What a rule tests: that the path starts with its path or is its path; the first
\* of these of a bot that is verified, or claimed by the User-Agent; that
\* labels.path is its path; the value of a header or of the query.
Tests == {"prefix", "exact", "verified", "claimed", "label", "header", "query"}

\* What a test comes to when there is nothing to read: the evaluation breaks on a
\* key that a map does not have, unless the rule asks for the key first (has(...),
\* "x" in request.headers); then it is false, or true if the rule holds without.
Absences == {"breaks", "false", "true"}
Rules == [id : Nat, priority : Nat, bots : SUBSET Bots, test : Tests, path : Paths,
          absent : Absences, action : Actions]

\* What the rules are told: whether there are labels, and of the header and of the
\* query whether there is one and whether it has the value that is asked for.
Values == {"absent", "other", "asked"}
Inputs == [bot : Bots, path : Paths, verified : BOOLEAN, claimed : BOOLEAN,
           labels : BOOLEAN, header : Values, query : Values]

\* What a rule finds where it reads.
Found(rule, in) ==
  CASE rule.test = "label" -> IF ~in.labels THEN "absent"
                              ELSE IF rule.path = in.path THEN "asked" ELSE "other"
    [] rule.test = "header" -> in.header
    [] rule.test = "query" -> in.query
    [] OTHER -> "other"

Matches(rule, in) ==
  /\ in.bot \in rule.bots
  /\ \/ rule.test = "exact" /\ rule.path = in.path
     \/ /\ rule.test = "prefix" \/ (rule.test = "verified" /\ in.verified)
                                \/ (rule.test = "claimed" /\ in.claimed)
        /\ IsPrefix(rule.path, in.path)
     \/ Found(rule, in) = "asked"
     \/ Found(rule, in) = "absent" /\ rule.absent = "true"

\* Mutant: a rule that cannot be evaluated is passed over.
NeverBreaks(rule, in) == FALSE

\* The query is always there, if only as an empty string.
Breaks(rule, in) ==
  /\ in.bot \in rule.bots
  /\ rule.test # "query" /\ rule.absent = "breaks"
  /\ Found(rule, in) = "absent"

\* Mutant: rules of one priority stay as the file has them.
ByPriority(p, q) == p.priority < q.priority
Before(p, q) == p.priority < q.priority \/ (p.priority = q.priority /\ p.id < q.id)

\* compileRules: what is sorted keeps nothing of the order that it had, unless
\* rules are neither before nor after one another.
Compiled(rules) ==
  LET order == CHOOSE p \in Bijection(DOMAIN rules, DOMAIN rules) :
                 \A i, j \in DOMAIN rules : i < j => ~Before(rules[p[j]], rules[p[i]])
  IN [i \in DOMAIN rules |-> rules[order[i]]]

NewEngine(policy) == [rules |-> Compiled(policy.rules), default |-> policy.default]

\* Engine.Evaluate: the loop ends at the first rule that matches, or breaks.
Evaluate(engine, in) ==
  LET ending == {i \in DOMAIN engine.rules : Matches(engine.rules[i], in) \/ Breaks(engine.rules[i], in)}
      rule == engine.rules[Min(ending)]
  IN IF ending = {} THEN engine.default
     ELSE IF Breaks(rule, in) THEN Error
     ELSE rule.action
=============================================================================
