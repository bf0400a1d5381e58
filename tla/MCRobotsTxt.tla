---------------------------- MODULE MCRobotsTxt ----------------------------
(* robots.txt for TLC: two rules over paths of a few characters.           *)
EXTENDS RobotsTxt

CONSTANT MaxLength

MCPaths == UNION {[1..n -> {"a", "b"}] : n \in 0..MaxLength}

\* The image crawler's User-Agent has the plain one's needle too, and the default
\* bot has a needle of its own.
MCRegistry == <<"gpt", "other", "*">>
MCNeedles == [b \in Bots |-> CASE b = "gpt" -> {"gpt", "gpt-img"}
                               [] b = "other" -> {"other"}
                               [] OTHER -> {"any"}]

MCRobotsPath == <<"b">>

\* What policy eval does not know of a request: a header with a query or without,
\* and with a value that nobody asks for.
MCRequests ==
  {r \in [agent : {{}, {"any"}, {"gpt-img", "other"}}, path : {<<"a">>, <<"a", "b">>, <<"b">>},
          header : {"absent", "other", "asked"}, query : {"absent", "asked"},
          proof : {"verified", "error"}] :
    /\ r.header = "other" => r.query = "absent"
    /\ r.path = MCRobotsPath => r.header = "absent"
    /\ r.proof = "error" => r.header = "absent" /\ r.path # <<"a">>}

\* What the rules name: nested prefixes.
Named == {<<>>, <<"a">>, <<"a", "a">>}

MCRules(tests, id, priorities, bots, actions) ==
  [id : {id}, priority : priorities, bots : bots, test : tests, path : Named,
   absent : {"breaks"}, action : actions]

\* Those that test something else than a path: what is not there breaks them, or
\* they are content without it.
MCOthers(ids, priorities, bots, actions) ==
  {r \in [id : ids, priority : priorities, bots : bots, test : {"claimed", "label", "header", "query"},
          path : {<<>>, <<"a">>}, absent : Absences, action : actions] :
    /\ r.path = <<>> <=> r.test # "label"
    /\ r.test = "claimed" => r.absent = "breaks"
    /\ r.test = "query" => r.absent # "breaks"}

\* The rules of one priority, or in the other order than they are named.
MCPolicies ==
  LET bots == {{"gpt"}, Bots}
      plain == {"prefix", "exact", "verified"}
      slow == {a \in Actions : a.status = 0 /\ a.rpm < 60}
      first == {r \in MCRules(plain, 1, {1, 2}, bots, Actions) :
                  r.action.status = Gone => r.test = "prefix"}
               \cup MCOthers({1}, {1, 2}, bots, slow)
      second == {r \in MCRules(plain, 2, {1}, {Bots}, slow) :
                   r.test = "prefix" \/ r.path = <<"a">>}
                \cup {r \in MCOthers({2}, {1}, {Bots}, slow) :
                        r.test = "header" /\ r.absent = "breaks"}
  IN [rules : first \X second,
      default : {a \in Actions : a.status = 0 /\ a.rpm = 0},
      sets : {{<<"b">>}}]
=============================================================================
