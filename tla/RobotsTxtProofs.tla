--------------------------- MODULE RobotsTxtProofs ---------------------------
(***************************************************************************)
(* Proofs about the policy engine and the robots.txt made with it.         *)
(*                                                                         *)
(* The engine's answer is put without the sorted sequence: the rule that   *)
(* decides is the one that comes before all others that match or break     *)
(* (EvaluateIs).  The order of the file cannot change which rule that is;  *)
(* nor can what `policy eval' does not know, unless it comes to a rule     *)
(* that it reads otherwise without breaking (KnowsLess).  That the file    *)
(* says what is decided rests on SaysAll: a path whose own line was left   *)
(* out is decided as its closest prefix, which is shorter, so that a       *)
(* shortest path misstated cannot exist.                                   *)
(***************************************************************************)
EXTENDS RobotsTxt, SequenceTheorems, FiniteSetTheorems, WellFoundedInduction, TLAPS

-----------------------------------------------------------------------------
(* The order of the rules                                                  *)

\* Rules as a policy has them.
Distinct(rules) == \A i, j \in DOMAIN rules : rules[i].id = rules[j].id => i = j

\* Rules of a policy as a function on finitely many places.
LEMMA RulesAre ==
  ASSUME NEW rules \in Seq(Rules)
  PROVE  /\ Len(rules) \in Nat /\ DOMAIN rules = 1..Len(rules) /\ rules \in [DOMAIN rules -> Rules]
         /\ IsFiniteSet(DOMAIN rules) /\ Cardinality(DOMAIN rules) = Len(rules)
  <1>1. Len(rules) \in Nat /\ rules \in [1..Len(rules) -> Rules] /\ DOMAIN rules = 1..Len(rules)
    BY LenProperties
  <1>2. IsFiniteSet(1..Len(rules)) /\ Cardinality(1..Len(rules)) = Len(rules)
    BY <1>1, FS_Interval
  <1> QED
    BY <1>1, <1>2

\* Rules with ids of their own have one order.
LEMMA BeforeOrders ==
  /\ \A q \in Rules : ~Before(q, q)
  /\ \A p, q \in Rules : p.id # q.id => Before(p, q) \/ Before(q, p)
  /\ \A p, q, r \in Rules : Before(p, q) /\ Before(q, r) => Before(p, r)
  BY DEF Rules, Before

\* How many rules come before one is its place.
Place(rules, i) == {j \in DOMAIN rules : Before(rules[j], rules[i])}

\* A rule before another has the lower place.
LEMMA PlaceGrows ==
  ASSUME NEW rules \in Seq(Rules), NEW i \in DOMAIN rules, NEW j \in DOMAIN rules, Before(rules[i], rules[j])
  PROVE  Cardinality(Place(rules, i)) < Cardinality(Place(rules, j))
  <1>1. rules \in [DOMAIN rules -> Rules] /\ IsFiniteSet(DOMAIN rules)
    BY RulesAre
  <1>2. Place(rules, j) \subseteq DOMAIN rules
    BY DEF Place
  <1>3. IsFiniteSet(Place(rules, j))
    BY <1>1, <1>2, FS_Subset
  <1>4. Place(rules, i) \subseteq Place(rules, j) /\ i \in Place(rules, j) /\ i \notin Place(rules, i)
    BY <1>1, BeforeOrders DEF Place
  <1>5. IsFiniteSet(Place(rules, i)) /\ Cardinality(Place(rules, i)) # Cardinality(Place(rules, j))
        /\ Cardinality(Place(rules, i)) <= Cardinality(Place(rules, j))
    BY <1>3, <1>4, FS_Subset
  <1>6. Cardinality(Place(rules, i)) \in Nat /\ Cardinality(Place(rules, j)) \in Nat
    BY <1>3, <1>5, FS_CardinalityType
  <1> QED
    BY <1>5, <1>6

\* There is a way to sort rules: to put each in its place.
LEMMA SortExists ==
  ASSUME NEW rules \in Seq(Rules), Distinct(rules)
  PROVE  \E p \in Bijection(DOMAIN rules, DOMAIN rules) :
           \A i, j \in DOMAIN rules : i < j => ~Before(rules[p[j]], rules[p[i]])
  <1> PICK D, n : D = DOMAIN rules /\ n = Len(rules)
    OBVIOUS
  <1>1. n \in Nat /\ D = 1..n /\ rules \in [D -> Rules] /\ IsFiniteSet(D) /\ Cardinality(D) = n
    BY RulesAre
  <1> DEFINE rank == [i \in D |-> Cardinality(Place(rules, i)) + 1]
  <1>2. ASSUME NEW i \in D PROVE rank[i] \in D
    <2>1. Place(rules, i) \subseteq D /\ i \notin Place(rules, i)
      BY <1>1, BeforeOrders DEF Place
    <2>2. Place(rules, i) # D
      BY <2>1
    <2>3. Cardinality(Place(rules, i)) \in Nat /\ Cardinality(Place(rules, i)) < n
      BY <1>1, <2>1, <2>2, FS_Subset, FS_CardinalityType
    <2> QED
      BY <1>1, <2>3
  <1>3. ASSUME NEW i \in D, NEW j \in D, Before(rules[i], rules[j]) PROVE rank[i] < rank[j]
    <2>1. Cardinality(Place(rules, i)) < Cardinality(Place(rules, j))
      BY <1>3, PlaceGrows
    <2>2. rank[i] \in Int /\ rank[j] \in Int
      BY <1>1, <1>2
    <2>3. IsFiniteSet(Place(rules, i)) /\ IsFiniteSet(Place(rules, j))
      BY <1>1, FS_Subset DEF Place
    <2>4. Cardinality(Place(rules, i)) \in Nat /\ Cardinality(Place(rules, j)) \in Nat
      BY <2>3, FS_CardinalityType
    <2> QED
      BY <2>1, <2>4
  <1>4. ASSUME NEW i \in D, NEW j \in D, rank[i] = rank[j] PROVE i = j
    <2>1. ~(rank[i] < rank[j]) /\ ~(rank[j] < rank[i])
      BY <1>1, <1>2, <1>4
    <2>2. rules[i] \in Rules /\ rules[j] \in Rules
      BY <1>1
    <2> HIDE DEF rank
    <2>3. rules[i].id = rules[j].id
      BY <1>3, <2>1, <2>2, BeforeOrders
    <2> QED
      BY <2>3 DEF Distinct
  <1>5. rank \in [D -> D]
    BY <1>2
  <1> HIDE DEF rank
  <1>6. rank \in Injection(D, D)
    BY <1>4, <1>5 DEF Injection, IsInjective
  <1>7. rank \in Surjection(D, D)
    BY <1>1, <1>6, FS_Injection
  <1> DEFINE p == [r \in D |-> CHOOSE i \in D : rank[i] = r]
  <1>8. \A r \in D : p[r] \in D /\ rank[p[r]] = r
    BY <1>7 DEF Surjection
  <1>9. \A i \in D : p[rank[i]] = i
    BY <1>4, <1>5, <1>8
  <1>10. p \in [D -> D]
    BY <1>8
  <1> HIDE DEF p
  <1>11. p \in Bijection(D, D)
    BY <1>5, <1>8, <1>9, <1>10 DEF Bijection, Injection, IsInjective, Surjection
  <1>12. ASSUME NEW i \in D, NEW j \in D, i < j PROVE ~Before(rules[p[j]], rules[p[i]])
    <2> SUFFICES ASSUME Before(rules[p[j]], rules[p[i]]) PROVE FALSE
      OBVIOUS
    <2>1. rank[p[j]] < rank[p[i]]
      BY <1>3, <1>8
    <2>2. j < i
      BY <1>8, <2>1
    <2> QED
      BY <1>1, <1>12, <2>2
  <1> QED
    BY <1>11, <1>12

\* compileRules: the engine has the rules of the file, each before those it is before.
LEMMA CompiledSorts ==
  ASSUME NEW rules \in Seq(Rules), Distinct(rules)
  PROVE  /\ DOMAIN Compiled(rules) = DOMAIN rules
         /\ \A i \in DOMAIN rules : Compiled(rules)[i] \in Range(rules)
         /\ \A q \in Range(rules) : \E i \in DOMAIN rules : Compiled(rules)[i] = q
         /\ \A i, j \in DOMAIN rules : i < j => Before(Compiled(rules)[i], Compiled(rules)[j])
  <1> PICK D : D = DOMAIN rules
    OBVIOUS
  <1> DEFINE p == CHOOSE q \in Bijection(DOMAIN rules, DOMAIN rules) :
                    \A i, j \in DOMAIN rules : i < j => ~Before(rules[q[j]], rules[q[i]])
  <1>1. p \in Bijection(D, D) /\ \A i, j \in D : i < j => ~Before(rules[p[j]], rules[p[i]])
    BY SortExists
  <1>2. Compiled(rules) = [i \in D |-> rules[p[i]]]
    BY DEF Compiled
  <1> HIDE DEF p
  <1>3. rules \in [D -> Rules] /\ D \subseteq Nat
    BY RulesAre
  <1>4. /\ p \in [D -> D]
        /\ \A i, j \in D : p[i] = p[j] => i = j
        /\ \A j \in D : \E i \in D : p[i] = j
    BY <1>1 DEF Bijection, Injection, Surjection, IsInjective
  <1>5. ASSUME NEW i \in D, NEW j \in D, i < j PROVE Before(rules[p[i]], rules[p[j]])
    <2>1. p[i] \in D /\ p[j] \in D /\ p[i] # p[j]
      BY <1>3, <1>4, <1>5
    <2>2. rules[p[i]] \in Rules /\ rules[p[j]] \in Rules /\ rules[p[i]].id # rules[p[j]].id
      BY <1>3, <2>1 DEF Distinct
    <2> QED
      BY <1>1, <1>5, <2>2, BeforeOrders
  <1>6. ASSUME NEW q \in Range(rules) PROVE \E i \in D : rules[p[i]] = q
    BY <1>4 DEF Range
  <1>7. \A i \in D : rules[p[i]] \in Range(rules)
    BY <1>4 DEF Range
  <1> QED
    BY <1>2, <1>5, <1>6, <1>7

-----------------------------------------------------------------------------
(* The rule that decides                                                   *)

\* A set of naturals has a first one.
LEMMA FirstNumber ==
  ASSUME NEW S, S \subseteq Nat, S # {}
  PROVE  Min(S) \in S /\ \A n \in S : Min(S) <= n
  <1>1. PICK first \in S : \A n \in S : ~(<<n, first>> \in OpToRel(<, Nat))
    BY NatLessThanWellFounded, WFMin
  <1>2. ASSUME NEW n \in S PROVE first <= n
    <2>1. <<n, first>> \in Nat \X Nat
      OBVIOUS
    <2>2. ~(n < first)
      BY <1>1, <2>1 DEF OpToRel
    <2> QED
      BY <2>2
  <1>3. \E m \in S : \A n \in S : m <= n
    BY <1>2
  <1> QED
    BY <1>3 DEF Min

\* So has one that is bounded a last one.
LEMMA LargestNumber ==
  ASSUME NEW N \in Nat, NEW S, S \subseteq 0..N, S # {}
  PROVE  Max(S) \in S /\ \A n \in S : n <= Max(S)
  <1> DEFINE T == {N - n : n \in S}
  <1>1. T \subseteq Nat /\ T # {}
    <2>1. \A n \in S : N - n \in Nat
      OBVIOUS
    <2>2. PICK n \in S : TRUE
      OBVIOUS
    <2>3. N - n \in T
      OBVIOUS
    <2> QED
      BY <2>1, <2>3
  <1>2. PICK first \in T : \A n \in T : first <= n
    <2> HIDE DEF T
    <2> QED
      BY <1>1, FirstNumber
  <1>3. PICK m \in S : first = N - m
    BY <1>2
  <1>4. ASSUME NEW n \in S PROVE n <= m
    <2>1. N - n \in T
      OBVIOUS
    <2>2. first <= N - n
      BY <1>2, <2>1
    <2>3. n \in 0..N /\ m \in 0..N /\ N \in Nat
      OBVIOUS
    <2> QED
      BY <1>3, <2>2, <2>3
  <1>5. \E x \in S : \A n \in S : x >= n
    BY <1>4
  <1>6. Max(S) \in S /\ \A n \in S : Max(S) >= n
    BY <1>5 DEF Max
  <1> QED
    BY <1>6

\* A policy as it may be loaded.
LEMMA PolicyIs ==
  ASSUME NEW p \in Policies
  PROVE  /\ p.rules \in Seq(Rules) /\ Distinct(p.rules) /\ p.default \in Actions /\ p.sets \subseteq Paths
         /\ p = [rules |-> p.rules, default |-> p.default, sets |-> p.sets]
         /\ Range(p.rules) \subseteq Rules
  <1>1. /\ p \in [rules : Seq(Rules), default : Actions, sets : SUBSET Paths]
        /\ \A i, j \in DOMAIN p.rules : p.rules[i].id = p.rules[j].id => i = j
    BY PoliciesAssumption
  <1>2. p.rules \in Seq(Rules)
    BY <1>1
  <1>3. Range(p.rules) \subseteq Rules
    BY <1>2, RulesAre DEF Range
  <1> QED
    BY <1>1, <1>2, <1>3 DEF Distinct

\* The rules that end the evaluation, if they are reached, and the one reached first.
Ending(rules, in) == {r \in Range(rules) : Matches(r, in) \/ Breaks(r, in)}
Decides(rules, in, r) ==
  r \in Ending(rules, in) /\ \A q \in Ending(rules, in) : q = r \/ Before(r, q)

\* Evaluate: the rule that comes before all others that match or break decides.
LEMMA EvaluateIs ==
  ASSUME NEW rules \in Seq(Rules), Distinct(rules), NEW default, NEW in,
         NEW engine, engine = [rules |-> Compiled(rules), default |-> default]
  PROVE  \/ Ending(rules, in) = {} /\ Evaluate(engine, in) = default
         \/ \E r \in Range(rules) :
              /\ Decides(rules, in, r)
              /\ Evaluate(engine, in) = IF Breaks(r, in) THEN Error ELSE r.action
  <1> PICK sorted, D : sorted = Compiled(rules) /\ D = DOMAIN rules
    OBVIOUS
  <1>1. /\ DOMAIN sorted = D /\ D \subseteq Nat
        /\ \A i \in D : sorted[i] \in Range(rules)
        /\ \A q \in Range(rules) : \E i \in D : sorted[i] = q
        /\ \A i, j \in D : i < j => Before(sorted[i], sorted[j])
    BY CompiledSorts, RulesAre
  <1> DEFINE ending == {i \in D : Matches(sorted[i], in) \/ Breaks(sorted[i], in)}
             rule == sorted[Min(ending)]
  <1>2. Evaluate(engine, in) = IF ending = {} THEN default ELSE IF Breaks(rule, in) THEN Error ELSE rule.action
    BY <1>1 DEF Evaluate
  <1>3. CASE ending = {}
    <2>1. Ending(rules, in) = {}
      BY <1>1, <1>3 DEF Ending
    <2> QED
      BY <1>2, <1>3, <2>1
  <1>4. CASE ending # {}
    <2>1. ending \subseteq Nat
      BY <1>1
    <2> PICK m : m = Min(ending)
      OBVIOUS
    <2>2. m \in ending /\ \A i \in ending : m <= i
      <3> HIDE DEF ending
      <3> QED
        BY <1>4, <2>1, FirstNumber
    <2>3. sorted[m] \in Ending(rules, in) /\ sorted[m] \in Range(rules)
      BY <1>1, <2>2 DEF Ending
    <2>4. ASSUME NEW q \in Ending(rules, in) PROVE q = sorted[m] \/ Before(sorted[m], q)
      <3>1. PICK i \in D : sorted[i] = q
        BY <1>1 DEF Ending
      <3>2. i \in ending
        BY <3>1 DEF Ending
      <3>3. i \in Nat /\ m \in Nat /\ m <= i
        BY <2>1, <2>2, <3>2
      <3>4. i = m \/ m < i
        BY <3>3
      <3> QED
        BY <1>1, <2>2, <3>1, <3>4
    <2>5. Decides(rules, in, sorted[m])
      BY <2>3, <2>4 DEF Decides
    <2> HIDE DEF ending
    <2> QED
      BY <1>2, <1>4, <2>3, <2>5
  <1> QED
    BY <1>3, <1>4

\* One rule decides, at most.
LEMMA OneDecides ==
  ASSUME NEW rules, Range(rules) \subseteq Rules, NEW in, NEW r, NEW q, Decides(rules, in, r), Decides(rules, in, q)
  PROVE  r = q
  <1>1. r \in Rules /\ q \in Rules
    BY DEF Decides, Ending
  <1> QED
    BY <1>1, BeforeOrders DEF Decides

\* What Evaluate makes of a policy depends on the rules that end it, and not on
\* where they stand.
LEMMA SameEnding ==
  ASSUME NEW rules \in Seq(Rules), Distinct(rules), NEW others \in Seq(Rules), Distinct(others),
         NEW default, NEW in, NEW also,
         Ending(rules, in) = Ending(others, also),
         \A r \in Ending(rules, in) : Breaks(r, in) <=> Breaks(r, also)
  PROVE  Evaluate([rules |-> Compiled(rules), default |-> default], in) =
           Evaluate([rules |-> Compiled(others), default |-> default], also)
  <1> PICK a, b : /\ a = Evaluate([rules |-> Compiled(rules), default |-> default], in)
                  /\ b = Evaluate([rules |-> Compiled(others), default |-> default], also)
    OBVIOUS
  <1>1. \/ Ending(rules, in) = {} /\ a = default
        \/ \E r \in Range(rules) : Decides(rules, in, r) /\ a = IF Breaks(r, in) THEN Error ELSE r.action
    BY EvaluateIs
  <1>2. \/ Ending(others, also) = {} /\ b = default
        \/ \E r \in Range(others) : Decides(others, also, r) /\ b = IF Breaks(r, also) THEN Error ELSE r.action
    BY EvaluateIs
  <1>3. \A r : Decides(others, also, r) => Decides(rules, in, r) /\ r \in Ending(rules, in)
    BY DEF Decides
  <1>4. \A r : Decides(rules, in, r) => r \in Ending(rules, in)
    BY DEF Decides
  <1>5. Range(rules) \subseteq Rules
    BY RulesAre DEF Range
  <1>6. CASE Ending(rules, in) = {}
    BY <1>1, <1>2, <1>3, <1>4, <1>6
  <1>7. CASE Ending(rules, in) # {}
    <2>1. PICK r : Decides(rules, in, r) /\ a = IF Breaks(r, in) THEN Error ELSE r.action
      BY <1>1, <1>7
    <2>2. PICK q : Decides(others, also, q) /\ b = IF Breaks(q, also) THEN Error ELSE q.action
      BY <1>2, <1>7
    <2>3. r = q
      BY <1>3, <1>5, <2>1, <2>2, OneDecides
    <2> QED
      BY <1>4, <2>1, <2>2, <2>3
  <1> QED
    BY <1>6, <1>7

\* The file the other way round has the same rules.
LEMMA ReverseKeeps ==
  ASSUME NEW rules \in Seq(Rules), Distinct(rules)
  PROVE  Reverse(rules) \in Seq(Rules) /\ Distinct(Reverse(rules)) /\ Range(Reverse(rules)) = Range(rules)
  <1> PICK n : n = Len(rules)
    OBVIOUS
  <1>1. n \in Nat /\ DOMAIN rules = 1..n /\ rules \in [1..n -> Rules]
    BY RulesAre
  <1>2. Reverse(rules) = [i \in 1..n |-> rules[(n - i) + 1]]
    BY DEF Reverse
  <1>3. \A i \in 1..n : (n - i) + 1 \in 1..n
    BY <1>1
  <1>4. Reverse(rules) \in [1..n -> Rules]
    BY <1>1, <1>2, <1>3
  <1>5. Reverse(rules) \in Seq(Rules)
    BY <1>1, <1>4, SeqDef
  <1>6. Distinct(Reverse(rules))
    <2> SUFFICES ASSUME NEW i \in 1..n, NEW j \in 1..n, Reverse(rules)[i].id = Reverse(rules)[j].id
                 PROVE  i = j
      BY <1>2 DEF Distinct
    <2>1. (n - i) + 1 \in DOMAIN rules /\ (n - j) + 1 \in DOMAIN rules
      BY <1>1, <1>3
    <2>2. rules[(n - i) + 1].id = rules[(n - j) + 1].id
      BY <1>2
    <2>3. (n - i) + 1 = (n - j) + 1
      BY <2>1, <2>2 DEF Distinct
    <2> QED
      BY <1>1, <2>3
  <1>7. ASSUME NEW i \in 1..n PROVE rules[i] \in Range(Reverse(rules))
    <2>1. (n - i) + 1 \in 1..n /\ (n - ((n - i) + 1)) + 1 = i
      BY <1>1
    <2>2. Reverse(rules)[(n - i) + 1] = rules[i]
      BY <1>2, <2>1
    <2> QED
      BY <1>2, <2>1, <2>2 DEF Range
  <1>8. ASSUME NEW i \in 1..n PROVE Reverse(rules)[i] \in Range(rules)
    BY <1>1, <1>2, <1>3 DEF Range
  <1>9. Range(Reverse(rules)) = Range(rules)
    <2>1. DOMAIN Reverse(rules) = 1..n
      BY <1>2
    <2>2. \A r \in Range(rules) : r \in Range(Reverse(rules))
      <3>1. \A r \in Range(rules) : \E i \in 1..n : r = rules[i]
        BY <1>1 DEF Range
      <3> QED
        BY <1>7, <3>1
    <2>3. \A r \in Range(Reverse(rules)) : r \in Range(rules)
      <3>1. \A r \in Range(Reverse(rules)) : \E i \in 1..n : r = Reverse(rules)[i]
        BY <2>1 DEF Range
      <3> QED
        BY <1>8, <3>1
    <2> QED
      BY <2>2, <2>3
  <1> QED
    BY <1>5, <1>6, <1>9

\* The order of the file is nothing to the engine.
LEMMA OrderNothing ==
  ASSUME policy \in Policies
  PROVE  OrderIrrelevant
  <1> SUFFICES ASSUME NEW in
               PROVE  Evaluate(NewEngine(policy), in)
                        = Evaluate(NewEngine([policy EXCEPT !.rules = Reverse(policy.rules)]), in)
    BY DEF OrderIrrelevant
  <1> PICK p : p = policy
    OBVIOUS
  <1>1. p.rules \in Seq(Rules) /\ Distinct(p.rules) /\ p = [rules |-> p.rules, default |-> p.default, sets |-> p.sets]
    BY PolicyIs
  <1>2. /\ Reverse(p.rules) \in Seq(Rules) /\ Distinct(Reverse(p.rules))
        /\ Range(Reverse(p.rules)) = Range(p.rules)
    BY <1>1, ReverseKeeps
  <1>3. Ending(p.rules, in) = Ending(Reverse(p.rules), in)
    BY <1>2 DEF Ending
  <1>4. NewEngine(p) = [rules |-> Compiled(p.rules), default |-> p.default]
    BY DEF NewEngine
  <1>5. NewEngine([p EXCEPT !.rules = Reverse(p.rules)])
          = [rules |-> Compiled(Reverse(p.rules)), default |-> p.default]
    <2> PICK q : q = [p EXCEPT !.rules = Reverse(p.rules)]
      OBVIOUS
    <2>1. q.rules = Reverse(p.rules) /\ q.default = p.default
      BY <1>1
    <2> QED
      BY <2>1 DEF NewEngine
  <1> QED
    BY <1>1, <1>2, <1>3, <1>4, <1>5, SameEnding

-----------------------------------------------------------------------------
(* Prefixes                                                                *)

\* What it is to be a prefix, character by character.
LEMMA PrefixIs ==
  ASSUME NEW S, NEW s \in Seq(S), NEW t \in Seq(S)
  PROVE  /\ Len(s) \in Nat /\ Len(t) \in Nat
         /\ IsPrefix(s, t) <=> Len(s) <= Len(t) /\ \A i \in 1..Len(s) : s[i] = t[i]
  <1>1. Len(s) \in Nat /\ Len(t) \in Nat /\ s \in [1..Len(s) -> S] /\ t \in [1..Len(t) -> S]
    BY LenProperties
  <1> PICK m, n : m = Len(s) /\ n = Len(t)
    OBVIOUS
  <1>2. ASSUME m <= n PROVE SubSeq(s, 1, m) = SubSeq(t, 1, m) <=> \A i \in 1..m : s[i] = t[i]
    <2>1. SubSeq(s, 1, m) = s
      BY SubSeqFull
    <2>2. \A i \in 1..m : t[i] \in S
      BY <1>1, <1>2
    <2>3. /\ SubSeq(t, 1, m) \in Seq(S)
          /\ Len(SubSeq(t, 1, m)) = IF 1 <= m THEN m - 1 + 1 ELSE 0
          /\ \A i \in 1..(m - 1 + 1) : SubSeq(t, 1, m)[i] = t[1 + i - 1]
      <3>1. 1 \in Int /\ m \in Int
        BY <1>1
      <3> QED
        BY <2>2, <3>1, SubSeqProperties
    <2>4. Len(SubSeq(t, 1, m)) = m /\ \A i \in 1..m : SubSeq(t, 1, m)[i] = t[i]
      <3> PICK u : u = SubSeq(t, 1, m)
        OBVIOUS
      <3>1. Len(u) = m
        BY <1>1, <2>3
      <3>2. ASSUME NEW i \in 1..m PROVE u[i] = t[i]
        <4>1. i \in 1..(m - 1 + 1) /\ 1 + i - 1 = i
          BY <1>1
        <4> QED
          BY <2>3, <4>1
      <3> QED
        BY <3>1, <3>2
    <2>5. ASSUME \A i \in 1..m : s[i] = t[i] PROVE s = SubSeq(t, 1, m)
      BY <2>3, <2>4, <2>5, SeqEqual
    <2> QED
      BY <2>1, <2>4, <2>5
  <1> QED
    BY <1>1, <1>2 DEF IsPrefix

\* Being a prefix is an order, and linear on the prefixes of one sequence.
LEMMA PrefixOrder ==
  ASSUME NEW S
  PROVE  /\ \A s \in Seq(S) : IsPrefix(s, s)
         /\ \A s, t, u \in Seq(S) : IsPrefix(s, t) /\ IsPrefix(t, u) => IsPrefix(s, u)
         /\ \A s, t \in Seq(S) : IsPrefix(s, t) /\ s # t => Len(s) < Len(t)
         /\ \A s, t, u \in Seq(S) : IsPrefix(s, u) /\ IsPrefix(t, u) /\ Len(s) <= Len(t) => IsPrefix(s, t)
         /\ \A s, t, u \in Seq(S) : IsPrefix(s, u) /\ IsPrefix(t, u) /\ Len(s) = Len(t) => s = t
         /\ \A t \in Seq(S) : IsPrefix(<<>>, t)
  <1> PICK Q : Q = Seq(S)
    OBVIOUS
  <1>1. \A s \in Q : Len(s) \in Nat
    BY LenProperties
  <1>2. \A s, t \in Q : IsPrefix(s, t) <=> Len(s) <= Len(t) /\ \A i \in 1..Len(s) : s[i] = t[i]
    BY PrefixIs
  <1>3. \A s, t \in Q : Len(s) = Len(t) /\ (\A i \in 1..Len(s) : s[i] = t[i]) => s = t
    BY SeqEqual
  <1>4. \A s \in Q : IsPrefix(s, s)
    BY <1>1, <1>2
  <1>5. ASSUME NEW s \in Q, NEW t \in Q, NEW u \in Q, IsPrefix(s, t), IsPrefix(t, u) PROVE IsPrefix(s, u)
    <2>1. /\ Len(s) <= Len(t) /\ Len(t) <= Len(u)
          /\ \A i \in 1..Len(s) : s[i] = t[i]
          /\ \A i \in 1..Len(t) : t[i] = u[i]
      BY <1>2, <1>5
    <2>2. \A i \in 1..Len(s) : i \in 1..Len(t)
      BY <1>1, <2>1
    <2>3. Len(s) <= Len(u)
      BY <1>1, <2>1
    <2> QED
      BY <1>2, <2>1, <2>2, <2>3
  <1>6. ASSUME NEW s \in Q, NEW t \in Q, IsPrefix(s, t), s # t PROVE Len(s) < Len(t)
    <2>1. Len(s) <= Len(t) /\ Len(s) # Len(t)
      BY <1>2, <1>3, <1>6
    <2> QED
      BY <1>1, <2>1
  <1>7. ASSUME NEW s \in Q, NEW t \in Q, NEW u \in Q, IsPrefix(s, u), IsPrefix(t, u), Len(s) <= Len(t)
        PROVE  IsPrefix(s, t)
    <2>1. (\A i \in 1..Len(s) : s[i] = u[i]) /\ \A i \in 1..Len(t) : t[i] = u[i]
      BY <1>2, <1>7
    <2>2. \A i \in 1..Len(s) : i \in 1..Len(t)
      BY <1>1, <1>7
    <2> QED
      BY <1>2, <1>7, <2>1, <2>2
  <1>8. ASSUME NEW s \in Q, NEW t \in Q, NEW u \in Q, IsPrefix(s, u), IsPrefix(t, u), Len(s) = Len(t)
        PROVE  s = t
    <2>1. Len(s) \in Nat /\ Len(t) \in Nat /\ Len(s) <= Len(t) /\ ~(Len(s) < Len(t))
      BY <1>1, <1>8
    <2>2. IsPrefix(s, t)
      BY <1>7, <1>8, <2>1
    <2> QED
      BY <1>6, <2>1, <2>2
  <1>9. ASSUME NEW t \in Q PROVE IsPrefix(<<>>, t)
    <2> PICK e : e = <<>>
      OBVIOUS
    <2>1. e \in Q /\ Len(e) = 0
      BY EmptySeq
    <2>2. Len(e) <= Len(t)
      BY <1>1, <2>1
    <2>3. \A i \in 1..Len(e) : FALSE
      BY <2>1
    <2> QED
      BY <1>2, <2>1, <2>2, <2>3
  <1> QED
    BY <1>4, <1>5, <1>6, <1>7, <1>8, <1>9

\* Paths of a site that one path starts with are prefixes of one another.
LEMMA PathOrder ==
  /\ \A s \in Paths : IsPrefix(s, s) /\ IsPrefix(<<>>, s) /\ Len(s) \in Nat
  /\ \A s, t, u \in Paths : IsPrefix(s, t) /\ IsPrefix(t, u) => IsPrefix(s, u)
  /\ \A s, t \in Paths : IsPrefix(s, t) => Len(s) <= Len(t)
  /\ \A s, t \in Paths : IsPrefix(s, t) /\ s # t => Len(s) < Len(t)
  /\ \A s, t, u \in Paths : IsPrefix(s, u) /\ IsPrefix(t, u) /\ Len(s) <= Len(t) => IsPrefix(s, t)
  /\ \A s, t, u \in Paths : IsPrefix(s, u) /\ IsPrefix(t, u) /\ Len(s) = Len(t) => s = t
  <1> PICK Q : Q = Seq(Characters)
    OBVIOUS
  <1>1. Paths \subseteq Q
    BY PathsAssumption
  <1>2. \A s \in Q : Len(s) \in Nat
    BY LenProperties
  <1>3. \A s, t \in Q : IsPrefix(s, t) => Len(s) <= Len(t)
    BY DEF IsPrefix
  <1>4. /\ \A s \in Q : IsPrefix(s, s)
        /\ \A s, t, u \in Q : IsPrefix(s, t) /\ IsPrefix(t, u) => IsPrefix(s, u)
        /\ \A s, t \in Q : IsPrefix(s, t) /\ s # t => Len(s) < Len(t)
        /\ \A s, t, u \in Q : IsPrefix(s, u) /\ IsPrefix(t, u) /\ Len(s) <= Len(t) => IsPrefix(s, t)
        /\ \A s, t, u \in Q : IsPrefix(s, u) /\ IsPrefix(t, u) /\ Len(s) = Len(t) => s = t
        /\ \A t \in Q : IsPrefix(<<>>, t)
    BY PrefixOrder
  <1> QED
    BY <1>1, <1>2, <1>3, <1>4

\* Of paths that one path starts with there is a longest.
LEMMA LongestExists ==
  ASSUME NEW path \in Paths, NEW C, C \subseteq {c \in Paths : IsPrefix(c, path)}, C # {}
  PROVE  \E c \in C : \A d \in C : Len(d) <= Len(c)
  <1> DEFINE lengths == {Len(c) : c \in C}
  <1> PICK N : N = Len(path)
    OBVIOUS
  <1>1. N \in Nat /\ \A c \in C : Len(c) \in Nat /\ Len(c) <= N
    BY PathOrder
  <1>2. lengths \subseteq 0..N /\ lengths # {}
    <2>1. PICK c \in C : TRUE
      OBVIOUS
    <2>2. Len(c) \in lengths
      OBVIOUS
    <2>3. ASSUME NEW n \in lengths PROVE n \in 0..N
      <3>1. PICK d \in C : n = Len(d)
        BY <2>3
      <3>2. n \in Nat /\ n <= N
        BY <1>1, <3>1
      <3> HIDE DEF lengths
      <3> QED
        BY <1>1, <3>2
    <2> QED
      BY <2>2, <2>3
  <1>3. PICK m \in lengths : \A n \in lengths : n <= m
    <2> HIDE DEF lengths
    <2> QED
      BY <1>1, <1>2, LargestNumber
  <1>4. PICK c \in C : m = Len(c)
    BY <1>3
  <1>5. \A d \in C : Len(d) \in lengths
    OBVIOUS
  <1> QED
    BY <1>3, <1>4, <1>5

-----------------------------------------------------------------------------
(* policy eval and the handler                                             *)

\* No decision of a policy is an error.
LEMMA ErrorIsNone ==
  /\ Error \notin Actions
  /\ \A d \in Actions : d.type \in {"allow", "block", "rate_limit"}
  /\ \A d \in Actions : d.type = "rate_limit" => d.rpm \in Rpms
  BY DEF Error, Actions

\* A rule that `policy eval' reads as the handler does, or breaks on.
ReadAlike(q, r) ==
  q.test = "query" \/ (q.test \in {"label", "header"} /\ q.absent # "breaks") =>
    (Matches(q, EdgeInput(r)) <=> Matches(q, EvalInput(r)))

\* What such a rule says to who knows less: it matches no more, and where it says
\* nothing it says nothing at the edge.
LEMMA KnowsLess ==
  ASSUME NEW q \in Rules, NEW r, ReadAlike(q, r)
  PROVE  /\ Matches(q, EvalInput(r)) => Matches(q, EdgeInput(r)) /\ ~Breaks(q, EdgeInput(r))
         /\ Matches(q, EdgeInput(r)) \/ Breaks(q, EdgeInput(r)) =>
              Matches(q, EvalInput(r)) \/ Breaks(q, EvalInput(r))
  <1> PICK in, less : in = EdgeInput(r) /\ less = EvalInput(r)
    OBVIOUS
  <1>1. /\ less.bot = in.bot /\ less.path = in.path /\ less.verified = in.verified
        /\ less.claimed = in.claimed /\ in.labels = TRUE /\ less.labels = FALSE
        /\ less.header = "absent" /\ less.query = "absent"
    BY DEF EdgeInput, EvalInput
  <1>2. q.test \in Tests /\ q.absent \in Absences
    BY DEF Rules
  <1>3. CASE q.test \in {"prefix", "exact", "verified", "claimed"}
    <2>1. Found(q, in) = "other" /\ Found(q, less) = "other"
      BY <1>3 DEF Found
    <2>2. Matches(q, in) <=> Matches(q, less)
      BY <1>1, <2>1 DEF Matches
    <2>3. ~Breaks(q, in) /\ ~Breaks(q, less)
      BY <2>1 DEF Breaks
    <2> QED
      BY <2>2, <2>3
  <1>4. CASE q.test \in {"label", "header"} /\ q.absent = "breaks"
    <2>1. Found(q, less) = "absent"
      BY <1>1, <1>4 DEF Found
    <2>2. ~Matches(q, less)
      BY <1>4, <2>1 DEF Matches
    <2>3. (Matches(q, in) \/ Breaks(q, in)) => Breaks(q, less)
      BY <1>1, <1>4, <2>1 DEF Matches, Breaks
    <2> QED
      BY <2>2, <2>3
  <1>5. CASE q.test = "query" \/ (q.test \in {"label", "header"} /\ q.absent # "breaks")
    <2>1. Matches(q, in) <=> Matches(q, less)
      BY <1>5 DEF ReadAlike
    <2>2. ~Breaks(q, in) /\ ~Breaks(q, less)
      BY <1>5 DEF Breaks
    <2> QED
      BY <2>1, <2>2
  <1> QED
    BY <1>2, <1>3, <1>4, <1>5 DEF Tests

\* An answer that is not an error is the answer of the edge, if the rules that
\* `policy eval' comes to are read alike.
LEMMA EvalIsEdge ==
  ASSUME NEW p \in Policies, NEW r, EvalDecision(NewEngine(p), r) # Error,
         \A q \in Range(p.rules) :
           (\A o \in Range(p.rules) : Before(o, q) => ~Matches(o, EvalInput(r))) => ReadAlike(q, r)
  PROVE  /\ Evaluate(NewEngine(p), EdgeInput(r)) = EvalDecision(NewEngine(p), r)
         /\ EvalDecision(NewEngine(p), r) \in Actions
  <1> PICK rules, engine, in, less, d : /\ rules = p.rules /\ engine = NewEngine(p)
                                        /\ in = EdgeInput(r) /\ less = EvalInput(r)
                                        /\ d = EvalDecision(engine, r)
    OBVIOUS
  <1>1. rules \in Seq(Rules) /\ Distinct(rules) /\ p.default \in Actions /\ Range(rules) \subseteq Rules
    BY PolicyIs
  <1>2. engine = [rules |-> Compiled(rules), default |-> p.default]
    BY DEF NewEngine
  <1>3. d = Evaluate(engine, less)
    BY DEF EvalDecision
  <1> DEFINE Reached(q) == \A o \in Range(rules) : Before(o, q) => ~Matches(o, less)
  <1>4. \A q \in Range(rules) : Reached(q) /\ Matches(q, less) => Matches(q, in) /\ ~Breaks(q, in)
    BY <1>1, KnowsLess
  <1>5. \A q \in Range(rules) : Reached(q) /\ q \in Ending(rules, in) => q \in Ending(rules, less)
    BY <1>1, KnowsLess DEF Ending
  <1>6. \A q \in Rules : ~Before(q, q)
    BY BeforeOrders
  <1>7. \/ Ending(rules, less) = {} /\ d = p.default
        \/ \E q \in Range(rules) : Decides(rules, less, q) /\ d = IF Breaks(q, less) THEN Error ELSE q.action
    <2>1. \/ Ending(rules, less) = {} /\ Evaluate(engine, less) = p.default
          \/ \E q \in Range(rules) :
               Decides(rules, less, q) /\ Evaluate(engine, less) = IF Breaks(q, less) THEN Error ELSE q.action
      BY <1>1, <1>2, EvaluateIs
    <2> QED
      BY <1>3, <2>1
  <1>8. \/ Ending(rules, in) = {} /\ Evaluate(engine, in) = p.default
        \/ \E q \in Range(rules) :
             Decides(rules, in, q) /\ Evaluate(engine, in) = IF Breaks(q, in) THEN Error ELSE q.action
    BY <1>1, <1>2, EvaluateIs
  <1>9. CASE Ending(rules, less) = {}
    <2>1. d = p.default
      BY <1>7, <1>9 DEF Decides
    <2>2. \A q \in Range(rules) : ~Matches(q, less)
      BY <1>9 DEF Ending
    <2>3. Ending(rules, in) = {}
      <3>1. Ending(rules, in) \subseteq Range(rules)
        BY DEF Ending
      <3> QED
        BY <1>5, <1>9, <2>2, <3>1
    <2>4. Evaluate(engine, in) = p.default
      BY <1>8, <2>3 DEF Decides
    <2> QED
      BY <1>1, <2>1, <2>4
  <1>10. CASE Ending(rules, less) # {}
    <2>1. PICK q \in Range(rules) : Decides(rules, less, q) /\ d = IF Breaks(q, less) THEN Error ELSE q.action
      BY <1>7, <1>10
    <2>2. ~Breaks(q, less) /\ d = q.action /\ q \in Rules
      BY <1>1, <2>1
    <2>3. Matches(q, less)
      BY <2>1, <2>2 DEF Decides, Ending
    <2>4. ASSUME NEW o \in Range(rules), Before(o, q) PROVE o \notin Ending(rules, less) /\ Reached(o)
      <3>1. ASSUME NEW e \in Ending(rules, less) PROVE ~Before(e, q)
        <4>1. e \in Rules /\ (e = q \/ Before(q, e))
          BY <1>1, <2>1, <3>1 DEF Decides, Ending
        <4> SUFFICES ASSUME Before(e, q) PROVE FALSE
          OBVIOUS
        <4>2. Before(q, q)
          BY <2>2, <4>1, BeforeOrders
        <4> QED
          BY <1>6, <2>2, <4>2
      <3>2. o \notin Ending(rules, less)
        BY <2>4, <3>1
      <3>3. ASSUME NEW x \in Range(rules), Before(x, o) PROVE ~Matches(x, less)
        <4>1. x \in Rules /\ o \in Rules
          BY <1>1
        <4>2. Before(x, q)
          BY <2>2, <2>4, <3>3, <4>1, BeforeOrders
        <4>3. x \notin Ending(rules, less)
          BY <3>1, <4>2
        <4> QED
          BY <4>3 DEF Ending
      <3> QED
        BY <3>2, <3>3
    <2>5. Reached(q)
      BY <2>4 DEF Ending
    <2>6. Matches(q, in) /\ ~Breaks(q, in)
      BY <1>4, <2>1, <2>3, <2>5
    <2>7. q \in Ending(rules, in)
      BY <2>1, <2>6 DEF Ending
    <2>8. PICK o \in Range(rules) :
            Decides(rules, in, o) /\ Evaluate(engine, in) = IF Breaks(o, in) THEN Error ELSE o.action
      BY <1>8, <2>7
    <2>9. o = q
      <3> SUFFICES ASSUME o # q PROVE FALSE
        OBVIOUS
      <3>1. Before(o, q) /\ o \in Ending(rules, in)
        BY <2>7, <2>8 DEF Decides
      <3>2. o \notin Ending(rules, less) /\ Reached(o)
        BY <2>4, <3>1
      <3> HIDE DEF Reached
      <3> QED
        BY <1>5, <3>1, <3>2
    <2>10. q.action \in Actions
      BY <2>2 DEF Rules
    <2> QED
      BY <2>2, <2>6, <2>8, <2>9, <2>10
  <1> QED
    BY <1>9, <1>10

\* The statuses of one decision.
LEMMA StatusPredicted ==
  ASSUME NEW engine, NEW r, NEW failMode, NEW robots \in BOOLEAN,
         EdgeDecision(engine, r, failMode) \in Actions,
         ~(robots /\ r.path = RobotsPath), ~(Proof(r) = "error" /\ failMode = "block")
  PROVE  LET d == EdgeDecision(engine, r, failMode)
             answers == EdgeStatuses(engine, robots, r, failMode)
         IN PredictedStatus(d) \in answers /\ answers \subseteq {OK, PredictedStatus(d)}
  <1> PICK d, answers : /\ d = EdgeDecision(engine, r, failMode)
                        /\ answers = EdgeStatuses(engine, robots, r, failMode)
    OBVIOUS
  <1>1. d.type \in {"allow", "block", "rate_limit"}
    BY ErrorIsNone
  <1>2. answers = CASE d.type = "block" -> {BlockStatus(d)}
                    [] d.type = "rate_limit" -> {OK, TooManyRequests}
                    [] OTHER -> {OK}
    BY DEF EdgeStatuses
  <1>3. CASE d.type = "block"
    <2>1. answers = {BlockStatus(d)} /\ PredictedStatus(d) = BlockStatus(d)
      BY <1>2, <1>3 DEF PredictedStatus
    <2> QED
      BY <2>1
  <1>4. CASE d.type = "rate_limit"
    <2>1. answers = {OK, TooManyRequests} /\ PredictedStatus(d) = TooManyRequests
      BY <1>2, <1>4 DEF PredictedStatus
    <2> QED
      BY <2>1
  <1>5. CASE d.type = "allow"
    <2>1. answers = {OK} /\ PredictedStatus(d) = OK
      BY <1>2, <1>5 DEF PredictedStatus
    <2> QED
      BY <2>1
  <1> QED
    BY <1>1, <1>3, <1>4, <1>5

\* What the command line predicts is what the handler answers.
LEMMA Predicts ==
  ASSUME policy \in Policies
  PROVE  EvalPredicts
  <1> PICK p, engine : p = policy /\ engine = NewEngine(p)
    OBVIOUS
  <1> SUFFICES ASSUME NEW r \in Requests, NEW failMode \in FailModes,
                      EvalDecision(engine, r) # Error,
                      ~(file # {} /\ r.path = RobotsPath),
                      ~(Proof(r) = "error" /\ failMode = "block"),
                      Guesses(r) = {}
               PROVE  LET d == EvalDecision(engine, r)
                          answers == EdgeStatuses(engine, file # {}, r, failMode)
                      IN /\ EdgeDecision(engine, r, failMode) = d
                         /\ PredictedStatus(d) \in answers
                         /\ answers \subseteq {OK, PredictedStatus(d)}
    BY DEF EvalPredicts
  <1> PICK d, robots : d = EvalDecision(engine, r) /\ robots = (file # {}) /\ robots \in BOOLEAN
    OBVIOUS
  <1>1. Evaluate(engine, EdgeInput(r)) = d /\ d \in Actions
    <2>1. ASSUME NEW q \in Range(p.rules),
                 \A o \in Range(p.rules) : Before(o, q) => ~Matches(o, EvalInput(r))
          PROVE  ReadAlike(q, r)
      BY <2>1 DEF Guesses, ReadAlike
    <2> QED
      BY <2>1, EvalIsEdge
  <1>2. EdgeDecision(engine, r, failMode) = d
    BY <1>1 DEF EdgeDecision
  <1>3. LET answers == EdgeStatuses(engine, robots, r, failMode)
        IN PredictedStatus(d) \in answers /\ answers \subseteq {OK, PredictedStatus(d)}
    BY <1>1, <1>2, StatusPredicted
  <1> QED
    BY <1>2, <1>3

-----------------------------------------------------------------------------
(* The record that a crawler goes by                                       *)

\* Each record of the file is for bots whose own lines it has, and every bot that
\* the file can name is in one.
LEMMA GenerateIs ==
  ASSUME NEW p
  PROVE  /\ \A r \in Generate(p) : \A t \in r.agents :
              \E c \in Bots : t \in AgentsFor(c) /\ r.lines = LinesFor(NewEngine(p), CandidatePaths(p), c)
         /\ \A c \in Bots : \A t \in AgentsFor(c) : \E r \in Generate(p) : t \in r.agents
  <1> PICK engine, paths : engine = NewEngine(p) /\ paths = CandidatePaths(p)
    OBVIOUS
  <1> DEFINE named == {b \in Bots : AgentsFor(b) # {}}
             lines == [b \in named |-> LinesFor(engine, paths, b)]
             Sharing(b) == IF b = Wildcard THEN {b} ELSE {c \in named \ {Wildcard} : SameLines(lines[b], lines[c])}
             Record(b) == [agents |-> UNION {AgentsFor(c) : c \in Sharing(b)},
                           lines |-> lines[CHOOSE c \in Sharing(b) : TRUE]]
  <1>1. Generate(p) = {Record(b) : b \in named}
    BY DEF Generate
  <1>2. ASSUME NEW b \in named
        PROVE  b \in Sharing(b) /\ \A c \in Sharing(b) : c \in named /\ lines[c] = lines[b]
    <2> HIDE DEF named, lines
    <2>1. CASE b = Wildcard
      BY <2>1
    <2>2. CASE b # Wildcard
      BY <2>2 DEF SameLines
    <2> QED
      BY <2>1, <2>2
  <1>3. \A c \in named : c \in Bots /\ lines[c] = LinesFor(engine, paths, c)
    OBVIOUS
  <1> HIDE DEF Sharing, lines
  <1>4. ASSUME NEW b \in named
        PROVE  /\ Record(b).agents = UNION {AgentsFor(c) : c \in Sharing(b)}
               /\ Record(b).lines = lines[b]
    <2> PICK x : x = CHOOSE c \in Sharing(b) : TRUE
      OBVIOUS
    <2>1. x \in Sharing(b)
      BY <1>2
    <2>2. lines[x] = lines[b]
      BY <1>2, <2>1
    <2> QED
      BY <2>2
  <1> HIDE DEF Record
  <1>5. ASSUME NEW r \in Generate(p), NEW t \in r.agents
        PROVE  \E c \in Bots : t \in AgentsFor(c) /\ r.lines = LinesFor(engine, paths, c)
    <2>1. PICK b \in named : r = Record(b)
      BY <1>1
    <2>2. PICK c \in Sharing(b) : t \in AgentsFor(c)
      BY <1>4, <1>5, <2>1
    <2>3. c \in named /\ lines[c] = lines[b]
      BY <1>2
    <2>4. r.lines = LinesFor(engine, paths, c)
      BY <1>3, <1>4, <2>1, <2>3
    <2> QED
      BY <1>3, <2>2, <2>3, <2>4
  <1>6. ASSUME NEW c \in Bots, NEW t \in AgentsFor(c) PROVE \E r \in Generate(p) : t \in r.agents
    <2>1. c \in named
      OBVIOUS
    <2>2. Record(c) \in Generate(p)
      BY <1>1, <2>1
    <2>3. t \in Record(c).agents
      BY <1>2, <1>4, <2>1
    <2> QED
      BY <2>2, <2>3
  <1> QED
    BY <1>5, <1>6

\* A crawler that names one bot, or none, finds the lines of the bot as which the
\* handler identifies it.
LEMMA LinesOfIs ==
  ASSUME file = Generate(policy), NEW a \in Crawlers
  PROVE  /\ Identify(a) \in Bots /\ AgentsFor(Identify(a)) # {}
         /\ LinesOf(a) = LinesFor(NewEngine(policy), CandidatePaths(policy), Identify(a))
  <1> PICK L : L = [c \in Bots |-> LinesFor(NewEngine(policy), CandidatePaths(policy), c)]
    OBVIOUS
  <1> PICK F : F = file
    OBVIOUS
  <1>1. \A r \in F : \A t \in r.agents : \E c \in Bots : t \in AgentsFor(c) /\ r.lines = L[c]
    BY GenerateIs
  <1>2. \A c \in Bots : \A t \in AgentsFor(c) : \E r \in F : t \in r.agents
    BY GenerateIs
  <1>3. PICK b \in Bots : Alone(b) /\ (a = Needles[b] \/ (a = {} /\ b = Wildcard))
    <2>1. a \in {Needles[c] : c \in {d \in Bots : Alone(d)}} \/ a \in {x \in {{}} : Alone(Wildcard)}
      BY DEF Crawlers
    <2>2. CASE a \in {Needles[c] : c \in {d \in Bots : Alone(d)}}
      BY <2>2
    <2>3. CASE a \in {x \in {{}} : Alone(Wildcard)}
      BY <2>3, BotsAssumption
    <2> QED
      BY <2>1, <2>2, <2>3
  <1>4. \A c \in Bots, t \in Names(b) : t \in Names(c) => c = b
    BY <1>3 DEF Alone
  <1>5. \A c \in Bots : Needles[c] \subseteq Names(c) /\ AgentsFor(c) \subseteq Names(c)
    BY DEF Names
  <1>6. a \subseteq Names(b)
    BY <1>3, <1>5
  <1>7. b = Wildcard \/ (b # Wildcard /\ a # {} /\ a = Needles[b] /\ a = AgentsFor(b))
    BY <1>3, NeedlesAssumption DEF AgentsFor
  <1>8. AgentsFor(b) # {}
    BY <1>7 DEF AgentsFor
  <1> DEFINE own == {r \in F : r.agents \cap a # {}}
             chosen == IF own = {} THEN {q \in F : Anyone \in q.agents} ELSE own
  <1>9. ASSUME NEW r \in F, NEW t \in Names(b), t \in r.agents PROVE r.lines = L[b]
    BY <1>1, <1>4, <1>5, <1>9
  <1>10. \A r \in own : r.lines = L[b]
    BY <1>6, <1>9
  <1>11. ASSUME b = Wildcard PROVE chosen # {} /\ \A r \in chosen : r.lines = L[b]
    <2>1. Anyone \in AgentsFor(b) /\ Anyone \in Names(b)
      BY <1>5, <1>11 DEF AgentsFor
    <2>2. PICK q \in F : Anyone \in q.agents
      BY <1>2, <2>1
    <2>3. \A r \in F : Anyone \in r.agents => r.lines = L[b]
      BY <1>9, <2>1
    <2>4. CASE own = {}
      <3>1. chosen = {r \in F : Anyone \in r.agents}
        BY <2>4
      <3> QED
        BY <2>2, <2>3, <3>1
    <2>5. CASE own # {}
      <3>1. chosen = own
        BY <2>5
      <3> HIDE DEF own, chosen
      <3> QED
        BY <1>10, <2>5, <3>1
    <2> QED
      BY <2>4, <2>5
  <1>12. ASSUME b # Wildcard PROVE chosen # {} /\ \A r \in chosen : r.lines = L[b]
    <2>1. own # {}
      <3>1. PICK t \in a : t \in AgentsFor(b)
        BY <1>7, <1>12
      <3>2. PICK r \in F : t \in r.agents
        BY <1>2, <3>1
      <3> QED
        BY <3>1, <3>2
    <2>2. chosen = own
      BY <2>1
    <2> HIDE DEF own, chosen
    <2> QED
      BY <1>10, <2>1, <2>2
  <1>13. chosen # {} /\ \A r \in chosen : r.lines = L[b]
    <2> HIDE DEF chosen
    <2> QED
      BY <1>11, <1>12
  <1>14. LinesOf(a) = (CHOOSE r \in chosen : TRUE).lines
    BY DEF LinesOf
  <1>15. LinesOf(a) = L[b]
    <2> HIDE DEF chosen
    <2> PICK r : r = CHOOSE x \in chosen : TRUE
      OBVIOUS
    <2>1. r \in chosen
      BY <1>13
    <2> QED
      BY <1>13, <1>14, <2>1
  <1>16. Identify(a) = b
    <2> PICK claiming : claiming = {i \in DOMAIN Registry : Needles[Registry[i]] \cap a # {}}
      OBVIOUS
    <2>1. Registry \in [DOMAIN Registry -> Bots] /\ DOMAIN Registry \subseteq Nat
      BY RegistryAssumption, LenProperties
    <2>2. \A i \in claiming : Registry[i] = b
      BY <1>4, <1>5, <1>6, <2>1
    <2>3. CASE claiming = {}
      <3>1. b = Wildcard
        <4> SUFFICES ASSUME b # Wildcard PROVE FALSE
          OBVIOUS
        <4>1. a # {} /\ a = Needles[b]
          BY <1>7
        <4>2. PICK i \in DOMAIN Registry : Registry[i] = b
          BY RegistryAssumption DEF Range
        <4>3. i \in claiming
          BY <4>1, <4>2
        <4> QED
          BY <2>3, <4>3
      <3> QED
        BY <2>3, <3>1 DEF Identify, Claiming
    <2>4. CASE claiming # {}
      <3> PICK m : m = Min(claiming)
        OBVIOUS
      <3>1. claiming \subseteq Nat
        BY <2>1
      <3>2. m \in claiming
        BY <2>4, <3>1, FirstNumber
      <3>3. Identify(a) = Registry[m]
        BY <2>4 DEF Identify, Claiming
      <3> QED
        BY <2>2, <3>2, <3>3
    <2> QED
      BY <2>3, <2>4
  <1> QED
    BY <1>8, <1>15, <1>16

-----------------------------------------------------------------------------
(* The delay                                                               *)

\* Requests a minute apart by the delay are as many as the limit allows, or fewer.
LEMMA DelayIsLong ==
  ASSUME NEW rpm \in Nat \ {0}
  PROVE  /\ CrawlDelaySeconds(rpm) \in 0..60
         /\ \A delay \in Nat : CrawlDelaySeconds(rpm) <= delay /\ rpm < 60 => delay * rpm >= 60
  <1>1. CASE rpm >= 60
    BY <1>1 DEF CrawlDelaySeconds
  <1>2. CASE rpm < 60
    <2> PICK q : q = (60 + rpm - 1) \div rpm
      OBVIOUS
    <2>1. CrawlDelaySeconds(rpm) = q
      BY <1>2 DEF CrawlDelaySeconds
    <2>2. q \in Int /\ rpm * q <= 59 + rpm /\ 59 + rpm < rpm * q + rpm
      OBVIOUS
    <2>3. q <= 60
      <3> SUFFICES ASSUME 61 <= q PROVE FALSE
        BY <2>2
      <3> PICK k \in Nat : q = 61 + k
        <4>1. q - 61 \in Nat /\ q = 61 + (q - 61)
          BY <2>2
        <4> QED
          BY <4>1
      <3>1. rpm * q = 61 * rpm + rpm * k /\ rpm * k >= 0
        OBVIOUS
      <3> QED
        BY <2>2, <3>1
    <2>4. 0 <= q
      <3> SUFFICES ASSUME q < 0 PROVE FALSE
        BY <2>2
      <3> PICK k \in Nat : q = 0 - 1 - k
        <4>1. 0 - 1 - q \in Nat /\ q = 0 - 1 - (0 - 1 - q)
          BY <2>2
        <4> QED
          BY <4>1
      <3>1. rpm * q = 0 - rpm - rpm * k /\ rpm * k >= 0
        OBVIOUS
      <3> QED
        BY <2>2, <3>1
    <2>5. ASSUME NEW delay \in Nat, q <= delay PROVE delay * rpm >= 60
      <3> PICK k \in Nat : delay = q + k
        <4>1. delay - q \in Nat /\ delay = q + (delay - q)
          BY <2>2, <2>5
        <4> QED
          BY <4>1
      <3>1. delay * rpm = rpm * q + rpm * k /\ rpm * k >= 0
        BY <2>2
      <3> QED
        BY <2>2, <3>1
    <2> QED
      BY <2>1, <2>2, <2>3, <2>4, <2>5
  <1> QED
    BY <1>1, <1>2

\* What a policy decides is an action, or an error.
LEMMA DecisionIs ==
  ASSUME NEW p \in Policies, NEW in
  PROVE  Evaluate(NewEngine(p), in) \in Actions \cup {Error}
  <1> PICK rules, d : rules = p.rules /\ d = Evaluate(NewEngine(p), in)
    OBVIOUS
  <1>1. rules \in Seq(Rules) /\ Distinct(rules) /\ p.default \in Actions /\ Range(rules) \subseteq Rules
    BY PolicyIs
  <1>2. NewEngine(p) = [rules |-> Compiled(rules), default |-> p.default]
    BY DEF NewEngine
  <1>3. \/ Ending(rules, in) = {} /\ d = p.default
        \/ \E q \in Range(rules) : Decides(rules, in, q) /\ d = IF Breaks(q, in) THEN Error ELSE q.action
    BY <1>1, <1>2, EvaluateIs
  <1>4. \A q \in Range(rules) : q.action \in Actions
    BY <1>1 DEF Rules
  <1> QED
    BY <1>1, <1>3, <1>4

\* The paths that are probed are paths of the site, the root among them.
LEMMA CandidatesAre ==
  ASSUME NEW p \in Policies
  PROVE  CandidatePaths(p) \subseteq Paths /\ <<>> \in CandidatePaths(p)
  <1>1. p.sets \subseteq Paths /\ Range(p.rules) \subseteq Rules
    BY PolicyIs
  <1>2. \A r \in Range(p.rules) : r.path \in Paths
    BY <1>1 DEF Rules
  <1> QED
    BY <1>1, <1>2, PathsAssumption DEF CandidatePaths

\* The delay of a record is that of its slowest limit.
LEMMA LinesAre ==
  ASSUME NEW p \in Policies, NEW bot
  PROVE  LET engine == NewEngine(p)
             paths == CandidatePaths(p)
             lines == LinesFor(engine, paths, bot)
         IN /\ lines \in Lines
            /\ \A c \in paths : Decision(engine, bot, c).type = "rate_limit" =>
                 CrawlDelaySeconds(Decision(engine, bot, c).rpm) <= lines.delay
  <1> PICK engine, paths, lines : /\ engine = NewEngine(p) /\ paths = CandidatePaths(p)
                                  /\ lines = LinesFor(engine, paths, bot)
    OBVIOUS
  <1> DEFINE limits == {d \in {Decision(engine, bot, c) : c \in paths} : d.type = "rate_limit"}
             delays == {0} \cup {CrawlDelaySeconds(d.rpm) : d \in limits}
  <1>1. ASSUME NEW d \in limits PROVE d.rpm \in Nat \ {0}
    <2>1. PICK c \in paths : d = Decision(engine, bot, c)
      OBVIOUS
    <2>2. d \in Actions \cup {Error} /\ d.type = "rate_limit"
      BY <2>1, DecisionIs DEF Decision
    <2>3. d \in Actions
      BY <2>2 DEF Error
    <2> QED
      BY <2>2, <2>3, ErrorIsNone, LimitsAssumption
  <1>2. \A d \in limits : CrawlDelaySeconds(d.rpm) \in 0..60
    BY <1>1, DelayIsLong
  <1>3. delays \subseteq 0..60 /\ delays # {}
    BY <1>2
  <1> PICK m : m = Max(delays)
    OBVIOUS
  <1>4. m \in delays /\ \A n \in delays : n <= m
    <2>1. 60 \in Nat
      OBVIOUS
    <2> HIDE DEF delays
    <2> QED
      BY <1>3, <2>1, LargestNumber
  <1>5. /\ lines.delay = m
        /\ lines = [disallow |-> lines.disallow, allow |-> lines.allow, delay |-> lines.delay]
        /\ lines.disallow \subseteq paths /\ lines.allow \subseteq paths
    BY DEF LinesFor
  <1>6. paths \subseteq Paths
    BY CandidatesAre
  <1>7. lines \in Lines
    BY <1>3, <1>4, <1>5, <1>6 DEF Lines
  <1>8. ASSUME NEW c \in paths, Decision(engine, bot, c).type = "rate_limit"
        PROVE  CrawlDelaySeconds(Decision(engine, bot, c).rpm) <= lines.delay
    <2>1. Decision(engine, bot, c) \in limits
      BY <1>8
    <2>2. CrawlDelaySeconds(Decision(engine, bot, c).rpm) \in delays
      BY <2>1
    <2> QED
      BY <1>4, <1>5, <2>2
  <1> QED
    BY <1>7, <1>8

\* A plain GET of an honest crawler is what the generator asked about, but for what
\* the generator gets wrong of it.
LEMMA HonestIs ==
  ASSUME NEW a, NEW c, NEW in, in = EdgeInput(Honest(a, c)), NEW also, also = InputFor(Identify(a), c)
  PROVE  /\ in.bot = also.bot /\ in.path = also.path /\ in.labels = also.labels
         /\ in.header = also.header /\ in.query = also.query
         /\ in.claimed = also.claimed \/ "claimed" \in Misjudged(a)
         /\ in.verified = also.verified \/ "verified" \in Misjudged(a)
  <1> PICK r, bot : r = Honest(a, c) /\ bot = Identify(a)
    OBVIOUS
  <1>1. /\ r.agent = a /\ r.path = c /\ r.header = "absent" /\ r.query = "absent" /\ r.proof = "verified"
    BY DEF Honest
  <1>2. /\ in.bot = bot /\ in.path = c /\ in.labels = TRUE /\ in.header = "absent" /\ in.query = "absent"
        /\ in.claimed = Claims(a) /\ in.verified = (Proof(r) = "verified")
    BY <1>1 DEF EdgeInput
  <1>3. /\ also.bot = bot /\ also.path = c /\ also.labels = TRUE /\ also.header = "absent"
        /\ also.query = "absent" /\ also.claimed = (bot # Wildcard) /\ also.verified = (bot \in Verifiable)
    BY DEF InputFor
  <1>4. Proof(r) = "verified" <=> Claims(a) /\ bot \in Verifiable
    BY <1>1 DEF Proof
  <1>5. bot # Wildcard => Claims(a)
    BY DEF Identify, Claims
  <1>6. "claimed" \in Misjudged(a) <=> bot = Wildcard /\ Claims(a)
    BY DEF Misjudged
  <1>7. "verified" \in Misjudged(a) <=> bot = Wildcard /\ ~Claims(a) /\ Wildcard \in Verifiable
    BY DEF Misjudged
  <1>8. in.claimed = also.claimed \/ "claimed" \in Misjudged(a)
    BY <1>2, <1>3, <1>5, <1>6 DEF Claims
  <1>9. in.verified = also.verified \/ "verified" \in Misjudged(a)
    BY <1>2, <1>3, <1>4, <1>5, <1>7 DEF Claims
  <1> QED
    BY <1>2, <1>3, <1>8, <1>9

\* What the edge decides of it is what the generator was told, if no rule tests
\* what is wrong.
LEMMA HonestDecision ==
  ASSUME NEW p \in Policies, NEW a, NEW c, \A q \in Range(p.rules) : q.test \notin Misjudged(a)
  PROVE  Evaluate(NewEngine(p), EdgeInput(Honest(a, c))) = Decision(NewEngine(p), Identify(a), c)
  <1> PICK rules, in, also : /\ rules = p.rules
                             /\ in = EdgeInput(Honest(a, c)) /\ also = InputFor(Identify(a), c)
    OBVIOUS
  <1>1. rules \in Seq(Rules) /\ Distinct(rules)
    BY PolicyIs
  <1>2. NewEngine(p) = [rules |-> Compiled(rules), default |-> p.default]
    BY DEF NewEngine
  <1>3. /\ in.bot = also.bot /\ in.path = also.path /\ in.labels = also.labels
        /\ in.header = also.header /\ in.query = also.query
        /\ in.claimed = also.claimed \/ "claimed" \in Misjudged(a)
        /\ in.verified = also.verified \/ "verified" \in Misjudged(a)
    BY HonestIs
  <1>4. ASSUME NEW q \in Range(rules)
        PROVE  (Matches(q, in) <=> Matches(q, also)) /\ (Breaks(q, in) <=> Breaks(q, also))
    <2>1. Found(q, in) = Found(q, also)
      BY <1>3 DEF Found
    <2>2. q.test = "claimed" => in.claimed = also.claimed
      BY <1>3, <1>4
    <2>3. q.test = "verified" => in.verified = also.verified
      BY <1>3, <1>4
    <2>4. Matches(q, in) <=> Matches(q, also)
      BY <1>3, <2>1, <2>2, <2>3 DEF Matches
    <2>5. Breaks(q, in) <=> Breaks(q, also)
      BY <1>3, <2>1 DEF Breaks
    <2> QED
      BY <2>4, <2>5
  <1>5. Ending(rules, in) = Ending(rules, also) /\ Ending(rules, in) \subseteq Range(rules)
    BY <1>4 DEF Ending
  <1>6. Evaluate([rules |-> Compiled(rules), default |-> p.default], in) =
          Evaluate([rules |-> Compiled(rules), default |-> p.default], also)
    BY <1>1, <1>4, <1>5, SameEnding
  <1> QED
    BY <1>2, <1>6 DEF Decision

\* What the file is once it is served.
FileInv ==
  /\ policy \in Policies
  /\ status \in {"loaded", "serving", "refused"}
  /\ file # {} => file = Generate(policy) /\ ~CannotRender

\* Who waits as the file says keeps within the limits.
LEMMA DelaysSuffice ==
  ASSUME FileInv
  PROVE  DelaySuffices
  <1> PICK engine, paths : engine = NewEngine(policy) /\ paths = CandidatePaths(policy)
    OBVIOUS
  <1> SUFFICES ASSUME file # {}, NEW a \in WellJudged, NEW c \in paths,
                      EdgeDecision(engine, Honest(a, c), "block").type = "rate_limit",
                      EdgeDecision(engine, Honest(a, c), "block").rpm < 60
               PROVE  LinesOf(a).delay * EdgeDecision(engine, Honest(a, c), "block").rpm >= 60
    BY DEF DelaySuffices
  <1> PICK bot, d, lines : /\ bot = Identify(a) /\ d = Decision(engine, bot, c)
                           /\ lines = LinesFor(engine, paths, bot)
    OBVIOUS
  <1>1. bot \in Bots /\ AgentsFor(bot) # {} /\ LinesOf(a) = lines
    BY LinesOfIs DEF FileInv, WellJudged
  <1>2. d # Error
    BY <1>1 DEF FileInv, CannotRender
  <1>3. EdgeDecision(engine, Honest(a, c), "block") = d
    <2>1. Evaluate(engine, EdgeInput(Honest(a, c))) = d
      BY HonestDecision DEF FileInv, WellJudged
    <2> QED
      BY <1>2, <2>1 DEF EdgeDecision
  <1>4. d.type = "rate_limit" /\ d.rpm < 60
    BY <1>3
  <1>5. d \in Actions \cup {Error}
    BY DecisionIs DEF FileInv, Decision
  <1>6. d.rpm \in Nat \ {0}
    BY <1>2, <1>4, <1>5, ErrorIsNone, LimitsAssumption
  <1>7. lines.delay \in Nat /\ CrawlDelaySeconds(d.rpm) <= lines.delay
    <2>1. lines \in Lines /\ CrawlDelaySeconds(d.rpm) <= lines.delay
      BY <1>4, LinesAre DEF FileInv
    <2> QED
      BY <2>1 DEF Lines
  <1>8. lines.delay * d.rpm >= 60
    BY <1>4, <1>6, <1>7, DelayIsLong
  <1> QED
    BY <1>1, <1>3, <1>8

-----------------------------------------------------------------------------
(* The lines state what is decided                                         *)

\* The lines over a path, the longest of them, and that those lines say of a path
\* what is decided there.
Over(engine, paths, bot, path) == {x \in paths : NeedsLine(engine, paths, bot, x) /\ IsPrefix(x, path)}
LongestOf(C, x) == x \in C /\ \A d \in C : Len(d) <= Len(x)
SaysOf(engine, paths, bot, path) ==
  /\ Over(engine, paths, bot, path) = {} => ~Blocked(engine, bot, path)
  /\ \A x : LongestOf(Over(engine, paths, bot, path), x) => (Blocked(engine, bot, x) <=> Blocked(engine, bot, path))

\* Two paths with the same lines over them that are decided alike.
LEMMA SaysOfAlike ==
  ASSUME NEW engine, NEW paths, NEW bot, NEW c, NEW k,
         Over(engine, paths, bot, c) = Over(engine, paths, bot, k),
         Blocked(engine, bot, c) <=> Blocked(engine, bot, k),
         SaysOf(engine, paths, bot, k)
  PROVE  SaysOf(engine, paths, bot, c)
  BY DEF SaysOf

\* A line over a path is a line over the closest prefix, if it is not the path's own.
LEMMA OverClosest ==
  ASSUME NEW engine, NEW paths, paths \subseteq Paths, NEW bot, NEW c \in Paths, NEW k \in Paths, IsPrefix(k, c),
         \A x \in Over(engine, paths, bot, c) : Len(x) <= Len(k)
  PROVE  Over(engine, paths, bot, c) = Over(engine, paths, bot, k)
  <1>1. ASSUME NEW x \in Over(engine, paths, bot, c) PROVE x \in Over(engine, paths, bot, k)
    <2>1. x \in paths /\ x \in Paths /\ NeedsLine(engine, paths, bot, x) /\ IsPrefix(x, c)
      BY DEF Over
    <2>2. IsPrefix(x, k)
      BY <2>1, PathOrder
    <2> QED
      BY <2>1, <2>2 DEF Over
  <1>2. ASSUME NEW x \in Over(engine, paths, bot, k) PROVE x \in Over(engine, paths, bot, c)
    <2>1. x \in paths /\ x \in Paths /\ NeedsLine(engine, paths, bot, x) /\ IsPrefix(x, k)
      BY DEF Over
    <2>2. IsPrefix(x, c)
      BY <2>1, PathOrder
    <2> QED
      BY <2>1, <2>2 DEF Over
  <1> QED
    BY <1>1, <1>2

\* The closest prefix of a path is its longest.
LEMMA ClosestIs ==
  ASSUME NEW paths, paths \subseteq Paths, NEW c \in Paths, Covering(paths, c) # {}
  PROVE  LET k == ClosestPrefix(paths, c)
         IN /\ k \in paths /\ k # c /\ IsPrefix(k, c)
            /\ \A x \in Covering(paths, c) : Len(x) <= Len(k)
  <1> PICK C : C = Covering(paths, c)
    OBVIOUS
  <1>1. C \subseteq {x \in Paths : IsPrefix(x, c)}
    BY DEF Covering
  <1>2. \E k \in C : \A d \in C : Len(d) <= Len(k)
    BY <1>1, LongestExists
  <1> PICK k : k = CHOOSE x \in C : \A d \in C : Len(d) <= Len(x)
    OBVIOUS
  <1>3. k \in C /\ \A d \in C : Len(d) <= Len(k)
    BY <1>2
  <1>4. k = ClosestPrefix(paths, c)
    BY DEF ClosestPrefix
  <1>5. k \in paths /\ k # c /\ IsPrefix(k, c)
    BY <1>3 DEF Covering
  <1> QED
    BY <1>3, <1>4, <1>5

\* A path whose shorter candidates have their decisions stated has its own stated.
LEMMA SaysNext ==
  ASSUME NEW engine, NEW paths, paths \subseteq Paths, NEW bot, NEW c \in paths,
         \A k \in paths : Len(k) < Len(c) => SaysOf(engine, paths, bot, k)
  PROVE  SaysOf(engine, paths, bot, c)
  <1> PICK O : O = Over(engine, paths, bot, c)
    OBVIOUS
  <1>1. \A x \in O : x \in paths /\ x \in Paths /\ NeedsLine(engine, paths, bot, x) /\ IsPrefix(x, c)
    BY DEF Over
  <1>2. CASE NeedsLine(engine, paths, bot, c)
    <2>1. c \in O
      BY <1>2, PathOrder DEF Over
    <2>2. ASSUME NEW x, LongestOf(O, x) PROVE x = c
      <3>1. x \in O /\ Len(c) <= Len(x)
        BY <2>1, <2>2 DEF LongestOf
      <3>2. x \in Paths /\ IsPrefix(x, c) /\ Len(x) \in Nat /\ Len(c) \in Nat
        BY <1>1, <3>1, PathOrder
      <3>3. x # c => Len(x) < Len(c)
        BY <3>2, PathOrder
      <3> QED
        BY <3>1, <3>2, <3>3
    <2> QED
      BY <2>1, <2>2 DEF SaysOf
  <1>3. CASE ~NeedsLine(engine, paths, bot, c) /\ Covering(paths, c) = {}
    <2>1. ~Blocked(engine, bot, c)
      BY <1>3 DEF NeedsLine
    <2>2. ASSUME NEW x \in O PROVE FALSE
      <3>1. x # c
        BY <1>1, <1>3
      <3>2. x \in Covering(paths, c)
        BY <1>1, <3>1 DEF Covering
      <3> QED
        BY <1>3, <3>2
    <2> QED
      BY <2>1, <2>2 DEF SaysOf, LongestOf
  <1>4. CASE ~NeedsLine(engine, paths, bot, c) /\ Covering(paths, c) # {}
    <2> PICK k : k = ClosestPrefix(paths, c)
      OBVIOUS
    <2>1. /\ k \in paths /\ k # c /\ IsPrefix(k, c)
          /\ \A x \in Covering(paths, c) : Len(x) <= Len(k)
      BY <1>4, ClosestIs
    <2>2. Blocked(engine, bot, c) <=> Blocked(engine, bot, k)
      BY <1>4 DEF NeedsLine, Blocked
    <2>3. SaysOf(engine, paths, bot, k)
      BY <2>1, PathOrder
    <2>4. ASSUME NEW x \in O PROVE Len(x) <= Len(k)
      <3>1. x # c
        BY <1>1, <1>4
      <3>2. x \in Covering(paths, c)
        BY <1>1, <3>1 DEF Covering
      <3> QED
        BY <2>1, <3>2
    <2>5. O = Over(engine, paths, bot, k)
      BY <2>1, <2>4, OverClosest
    <2> QED
      BY <2>2, <2>3, <2>5, SaysOfAlike
  <1> QED
    BY <1>2, <1>3, <1>4

\* Every candidate has its decision stated: of those that have not, one would be
\* shortest.
LEMMA SaysAll ==
  ASSUME NEW engine, NEW paths, paths \subseteq Paths, NEW bot
  PROVE  \A c \in paths : SaysOf(engine, paths, bot, c)
  <1> DEFINE unsaid == {c \in paths : ~SaysOf(engine, paths, bot, c)}
             lengths == {Len(c) : c \in unsaid}
  <1> SUFFICES ASSUME unsaid # {} PROVE FALSE
    OBVIOUS
  <1>1. \A c \in paths : Len(c) \in Nat
    BY PathOrder
  <1>2. lengths \subseteq Nat /\ lengths # {}
    BY <1>1
  <1>3. PICK m \in lengths : \A n \in lengths : m <= n
    <2> HIDE DEF lengths
    <2> QED
      BY <1>2, FirstNumber
  <1>4. PICK c \in unsaid : m = Len(c)
    BY <1>3
  <1>5. ASSUME NEW k \in paths, Len(k) < Len(c) PROVE SaysOf(engine, paths, bot, k)
    <2> SUFFICES ASSUME k \in unsaid PROVE FALSE
      OBVIOUS
    <2>1. Len(k) \in lengths
      OBVIOUS
    <2>2. Len(c) <= Len(k)
      BY <1>3, <1>4, <2>1
    <2> QED
      BY <1>1, <1>5, <2>2
  <1>6. SaysOf(engine, paths, bot, c)
    BY <1>5, SaysNext
  <1> QED
    BY <1>6

-----------------------------------------------------------------------------
(* What a crawler reads and what it meets                                  *)

\* What a crawler reads out of lines that state what is decided.
LEMMA FetchableIs ==
  ASSUME NEW engine, NEW paths, paths \subseteq Paths, NEW bot, NEW c \in Paths, c # RobotsPath,
         SaysOf(engine, paths, bot, c)
  PROVE  Fetchable(LinesFor(engine, paths, bot), c) <=> ~Blocked(engine, bot, c)
  <1> PICK lines : lines = LinesFor(engine, paths, bot)
    OBVIOUS
  <1> PICK O : O = Over(engine, paths, bot, c)
    OBVIOUS
  <1>1. /\ lines.disallow = {x \in paths : NeedsLine(engine, paths, bot, x) /\ Blocked(engine, bot, x)}
        /\ lines.allow = {x \in paths : NeedsLine(engine, paths, bot, x) /\ ~Blocked(engine, bot, x)}
    BY DEF LinesFor
  <1>2. {x \in lines.disallow \cup lines.allow : IsPrefix(x, c)} = O
    BY <1>1 DEF Over
  <1>3. Fetchable(lines, c) <=> O = {} \/ \E x \in O : (\A d \in O : Len(d) <= Len(x)) /\ x \in lines.allow
    BY <1>2 DEF Fetchable
  <1>4. \A x \in O : x \in lines.allow <=> ~Blocked(engine, bot, x)
    BY <1>1 DEF Over
  <1>5. \A x : LongestOf(O, x) => (Blocked(engine, bot, x) <=> Blocked(engine, bot, c))
    BY DEF SaysOf
  <1>6. CASE O = {}
    BY <1>3, <1>6 DEF SaysOf
  <1>7. CASE O # {}
    <2>1. O \subseteq {x \in Paths : IsPrefix(x, c)}
      BY DEF Over
    <2>2. PICK x \in O : \A d \in O : Len(d) <= Len(x)
      BY <1>7, <2>1, LongestExists
    <2>3. Blocked(engine, bot, x) <=> Blocked(engine, bot, c)
      BY <1>5, <2>2 DEF LongestOf
    <2>4. ASSUME Fetchable(lines, c) PROVE ~Blocked(engine, bot, c)
      BY <1>3, <1>4, <1>5, <1>7, <2>4 DEF LongestOf
    <2>5. ASSUME ~Blocked(engine, bot, c) PROVE Fetchable(lines, c)
      BY <1>3, <1>4, <2>2, <2>3, <2>5
    <2> QED
      BY <2>4, <2>5
  <1> QED
    BY <1>6, <1>7

\* Who is refused a plain GET.
LEMMA RefusesIs ==
  ASSUME NEW engine, NEW a, NEW c, Decision(engine, Identify(a), c) \in Actions,
         Evaluate(engine, EdgeInput(Honest(a, c))) = Decision(engine, Identify(a), c)
  PROVE  Refuses(engine, a, c) <=> c # RobotsPath /\ Blocked(engine, Identify(a), c)
  <1> PICK d, r : d = Decision(engine, Identify(a), c) /\ r = Honest(a, c)
    OBVIOUS
  <1>1. r.path = c /\ Proof(r) # "error"
    BY DEF Honest, Proof
  <1>2. EdgeDecision(engine, r, "block") = d
    BY ErrorIsNone DEF EdgeDecision
  <1>3. Refuses(engine, a, c) <=> OK \notin EdgeStatuses(engine, TRUE, r, "block")
    BY DEF Refuses
  <1>4. Blocked(engine, Identify(a), c) <=> d.type = "block"
    BY DEF Blocked
  <1>5. CASE c = RobotsPath
    BY <1>1, <1>3, <1>5 DEF EdgeStatuses
  <1>6. CASE c # RobotsPath
    <2>1. EdgeStatuses(engine, TRUE, r, "block") =
            CASE d.type = "block" -> {BlockStatus(d)}
              [] d.type = "rate_limit" -> {OK, TooManyRequests}
              [] OTHER -> {OK}
      BY <1>1, <1>2, <1>6 DEF EdgeStatuses
    <2>2. d.type \in {"allow", "block", "rate_limit"}
      BY ErrorIsNone
    <2>3. CASE d.type = "block"
      <3>1. EdgeStatuses(engine, TRUE, r, "block") = {BlockStatus(d)}
        BY <2>1, <2>3
      <3>2. BlockStatus(d) # OK
        BY <2>3 DEF BlockStatus, OK, Forbidden, Actions, Gone
      <3> QED
        BY <1>3, <1>4, <1>6, <2>3, <3>1, <3>2
    <2>4. CASE d.type # "block"
      <3>1. OK \in EdgeStatuses(engine, TRUE, r, "block")
        BY <2>1, <2>2, <2>4
      <3> QED
        BY <1>3, <1>4, <2>4, <3>1
    <2> QED
      BY <2>3, <2>4
  <1> QED
    BY <1>5, <1>6

\* Rules that test for prefixes only decide for a path as for its longest candidate.
LEMMA DecidedAsLongest ==
  ASSUME NEW p \in Policies, \A r \in Range(p.rules) : r.test \in {"prefix", "verified", "claimed"},
         NEW bot, NEW c \in Paths, NEW k \in CandidatePaths(p), IsPrefix(k, c),
         \A x \in CandidatePaths(p) : IsPrefix(x, c) => Len(x) <= Len(k)
  PROVE  /\ Decision(NewEngine(p), bot, c) = Decision(NewEngine(p), bot, k)
         /\ Decision(NewEngine(p), bot, c) \in Actions
  <1> PICK rules, in, also : rules = p.rules /\ in = InputFor(bot, c) /\ also = InputFor(bot, k)
    OBVIOUS
  <1>1. rules \in Seq(Rules) /\ Distinct(rules) /\ p.default \in Actions /\ Range(rules) \subseteq Rules
    BY PolicyIs
  <1>2. NewEngine(p) = [rules |-> Compiled(rules), default |-> p.default]
    BY DEF NewEngine
  <1>3. k \in Paths /\ \A r \in Range(rules) : r.path \in CandidatePaths(p) /\ r.path \in Paths
    BY CandidatesAre DEF CandidatePaths
  <1>4. \A r \in Range(rules) : IsPrefix(r.path, c) <=> IsPrefix(r.path, k)
    BY <1>3, PathOrder
  <1>5. /\ in.bot = bot /\ in.path = c /\ also.bot = bot /\ also.path = k
        /\ also.verified = in.verified /\ also.claimed = in.claimed
    BY DEF InputFor
  <1>6. \A r \in Range(rules) : Found(r, in) = "other" /\ Found(r, also) = "other" /\ r.test # "exact"
    BY DEF Found
  <1>7. \A r \in Range(rules) : ~Breaks(r, in) /\ ~Breaks(r, also) /\ (Matches(r, in) <=> Matches(r, also))
    BY <1>4, <1>5, <1>6 DEF Breaks, Matches
  <1>8. Ending(rules, in) = Ending(rules, also)
    BY <1>7 DEF Ending
  <1>9. Evaluate(NewEngine(p), in) = Evaluate(NewEngine(p), also)
    BY <1>1, <1>2, <1>7, <1>8, SameEnding DEF Ending
  <1>10. Evaluate(NewEngine(p), in) \in Actions
    <2> PICK d : d = Evaluate(NewEngine(p), in)
      OBVIOUS
    <2>1. \/ Ending(rules, in) = {} /\ d = p.default
          \/ \E q \in Range(rules) : Decides(rules, in, q) /\ d = IF Breaks(q, in) THEN Error ELSE q.action
      BY <1>1, <1>2, EvaluateIs
    <2>2. \A q \in Range(rules) : q.action \in Actions
      BY <1>1 DEF Rules
    <2> QED
      BY <1>1, <1>7, <2>1, <2>2
  <1> QED
    BY <1>9, <1>10 DEF Decision

\* Of the candidates that a path starts with one is longest.
LEMMA LongestCandidate ==
  ASSUME NEW p \in Policies, NEW c \in Paths
  PROVE  \E k \in CandidatePaths(p) :
           /\ IsPrefix(k, c)
           /\ \A x \in CandidatePaths(p) : IsPrefix(x, c) => Len(x) <= Len(k)
  <1> DEFINE C == {x \in CandidatePaths(p) : IsPrefix(x, c)}
  <1>1. C \subseteq {x \in Paths : IsPrefix(x, c)}
    BY CandidatesAre
  <1>2. <<>> \in C
    BY CandidatesAre, PathOrder
  <1>3. PICK k \in C : \A x \in C : Len(x) <= Len(k)
    <2> HIDE DEF C
    <2> QED
      BY <1>1, <1>2, LongestExists
  <1> QED
    BY <1>3

\* The file says what the handler answers.
LEMMA FileSays ==
  ASSUME FileInv
  PROVE  FileAgrees
  <1> PICK p, engine, paths : p = policy /\ engine = NewEngine(p) /\ paths = CandidatePaths(p)
    OBVIOUS
  <1> DEFINE prefixesOnly == \A r \in Range(p.rules) : r.test \in {"prefix", "verified", "claimed"}
  <1> SUFFICES ASSUME file # {}, NEW a \in WellJudged, NEW c, c \in IF prefixesOnly THEN Paths ELSE paths
               PROVE  AgreesAt(engine, a, c)
    BY DEF FileAgrees
  <1> PICK bot : bot = Identify(a)
    OBVIOUS
  <1>1. p \in Policies /\ file = Generate(p) /\ ~CannotRender
    BY DEF FileInv
  <1>2. bot \in Bots /\ AgentsFor(bot) # {} /\ LinesOf(a) = LinesFor(engine, paths, bot)
    BY <1>1, LinesOfIs DEF WellJudged
  <1>3. paths \subseteq Paths /\ <<>> \in paths
    BY <1>1, CandidatesAre
  <1>4. \A x \in paths : Decision(engine, bot, x) \in Actions
    <2>1. \A x \in paths : Decision(engine, bot, x) # Error
      BY <1>1, <1>2 DEF CannotRender
    <2>2. \A x \in paths : Decision(engine, bot, x) \in Actions \cup {Error}
      BY <1>1, DecisionIs DEF Decision
    <2> QED
      BY <2>1, <2>2
  <1>5. \A x \in paths : SaysOf(engine, paths, bot, x)
    BY <1>3, SaysAll
  <1>6. c \in Paths /\ Decision(engine, bot, c) \in Actions /\ SaysOf(engine, paths, bot, c)
    <2>1. CASE ~prefixesOnly
      BY <1>3, <1>4, <1>5, <2>1
    <2>2. CASE prefixesOnly
      <3>1. c \in Paths
        BY <2>2
      <3>2. PICK k \in paths : IsPrefix(k, c) /\ \A x \in paths : IsPrefix(x, c) => Len(x) <= Len(k)
        BY <1>1, <3>1, LongestCandidate
      <3>3. Decision(engine, bot, c) = Decision(engine, bot, k) /\ Decision(engine, bot, c) \in Actions
        BY <1>1, <2>2, <3>1, <3>2, DecidedAsLongest
      <3>4. \A x \in Over(engine, paths, bot, c) : Len(x) <= Len(k)
        BY <3>2 DEF Over
      <3>5. k \in Paths
        BY <1>3
      <3>6. Over(engine, paths, bot, c) = Over(engine, paths, bot, k)
        BY <1>3, <3>1, <3>2, <3>4, <3>5, OverClosest
      <3>7. Blocked(engine, bot, c) <=> Blocked(engine, bot, k)
        BY <3>3 DEF Blocked
      <3>8. SaysOf(engine, paths, bot, c)
        BY <1>5, <3>6, <3>7, SaysOfAlike
      <3> QED
        BY <3>1, <3>3, <3>8
    <2> QED
      BY <2>1, <2>2
  <1>7. Refuses(engine, a, c) <=> c # RobotsPath /\ Blocked(engine, bot, c)
    <2>1. Evaluate(engine, EdgeInput(Honest(a, c))) = Decision(engine, bot, c)
      BY <1>1, HonestDecision DEF WellJudged
    <2> QED
      BY <1>6, <2>1, RefusesIs
  <1>8. Fetchable(LinesOf(a), c) <=> ~Refuses(engine, a, c)
    <2>1. CASE c = RobotsPath
      BY <1>7, <2>1 DEF Fetchable
    <2>2. CASE c # RobotsPath
      BY <1>2, <1>3, <1>6, <1>7, <2>2, FetchableIs
    <2> QED
      BY <2>1, <2>2
  <1> QED
    BY <1>8 DEF AgreesAt

-----------------------------------------------------------------------------
(* The theorems                                                            *)

\* The records of the file are records, and a bot that shares no name is in one.
LEMMA RecordsAre ==
  ASSUME NEW p \in Policies
  PROVE  /\ Generate(p) \subseteq Records
         /\ \A b \in Bots : Alone(b) =>
              \A a \in AgentsFor(b) : \A r, s \in Generate(p) : a \in r.agents /\ a \in s.agents => r = s
  <1> PICK engine, paths : engine = NewEngine(p) /\ paths = CandidatePaths(p)
    OBVIOUS
  <1> DEFINE named == {b \in Bots : AgentsFor(b) # {}}
             lines == [b \in named |-> LinesFor(engine, paths, b)]
             Sharing(b) == IF b = Wildcard THEN {b} ELSE {c \in named \ {Wildcard} : SameLines(lines[b], lines[c])}
             Record(b) == [agents |-> UNION {AgentsFor(c) : c \in Sharing(b)},
                           lines |-> lines[CHOOSE c \in Sharing(b) : TRUE]]
  <1>1. Generate(p) = {Record(b) : b \in named}
    BY DEF Generate
  <1>2. \A b \in named : b \in Bots /\ AgentsFor(b) \subseteq Tokens
    BY DEF AgentsFor, Tokens
  <1>3. \A b \in named : lines[b] \in Lines
    BY LinesAre
  <1>4. ASSUME NEW b \in named PROVE b \in Sharing(b) /\ Sharing(b) \subseteq named
    <2> HIDE DEF named, lines
    <2>1. CASE b = Wildcard
      BY <2>1
    <2>2. CASE b # Wildcard
      BY <2>2 DEF SameLines
    <2> QED
      BY <2>1, <2>2
  <1>5. ASSUME NEW b \in named, NEW c \in Sharing(b) PROVE Sharing(c) = Sharing(b)
    <2> HIDE DEF named, lines
    <2>1. CASE b = Wildcard
      <3>1. c = Wildcard
        BY <2>1
      <3> QED
        BY <2>1, <3>1
    <2>2. CASE b # Wildcard
      <3>1. c \in named \ {Wildcard} /\ lines[b] = lines[c]
        BY <2>2 DEF SameLines
      <3>2. \A x : SameLines(lines[c], lines[x]) <=> SameLines(lines[b], lines[x])
        BY <3>1
      <3> QED
        BY <2>2, <3>1, <3>2
    <2> QED
      BY <2>1, <2>2
  <1> HIDE DEF Sharing, lines
  <1>6. ASSUME NEW b \in named PROVE Record(b) \in Records
    <2> PICK x : x = CHOOSE c \in Sharing(b) : TRUE
      OBVIOUS
    <2>1. x \in named
      BY <1>4
    <2>2. lines[x] \in Lines
      BY <1>3, <2>1
    <2>3. UNION {AgentsFor(c) : c \in Sharing(b)} \subseteq Tokens
      <3>1. \A c \in Sharing(b) : AgentsFor(c) \subseteq Tokens
        BY <1>2, <1>4
      <3> QED
        BY <3>1
    <2> QED
      BY <2>2, <2>3 DEF Records
  <1>7. ASSUME NEW b \in Bots, Alone(b), NEW a \in AgentsFor(b), NEW c \in named, a \in Record(c).agents
        PROVE  Sharing(c) = Sharing(b)
    <2>1. PICK d \in Sharing(c) : a \in AgentsFor(d)
      BY <1>7
    <2>2. d \in Bots
      BY <1>2, <1>4, <2>1
    <2>3. d = b
      BY <1>7, <2>1, <2>2 DEF Alone, Names
    <2> QED
      BY <1>5, <2>1, <2>3
  <1>8. ASSUME NEW b \in Bots, Alone(b), NEW a \in AgentsFor(b),
               NEW r \in Generate(p), NEW s \in Generate(p), a \in r.agents, a \in s.agents
        PROVE  r = s
    <2>1. PICK c \in named, d \in named : r = Record(c) /\ s = Record(d)
      BY <1>1
    <2>2. Sharing(c) = Sharing(b) /\ Sharing(d) = Sharing(b)
      <3> HIDE DEF Record, named
      <3> QED
        BY <1>7, <1>8, <2>1
    <2> QED
      BY <2>1, <2>2
  <1> HIDE DEF Record, named
  <1> QED
    BY <1>1, <1>6, <1>8

\* The types follow.
LEMMA TypesFollow ==
  ASSUME FileInv
  PROVE  TypeOK
  <1> PICK F : F = file
    OBVIOUS
  <1>1. F \subseteq Records
    BY RecordsAre DEF FileInv
  <1>2. ASSUME F # {}, NEW b \in Bots, Alone(b), NEW a \in AgentsFor(b)
        PROVE  Cardinality({r \in F : a \in r.agents}) = 1
    <2> PICK S : S = {r \in F : a \in r.agents}
      OBVIOUS
    <2>1. \A r, s \in S : r = s
      BY <1>2, RecordsAre DEF FileInv
    <2>2. PICK r \in F : a \in r.agents
      BY <1>2, GenerateIs DEF FileInv
    <2>3. S = {r}
      BY <2>1, <2>2
    <2> QED
      BY <2>3, FS_Singleton
  <1> QED
    BY <1>1, <1>2 DEF TypeOK, FileInv

\* The file, once served, is the one that Generate makes of the policy.
THEOREM RobotsFile == Spec => []FileInv
  <1>1. Init => FileInv
    BY DEF Init, FileInv
  <1>2. FileInv /\ [Next]_vars => FileInv'
    <2> SUFFICES ASSUME FileInv, [Next]_vars PROVE FileInv'
      OBVIOUS
    <2>1. CASE Provision /\ status' = "serving" /\ UNCHANGED file
      BY <2>1 DEF FileInv, Provision, CannotRender
    <2>2. CASE Provision /\ status' = "refused" /\ UNCHANGED file
      BY <2>2 DEF FileInv, Provision, CannotRender
    <2>3. CASE Provision /\ ~CannotRender /\ status' = "serving" /\ file' = Generate(policy)
      BY <2>3 DEF FileInv, Provision, CannotRender
    <2>4. CASE UNCHANGED vars
      BY <2>4 DEF FileInv, vars, CannotRender
    <2> QED
      BY <2>1, <2>2, <2>3, <2>4 DEF Next, Provision
  <1> QED
    BY <1>1, <1>2, PTL DEF Spec

\* The records that mergeGroups makes are well formed, and a bot that shares no name
\* with another has one.
THEOREM RobotsTypes == Spec => []TypeOK
  <1>1. FileInv => TypeOK
    BY TypesFollow
  <1> QED
    BY <1>1, RobotsFile, PTL

\* What a crawler reads out of the file (Generate, directives) is what the handler
\* answers it: at every path that was probed, and at every path of the site when
\* all rules test for a prefix.  Of the crawlers that go by the default bot this
\* holds if no rule tests what inputFor gets wrong of them.
THEOREM RobotsAgrees == Spec => []FileAgrees
  <1>1. FileInv => FileAgrees
    BY FileSays
  <1> QED
    BY <1>1, RobotsFile, PTL

\* The delay that buildGroup writes keeps a crawler within every limit below one
\* a second that it may meet at a path that was probed, with the same exception.
THEOREM RobotsDelay == Spec => []DelaySuffices
  <1>1. FileInv => DelaySuffices
    BY DelaysSuffice
  <1> QED
    BY <1>1, RobotsFile, PTL

\* compileRules leaves nothing of the order of the file: what the handler and `policy
\* eval' decide is the same when the rules stand the other way round.
THEOREM RobotsOrder == Spec => []OrderIrrelevant
  <1>1. FileInv => OrderIrrelevant
    BY OrderNothing DEF FileInv
  <1> QED
    BY <1>1, RobotsFile, PTL

\* What `policy eval' says is decided is what enforce decides, and the status that
\* it predicts is an answer of the handler, unless it came to a rule that is content
\* without a key that the request has, or that tests the query.
THEOREM RobotsPredicted == Spec => []EvalPredicts
  <1>1. FileInv => EvalPredicts
    BY Predicts DEF FileInv
  <1> QED
    BY <1>1, RobotsFile, PTL
=============================================================================
