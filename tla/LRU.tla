-------------------------------- MODULE LRU --------------------------------
(* internal/lru: how the limiter's buckets and the reverse-DNS results stay *)
(* bounded.  A bounded map is a function whose values have a lastAccess.    *)
EXTENDS Integers, FiniteSets, Functions

CONSTANT HeadroomDivisor  \* headroomDivisor, 8

ASSUME HeadroomAssumption == HeadroomDivisor \in Nat \ {0}

\* Mutant: the caller's idle entries are all that goes.
TrimNothing(items, maxEntries) == items

\* Trim.  The cutoff is the access time of the surplus-th oldest entry, and what
\* was used no later goes, ties included: whoever stays has at least surplus
\* entries that are older.
Trim(items, maxEntries) ==
  LET surplus == Cardinality(DOMAIN items) - (maxEntries - maxEntries \div HeadroomDivisor)
      Older(k) == {j \in DOMAIN items : items[j].lastAccess < items[k].lastAccess}
  IN Restrict(items, {k \in DOMAIN items : Cardinality(Older(k)) >= surplus})
=============================================================================
