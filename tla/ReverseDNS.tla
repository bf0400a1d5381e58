----------------------------- MODULE ReverseDNS -----------------------------
(***************************************************************************)
(* One reverse_dns verifier (internal/verify/reverse_dns.go) under its     *)
(* service.  A request looks for its address in the cache of results; on a *)
(* miss it asks for the PTR names of the address and for the addresses of  *)
(* those names, or shares the lookup that does so already.                 *)
(*                                                                         *)
(* Requests are numbered in the order in which they come.                  *)
(*                                                                         *)
(* The DNS may answer anything at any time.  A result is kept with the     *)
(* evidence it rests on: the address it is about, how many names have not  *)
(* been tried, and when the PTR and the matching forward answer came.  As  *)
(* in IPRanges only waiting takes time.                                    *)
(***************************************************************************)
EXTENDS CacheParameters

VARIABLES
  now,     \* time.Now()
  items,   \* the cache: a result for each address
  pc,      \* where each request is
  ip,      \* its address, 0 before it comes
  t,       \* when its context's deadline was set
  leader,  \* whose lookup it shares
  result,  \* what its own lookup has found so far
  answer   \* what Verify returned

vars == <<now, items, pc, ip, t, leader, result, answer>>

Requests == 1..MaxRequests
None == 0
Times == 0..MaxTime
Results ==
  [verified : BOOLEAN, ip : IPs \cup {None}, untried : 0..MaxNames, ptr : Times, forward : Times]
NoResult == [verified |-> FALSE, ip |-> None, untried |-> MaxNames, ptr |-> 0, forward |-> 0]
Entries == [result : Results, expiresAt : 0..(MaxTime + CacheTTL), lastAccess : Times]

TypeOK ==
  /\ now \in Times
  /\ DOMAIN items \subseteq IPs
  /\ Cardinality(DOMAIN items) <= MaxResults
  /\ \A k \in DOMAIN items : items[k] \in Entries
  /\ pc \in [Requests -> {"idle", "get", "join", "ptr", "forward", "wait", "failed", "done"}]
  /\ ip \in [Requests -> IPs \cup {None}]
  /\ t \in [Requests -> Times]
  /\ leader \in [Requests -> Requests \cup {None}]
  /\ result \in [Requests -> Results]
  /\ answer \in [Requests -> Results]

Init ==
  /\ now = 1
  /\ items = <<>>
  /\ pc = [r \in Requests |-> "idle"]
  /\ ip = [r \in Requests |-> None]
  /\ t = [r \in Requests |-> 0]
  /\ leader = [r \in Requests |-> None]
  /\ result = [r \in Requests |-> NoResult]
  /\ answer = [r \in Requests |-> NoResult]

Goto(r, place) == pc' = [pc EXCEPT ![r] = place]

-----------------------------------------------------------------------------
(* The cache                                                               *)

Expired(k) == now > items[k].expiresAt

\* get deletes what has expired and marks what it returns.
Get(r) ==
  LET k == ip[r] IN
  /\ pc[r] = "get"
  /\ \/ /\ k \in DOMAIN items /\ ~Expired(k)
        /\ answer' = [answer EXCEPT ![r] = items[k].result]
        /\ items' = [items EXCEPT ![k].lastAccess = now]
        /\ Goto(r, "done")
     \/ /\ k \in DOMAIN items => Expired(k)
        /\ items' = Restrict(items, DOMAIN items \ {k})
        /\ Goto(r, "join")
        /\ UNCHANGED answer
  /\ UNCHANGED <<now, ip, t, leader, result>>

\* evict, when the cache is over its bound.
Evicted(cache) ==
  IF Cardinality(DOMAIN cache) <= MaxResults THEN cache
  ELSE Trim(Restrict(cache, {k \in DOMAIN cache : now <= cache[k].expiresAt}), MaxResults)

\* set
Stored(k, res) ==
  LET entry == [result |-> res, expiresAt |-> now + CacheTTL, lastAccess |-> now]
  IN Evicted([j \in DOMAIN items \cup {k} |-> IF j = k THEN entry ELSE items[j]])

-----------------------------------------------------------------------------
(* One lookup for each address, shared through singleflight                *)

Enter(r, k) ==
  /\ pc[r] = "idle" /\ \A q \in 1..(r - 1) : pc[q] # "idle"
  /\ ip' = [ip EXCEPT ![r] = k]
  /\ t' = [t EXCEPT ![r] = now]
  /\ Goto(r, "get")
  /\ UNCHANGED <<now, items, leader, result, answer>>

InFlight(k) == {l \in Requests : pc[l] \in {"ptr", "forward"} /\ ip[l] = k}

\* Do: share the lookup under way, or lead one.
Join(r) ==
  /\ pc[r] = "join"
  /\ \/ \E l \in InFlight(ip[r]) :
          leader' = [leader EXCEPT ![r] = l] /\ Goto(r, "wait") /\ UNCHANGED result
     \/ /\ InFlight(ip[r]) = {}
        /\ result' = [result EXCEPT ![r].ip = ip[r]]
        /\ Goto(r, "ptr")
        /\ UNCHANGED leader
  /\ UNCHANGED <<now, items, ip, t, answer>>

Sharers(l) == {r \in Requests : r = l \/ (pc[r] = "wait" /\ leader[r] = l)}

\* The lookup returns to everyone who shares it.
Return(l, place) == pc' = [r \in Requests |-> IF r \in Sharers(l) THEN place ELSE pc[r]]

\* The lookup has a result, which is cached.
Found(l, res) ==
  /\ items' = Stored(ip[l], res)
  /\ answer' = [r \in Requests |-> IF r \in Sharers(l) THEN res ELSE answer[r]]
  /\ Return(l, "done")

\* LookupAddr.  No PTR record, or none with an allowed suffix, is a result.
PTR(l) ==
  /\ pc[l] = "ptr"
  /\ \E n \in 0..MaxNames :
       LET res == [result[l] EXCEPT !.ptr = now, !.untried = n]
       IN /\ result' = [result EXCEPT ![l] = res]
          /\ IF n = 0 THEN Found(l, res)
                      ELSE Goto(l, "forward") /\ UNCHANGED <<items, answer>>
  /\ UNCHANGED <<now, ip, t, leader>>

\* LookupIPAddr for the next name: one of its addresses is the request's, or
\* none is, or it has none.
Forward(l) ==
  /\ pc[l] = "forward"
  /\ \E match \in BOOLEAN :
       LET res == [result[l] EXCEPT !.verified = match,
                                    !.forward = IF match THEN now ELSE @,
                                    !.untried = @ - 1]
       IN /\ result' = [result EXCEPT ![l] = res]
          /\ IF res.verified \/ res.untried = 0
             THEN Found(l, res)
             ELSE UNCHANGED <<items, answer, pc>>
  /\ UNCHANGED <<now, ip, t, leader>>

\* Mutant: what a lookup came to is cached, be it an error.
KeepsErrors(l) == Stored(ip[l], result[l])
AfterError(l) == items

\* The resolver failed or the deadline passed: an error, for everyone who waits.
LookupFails(l) ==
  /\ pc[l] \in {"ptr", "forward"}
  /\ items' = AfterError(l)
  /\ Return(l, "failed")
  /\ UNCHANGED <<now, ip, t, leader, result, answer>>

\* Mutant: net.Resolver has no timeout of its own.
NoDeadline(l) == MaxTime + 1
Deadline(l) == t[l] + VerifyTimeout

Waiting(r) ==
  \/ pc[r] \in {"idle", "wait", "failed", "done"}
  \/ pc[r] \in {"ptr", "forward"} /\ now < Deadline(r)

Tick ==
  /\ now < MaxTime
  /\ \A r \in Requests : Waiting(r)
  /\ now' = now + 1
  /\ UNCHANGED <<items, pc, ip, t, leader, result, answer>>

-----------------------------------------------------------------------------
Verify(r) ==
  \/ \E k \in IPs : Enter(r, k)
  \/ Get(r) \/ Join(r) \/ PTR(r) \/ Forward(r) \/ LookupFails(r)

Next == (\E r \in Requests : Verify(r)) \/ Tick

Spec == Init /\ [][Next]_vars

-----------------------------------------------------------------------------
(* What the verifier promises                                              *)

\* A request is verified only by a round trip for its own address: a PTR answer
\* and, after it, a forward answer that names the address.  Whatever it is told,
\* verified or not, was true of the DNS within the cache's lifetime of its
\* arrival, give or take the lookup; and "not verified" was said by the DNS, of
\* every name it could have tried.  A lookup that failed is an error to those who
\* waited for it, for fail_mode to deal with, and is forgotten.
HonestAnswer ==
  \A r \in Requests :
    pc[r] = "done" =>
      /\ answer[r].ip = ip[r]
      /\ 0 < answer[r].ptr /\ t[r] <= answer[r].ptr + VerifyTimeout + CacheTTL
      /\ IF answer[r].verified
         THEN answer[r].ptr <= answer[r].forward
         ELSE answer[r].untried = 0

\* A verification is over when its own deadline has passed, be it the leader of
\* a lookup or not: who leads came first and has the nearer deadline.
EndsInTime ==
  \A r \in Requests : pc[r] \notin {"idle", "failed", "done"} => now <= t[r] + VerifyTimeout
=============================================================================
