----------------------------- MODULE RateLimit -----------------------------
(***************************************************************************)
(* The counters of app/security/rate_limits.py and app/auth/rate_limit.py  *)
(* in Redis, under concurrent requests.  A request is counted on one key   *)
(* (a route's limit) or on several in turn (a login: the address, then the *)
(* identifier) and is let through when no counter is over its limit.       *)
(*                                                                         *)
(* INCR and TTL run as one transaction (a redis-py pipeline); the EXPIRE   *)
(* that starts the window is a later command.  Time is relative: a key has *)
(* a remaining time to live, an accepted hit has an age.                   *)
(***************************************************************************)
EXTENDS Integers, Sequences, FiniteSets

CONSTANTS
  Workers,     \* request threads
  Keys,        \* the keys rl:<name>:<principal>
  Chains,      \* the sequences of keys on which requests are counted
  Limit,       \* per key, its limit
  Window,      \* per key, its window in seconds
  MaxFailures, \* bound: Redis errors and requests cut off
  None

ASSUME ChainsAssumption == Chains \subseteq Seq(Keys) /\ << >> \notin Chains
ASSUME LimitsAssumption == Limit \in [Keys -> Nat \ {0}] /\ Window \in [Keys -> Nat \ {0}]
ASSUME FailuresAssumption == MaxFailures \in Nat
ASSUME NoneAssumption == None \notin Nat

VARIABLES
  count,    \* per key, its value; 0 if the key does not exist
  ttl,      \* per key, seconds to live; None if it never expires
  hits,     \* history: per key, the hits within the limit that are younger than
            \* its window, each as its age and its place among those of its second
  pc,       \* per worker: "idle", "incr" or "expire"
  todo,     \* per worker: the keys on which its request is still to be counted
  seen,     \* per worker: the count its last INCR returned
  failures  \* failures so far

vars == <<count, ttl, hits, pc, todo, seen, failures>>

Ages(k) == 0..(Window[k] - 1)

\* One over the limit stands for every larger count.
Counts(k) == 0..(Limit[k] + 1)
NextCount(k) == IF count[k] > Limit[k] THEN count[k] ELSE count[k] + 1

TypeOK ==
  /\ count \in [Keys -> Nat] /\ \A k \in Keys : count[k] \in Counts(k)
  /\ ttl \in [Keys -> Nat \cup {None}]
  /\ \A k \in Keys : /\ ttl[k] # None => ttl[k] \in 1..Window[k]
                     /\ hits[k] \subseteq Ages(k) \X Nat /\ IsFiniteSet(hits[k])
  /\ pc \in [Workers -> {"idle", "incr", "expire"}]
  /\ todo \in [Workers -> Seq(Keys)]
  /\ seen \in [Workers -> Nat]
  /\ failures \in 0..MaxFailures

Init ==
  /\ count = [k \in Keys |-> 0]
  /\ ttl = [k \in Keys |-> None]
  /\ hits = [k \in Keys |-> {}]
  /\ pc = [w \in Workers |-> "idle"]
  /\ todo = [w \in Workers |-> << >>]
  /\ seen = [w \in Workers |-> 0]
  /\ failures = 0

Replies(w) ==
  /\ pc' = [pc EXCEPT ![w] = "idle"]
  /\ todo' = [todo EXCEPT ![w] = << >>]
  /\ seen' = [seen EXCEPT ![w] = 0]

Ask(w, chain) ==
  /\ pc[w] = "idle"
  /\ pc' = [pc EXCEPT ![w] = "incr"]
  /\ todo' = [todo EXCEPT ![w] = chain]
  /\ UNCHANGED <<count, ttl, hits, seen, failures>>

\* The count decides: over the limit the request is refused (429), on the last
\* key it is let through, else the next key is counted.
Decide(w, n) ==
  IF n > Limit[Head(todo[w])] \/ Len(todo[w]) = 1
  THEN Replies(w)
  ELSE /\ pc' = [pc EXCEPT ![w] = "incr"]
       /\ todo' = [todo EXCEPT ![w] = Tail(@)]
       /\ seen' = [seen EXCEPT ![w] = 0]

\* The hit that the next INCR within the limit makes.
Hit(k) == <<0, Cardinality({h \in hits[k] : h[1] = 0}) + 1>>

\* Mutant of Incr: only the first hit starts the window.
IncrFirstExpires(w) ==
  LET k == Head(todo[w])
      n == NextCount(k)
  IN /\ pc[w] = "incr"
     /\ count' = [count EXCEPT ![k] = n]
     /\ hits' = IF n <= Limit[k] THEN [hits EXCEPT ![k] = @ \cup {Hit(k)}] ELSE hits
     /\ IF n = 1
        THEN /\ pc' = [pc EXCEPT ![w] = "expire"]
             /\ seen' = [seen EXCEPT ![w] = n]
             /\ UNCHANGED todo
        ELSE Decide(w, n)
     /\ UNCHANGED <<ttl, failures>>

\* INCR keeps the time to live of a key and makes a new key without one.
Incr(w) ==
  LET k == Head(todo[w])
      n == NextCount(k)
  IN /\ pc[w] = "incr"
     /\ count' = [count EXCEPT ![k] = n]
     /\ hits' = IF n <= Limit[k] THEN [hits EXCEPT ![k] = @ \cup {Hit(k)}] ELSE hits
     /\ IF ttl[k] = None
        THEN /\ pc' = [pc EXCEPT ![w] = "expire"]
             /\ seen' = [seen EXCEPT ![w] = n]
             /\ UNCHANGED todo
        ELSE Decide(w, n)
     /\ UNCHANGED <<ttl, failures>>

\* Mutants of Expire: the key is set anew, as by SETEX; it lives too long.
ExpireSetsKey(w) ==
  LET k == Head(todo[w])
  IN /\ pc[w] = "expire"
     /\ count' = [count EXCEPT ![k] = 1]
     /\ ttl' = [ttl EXCEPT ![k] = Window[k]]
     /\ Decide(w, seen[w])
     /\ UNCHANGED <<hits, failures>>

ExpireLate(w) ==
  LET k == Head(todo[w])
  IN /\ pc[w] = "expire"
     /\ ttl' = IF count[k] = 0 THEN ttl ELSE [ttl EXCEPT ![k] = Window[k] + 1]
     /\ Decide(w, seen[w])
     /\ UNCHANGED <<count, hits, failures>>

\* EXPIRE does nothing to a key that is gone by now.
Expire(w) ==
  LET k == Head(todo[w])
  IN /\ pc[w] = "expire"
     /\ ttl' = IF count[k] = 0 THEN ttl ELSE [ttl EXCEPT ![k] = Window[k]]
     /\ Decide(w, seen[w])
     /\ UNCHANGED <<count, hits, failures>>

\* Redis does not answer (503, or a refused login), or the process is
\* restarted: what was counted stays counted.
Fail(w) ==
  /\ pc[w] # "idle"
  /\ failures < MaxFailures
  /\ failures' = failures + 1
  /\ Replies(w)
  /\ UNCHANGED <<count, ttl, hits>>

Older(h) == <<h[1] + 1, h[2]>>

\* A second passes: keys expire, hits leave the window.
Tick ==
  /\ ttl' = [k \in Keys |-> IF ttl[k] \in {None, 1} THEN None ELSE ttl[k] - 1]
  /\ count' = [k \in Keys |-> IF ttl[k] = 1 THEN 0 ELSE count[k]]
  /\ hits' = [k \in Keys |-> {Older(h) : h \in {g \in hits[k] : g[1] + 1 \in Ages(k)}}]
  /\ UNCHANGED <<pc, todo, seen, failures>>

Serve(w) == Incr(w) \/ Expire(w)

Next == Tick \/ \E w \in Workers :
                  Serve(w) \/ Fail(w) \/ \E chain \in Chains : Ask(w, chain)

Spec == Init /\ [][Next]_vars

\* Time passes, requests are carried on, and clients keep trying.
FairSpec ==
  /\ Spec
  /\ WF_vars(Tick)
  /\ \A w \in Workers : WF_vars(Serve(w))
  /\ \A chain \in Chains : SF_vars(\E w \in Workers : Ask(w, chain))

-----------------------------------------------------------------------------

\* In any window's length of time no more than twice the limit is let through,
\* however requests, expiries and late EXPIREs interleave: two generations of
\* a key at most fall into it.
TwiceTheLimit == \A k \in Keys : Cardinality(hits[k]) <= 2 * Limit[k]

\* Nobody is shut out for good: a counter over its limit is reset in the end,
\* although refused requests are counted too and although a request may die
\* between INCR and EXPIRE and leave a key that does not expire.  (Of the first
\* key of a chain: later ones are reached only when the earlier let through.)
LockoutEnds ==
  \A chain \in Chains :
    count[Head(chain)] > Limit[Head(chain)] ~> count[Head(chain)] = 0

=============================================================================
