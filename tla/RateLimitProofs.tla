-------------------------- MODULE RateLimitProofs --------------------------
(***************************************************************************)
(* For every set of workers, keys and chains, every limit and window: the  *)
(* counters are well typed, and no more than twice the limit is let        *)
(* through in the length of a window.                                      *)
(*                                                                         *)
(* A key that expires and is made again begins a new generation.  The hits *)
(* that are younger than a window belong to two generations at most        *)
(* (Generations): one whose time to live is known has lived for the rest   *)
(* of the window, so the hits of the one before are at least that old, and *)
(* leave the window when it expires.                                       *)
(***************************************************************************)
EXTENDS RateLimit, TLAPS, FiniteSetTheorems, SequenceTheorems

USE ChainsAssumption, LimitsAssumption, FailuresAssumption, NoneAssumption

Typed ==
  /\ count \in [Keys -> Nat]
  /\ ttl \in [Keys -> Nat \cup {None}]
  /\ hits \in [Keys -> SUBSET (Nat \X Nat)]
  /\ pc \in [Workers -> {"idle", "incr", "expire"}]
  /\ todo \in [Workers -> Seq(Keys)]
  /\ seen \in [Workers -> Nat]
  /\ failures \in 0..MaxFailures

\* A request under way has a key to count.
Counting == \A w \in Workers : pc[w] # "idle" => todo[w] # << >>

Bounded(k) ==
  /\ count[k] \in Counts(k)
  /\ ttl[k] # None => ttl[k] \in 1..Window[k]
  /\ hits[k] \subseteq Ages(k) \X Nat /\ IsFiniteSet(hits[k])

Generations(k) ==
  \E last, current \in SUBSET hits[k] :
    /\ hits[k] = last \cup current
    /\ Cardinality(last) <= Limit[k] /\ Cardinality(current) <= Limit[k]
    /\ Cardinality(current) <= count[k]
    /\ ttl[k] # None => \A h \in last : h[1] >= Window[k] - ttl[k]

IInv == Typed /\ Counting /\ \A k \in Keys : Bounded(k) /\ Generations(k)

-----------------------------------------------------------------------------
(* A second passes                                                          *)

\* The hits of a set that are still in the window a second later.
Aged(k, S) == {Older(h) : h \in {g \in S : g[1] + 1 \in Ages(k)}}

LEMMA AgedFewer ==
  ASSUME NEW k, NEW S, IsFiniteSet(S)
  PROVE  IsFiniteSet(Aged(k, S)) /\ Cardinality(Aged(k, S)) <= Cardinality(S)
<1> DEFINE kept == {g \in S : g[1] + 1 \in Ages(k)}
           f == [h \in kept |-> Older(h)]
<1>1. IsFiniteSet(kept) /\ Cardinality(kept) <= Cardinality(S)
  BY FS_Subset
<1>2. f \in Surjection(kept, Aged(k, S))
  BY DEF Surjection, Aged
<1>3. IsFiniteSet(Aged(k, S)) /\ Cardinality(Aged(k, S)) <= Cardinality(kept)
  <2> HIDE DEF kept, f
  <2> QED
    BY <1>1, <1>2, FS_Surjection
<1>4. /\ Cardinality(S) \in Nat /\ Cardinality(kept) \in Nat
      /\ Cardinality(Aged(k, S)) \in Nat
  <2> HIDE DEF kept
  <2> QED
    BY <1>1, <1>3, FS_CardinalityType
<1> QED
  BY <1>1, <1>3, <1>4

LEMMA AgedHits ==
  ASSUME NEW k \in Keys, NEW S \in SUBSET (Ages(k) \X Nat)
  PROVE  /\ Aged(k, S) \subseteq Ages(k) \X Nat
         /\ \A h \in Aged(k, S) : \E g \in S : h[1] = g[1] + 1 /\ g[1] + 1 \in Ages(k)
BY DEF Aged, Older

LEMMA TickKeeps ==
  ASSUME IInv, Tick, NEW k \in Keys
  PROVE  Bounded(k)' /\ Generations(k)'
<1>1. /\ ttl'[k] = IF ttl[k] \in {None, 1} THEN None ELSE ttl[k] - 1
      /\ count'[k] = IF ttl[k] = 1 THEN 0 ELSE count[k]
      /\ hits'[k] = Aged(k, hits[k])
  BY DEF Tick, Aged
<1>2. /\ count[k] \in Counts(k)
      /\ ttl[k] # None => ttl[k] \in 1..Window[k]
      /\ hits[k] \subseteq Ages(k) \X Nat /\ IsFiniteSet(hits[k])
  BY DEF IInv, Bounded
<1>3. Limit[k] \in Nat /\ Window[k] \in Nat
  OBVIOUS
<1>4. Bounded(k)'
  <2>1. count'[k] \in Counts(k)
    BY <1>1, <1>2, <1>3 DEF Counts
  <2>2. ttl'[k] # None => ttl'[k] \in 1..Window[k]
    BY <1>1, <1>2, <1>3
  <2>3. hits'[k] \subseteq Ages(k) \X Nat /\ IsFiniteSet(hits'[k])
    BY <1>1, <1>2, AgedHits, AgedFewer
  <2> QED
    BY <2>1, <2>2, <2>3 DEF Bounded, Counts, Ages
<1>5. PICK last, current \in SUBSET hits[k] :
        /\ hits[k] = last \cup current
        /\ Cardinality(last) <= Limit[k] /\ Cardinality(current) <= Limit[k]
        /\ Cardinality(current) <= count[k]
        /\ ttl[k] # None => \A h \in last : h[1] >= Window[k] - ttl[k]
  BY DEF IInv, Generations
<1>6. PICK older, newer : older = Aged(k, last) /\ newer = Aged(k, current)
  OBVIOUS
<1>7. hits'[k] = older \cup newer
  BY <1>1, <1>5, <1>6 DEF Aged
<1>8. /\ Cardinality(older) <= Limit[k] /\ Cardinality(newer) <= Limit[k]
      /\ Cardinality(newer) <= count[k]
  <2>1. IsFiniteSet(last) /\ IsFiniteSet(current)
    BY <1>2, FS_Subset
  <2>2. /\ IsFiniteSet(older) /\ Cardinality(older) <= Cardinality(last)
        /\ IsFiniteSet(newer) /\ Cardinality(newer) <= Cardinality(current)
    BY <1>6, <2>1, AgedFewer
  <2>3. /\ Cardinality(last) \in Nat /\ Cardinality(current) \in Nat
        /\ Cardinality(older) \in Nat /\ Cardinality(newer) \in Nat
    BY <2>1, <2>2, FS_CardinalityType
  <2>4. count[k] \in Nat
    BY DEF IInv, Typed
  <2> QED
    BY <1>3, <1>5, <2>2, <2>3, <2>4
<1>9. CASE ttl[k] = 1
  <2>1. older = {}
    <3> SUFFICES ASSUME NEW h \in older
                 PROVE  FALSE
      OBVIOUS
    <3>1. PICK g \in last : h[1] = g[1] + 1 /\ g[1] + 1 \in Ages(k)
      BY <1>2, <1>5, <1>6, AgedHits
    <3>2. g[1] >= Window[k] - 1
      BY <1>5, <1>9
    <3>3. g[1] \in Nat
      BY <1>2, <1>5 DEF Ages
    <3> QED
      BY <1>3, <3>1, <3>2, <3>3 DEF Ages
  <2>2. hits'[k] = newer \cup {} /\ Cardinality({}) = 0
    BY <1>7, <2>1, FS_EmptySet
  <2>3. ttl'[k] = None /\ count'[k] = 0
    BY <1>1, <1>9
  <2> QED
    BY <1>3, <1>4, <1>8, <2>2, <2>3 DEF Generations
<1>10. CASE ttl[k] # 1
  <2>1. count'[k] = count[k]
    BY <1>1, <1>10
  <2>2. ttl'[k] # None => \A h \in older : h[1] >= Window[k] - ttl'[k]
    <3> SUFFICES ASSUME ttl'[k] # None, NEW h \in older
                 PROVE  h[1] >= Window[k] - ttl'[k]
      OBVIOUS
    <3>1. PICK g \in last : h[1] = g[1] + 1 /\ g[1] + 1 \in Ages(k)
      BY <1>2, <1>5, <1>6, AgedHits
    <3>2. ttl[k] \in 1..Window[k] /\ ttl'[k] = ttl[k] - 1
      BY <1>1, <1>2, <1>10
    <3>3. g[1] >= Window[k] - ttl[k] /\ g[1] \in Nat
      BY <1>2, <1>5, <3>2 DEF Ages
    <3> QED
      BY <1>3, <3>1, <3>2, <3>3
  <2> QED
    BY <1>4, <1>7, <1>8, <2>1, <2>2 DEF Generations
<1> QED
  BY <1>9, <1>10, <1>4

-----------------------------------------------------------------------------
(* A command of a request                                                   *)

LEMMA KeyStays ==
  ASSUME IInv, NEW k \in Keys,
         count'[k] = count[k], ttl'[k] = ttl[k], hits'[k] = hits[k]
  PROVE  Bounded(k)' /\ Generations(k)'
BY DEF IInv, Bounded, Generations, Counts, Ages

LEMMA IncrKeeps ==
  ASSUME IInv, NEW w \in Workers, Incr(w), NEW k \in Keys
  PROVE  Bounded(k)' /\ Generations(k)'
<1>1. PICK key \in Keys : key = Head(todo[w])
  BY HeadTailProperties DEF Incr, IInv, Typed, Counting
<1>2. PICK n : n = NextCount(key)
  OBVIOUS
<1>3. /\ count' = [count EXCEPT ![key] = n] /\ ttl' = ttl
      /\ hits' = IF n <= Limit[key] THEN [hits EXCEPT ![key] = @ \cup {Hit(key)}] ELSE hits
  BY <1>1, <1>2 DEF Incr
<1>4. CASE k # key
  BY <1>3, <1>4, KeyStays DEF IInv, Typed
<1>5. CASE k = key
  <2>1. /\ count[k] \in Counts(k) /\ count[k] \in Nat
        /\ ttl[k] # None => ttl[k] \in 1..Window[k]
        /\ hits[k] \subseteq Ages(k) \X Nat /\ IsFiniteSet(hits[k])
    BY DEF IInv, Typed, Bounded
  <2>2. Limit[k] \in Nat /\ Window[k] \in Nat \ {0}
    OBVIOUS
  <2>3. /\ n \in Counts(k) /\ n >= count[k]
        /\ n <= Limit[k] => n = count[k] + 1
    BY <1>2, <1>5, <2>1, <2>2 DEF NextCount, Counts
  <2>4. count'[k] = n /\ ttl'[k] = ttl[k]
    BY <1>3, <1>5 DEF IInv, Typed
  <2>5. PICK last, current \in SUBSET hits[k] :
          /\ hits[k] = last \cup current
          /\ Cardinality(last) <= Limit[k] /\ Cardinality(current) <= Limit[k]
          /\ Cardinality(current) <= count[k]
          /\ ttl[k] # None => \A h \in last : h[1] >= Window[k] - ttl[k]
    BY DEF IInv, Generations
  <2>6. IsFiniteSet(current) /\ Cardinality(current) \in Nat
    BY <2>1, <2>5, FS_Subset, FS_CardinalityType
  <2>7. CASE n <= Limit[k]
    <3>1. PICK new : new = Hit(k)
      OBVIOUS
    <3>2. new \in Ages(k) \X Nat
      <4>1. PICK fresh \in SUBSET hits[k] : fresh = {h \in hits[k] : h[1] = 0}
        OBVIOUS
      <4>2. Cardinality(fresh) \in Nat
        BY <2>1, FS_Subset, FS_CardinalityType
      <4> QED
        BY <2>2, <3>1, <4>1, <4>2 DEF Hit, Ages
    <3>3. hits'[k] = hits[k] \cup {new}
      BY <1>3, <1>5, <2>7, <3>1 DEF IInv, Typed
    <3>4. IsFiniteSet(hits'[k])
      <4>1. PICK S : S = hits[k]
        OBVIOUS
      <4>2. IsFiniteSet(S \cup {new})
        BY <2>1, <4>1, FS_AddElement
      <4> QED
        BY <3>3, <4>1, <4>2
    <3>5. Bounded(k)'
      BY <2>1, <2>3, <2>4, <3>2, <3>3, <3>4 DEF Bounded, Counts, Ages
    <3>6. PICK grown : grown = current \cup {new}
      OBVIOUS
    <3>7. Cardinality(grown) \in Nat /\ Cardinality(grown) <= Cardinality(current) + 1
      <4>1. /\ IsFiniteSet(current \cup {new})
            /\ Cardinality(current \cup {new}) =
                 IF new \in current THEN Cardinality(current) ELSE Cardinality(current) + 1
        BY <2>6, FS_AddElement
      <4> QED
        BY <2>6, <3>6, <4>1
    <3>8. Cardinality(grown) <= Limit[k] /\ Cardinality(grown) <= n
      BY <2>1, <2>2, <2>3, <2>5, <2>6, <2>7, <3>7
    <3>9. hits'[k] = last \cup grown
      BY <2>5, <3>3, <3>6
    <3> QED
      BY <2>4, <2>5, <3>5, <3>8, <3>9 DEF Generations
  <2>8. CASE ~(n <= Limit[k])
    <3>1. hits'[k] = hits[k]
      BY <1>3, <1>5, <2>8
    <3>2. Bounded(k)'
      BY <2>1, <2>3, <2>4, <3>1 DEF Bounded, Counts, Ages
    <3>3. Cardinality(current) <= n
      BY <2>1, <2>3, <2>5, <2>6 DEF Counts
    <3> QED
      BY <2>4, <2>5, <3>1, <3>2, <3>3 DEF Generations
  <2> QED
    BY <2>7, <2>8
<1> QED
  BY <1>4, <1>5

LEMMA ExpireKeeps ==
  ASSUME IInv, NEW w \in Workers, Expire(w), NEW k \in Keys
  PROVE  Bounded(k)' /\ Generations(k)'
<1>1. PICK key \in Keys : key = Head(todo[w])
  BY HeadTailProperties DEF Expire, IInv, Typed, Counting
<1>2. /\ ttl' = IF count[key] = 0 THEN ttl ELSE [ttl EXCEPT ![key] = Window[key]]
      /\ UNCHANGED <<count, hits>>
  BY <1>1 DEF Expire
<1>3. CASE ttl'[k] = ttl[k]
  BY <1>2, <1>3, KeyStays
<1>4. CASE ttl'[k] # ttl[k]
  <2>1. ttl'[k] = Window[k]
    BY <1>2, <1>4 DEF IInv, Typed
  <2>2. Window[k] \in Nat \ {0}
    OBVIOUS
  <2>3. Bounded(k)'
    BY <1>2, <2>1, <2>2 DEF IInv, Bounded, Counts, Ages
  <2>4. PICK last, current \in SUBSET hits[k] :
          /\ hits[k] = last \cup current
          /\ Cardinality(last) <= Limit[k] /\ Cardinality(current) <= Limit[k]
          /\ Cardinality(current) <= count[k]
    BY DEF IInv, Generations
  <2>5. \A h \in last : h[1] >= Window[k] - Window[k]
    BY <2>2, <2>4 DEF IInv, Bounded, Ages
  <2> QED
    BY <1>2, <2>1, <2>3, <2>4, <2>5 DEF Generations
<1> QED
  BY <1>3, <1>4

\* The request goes on to its next key, or is answered.
LEMMA Goes ==
  ASSUME IInv, NEW w \in Workers, pc[w] # "idle", NEW n, Decide(w, n) \/ Replies(w)
  PROVE  /\ pc' \in [Workers -> {"idle", "incr", "expire"}]
         /\ todo' \in [Workers -> Seq(Keys)] /\ seen' \in [Workers -> Nat]
         /\ Counting'
<1>1. CASE Replies(w)
  BY <1>1 DEF Replies, IInv, Typed, Counting
<1>2. CASE ~Replies(w)
  <2>1. PICK rest \in Seq(Keys) : rest = Tail(todo[w]) /\ Len(rest) = Len(todo[w]) - 1
    BY HeadTailProperties DEF IInv, Typed, Counting
  <2>2. Len(todo[w]) # 1 /\ Len(todo[w]) \in Nat
    BY <1>2, LenProperties DEF Decide, IInv, Typed
  <2>3. rest # << >>
    <3>1. Len(rest) # 0
      BY <2>1, <2>2
    <3>2. rest = << >> => Len(rest) = 0
      OBVIOUS
    <3> QED
      BY <3>1, <3>2
  <2>4. /\ pc' = [pc EXCEPT ![w] = "incr"] /\ todo' = [todo EXCEPT ![w] = rest]
        /\ seen' = [seen EXCEPT ![w] = 0]
    BY <1>2, <2>1 DEF Decide
  <2> QED
    BY <2>3, <2>4 DEF IInv, Typed, Counting
<1> QED
  BY <1>1, <1>2

-----------------------------------------------------------------------------
(* The theorems                                                             *)

LEMMA Start == Init => IInv
<1> SUFFICES ASSUME Init
             PROVE  IInv
  OBVIOUS
<1>1. Typed /\ Counting
  BY DEF Init, Typed, Counting
<1>2. ASSUME NEW k \in Keys
      PROVE  Bounded(k) /\ Generations(k)
  <2>1. hits[k] = {} \cup {} /\ count[k] = 0 /\ ttl[k] = None
    BY DEF Init
  <2>2. IsFiniteSet({}) /\ Cardinality({}) = 0
    BY FS_EmptySet
  <2>3. Limit[k] \in Nat
    OBVIOUS
  <2> QED
    BY <2>1, <2>2, <2>3 DEF Bounded, Generations, Counts
<1> QED
  BY <1>1, <1>2 DEF IInv

LEMMA Step == IInv /\ [Next]_vars => IInv'
<1> SUFFICES ASSUME IInv, [Next]_vars
             PROVE  IInv'
  OBVIOUS
<1>1. CASE Tick
  <2>1. \A k \in Keys : Bounded(k)' /\ Generations(k)'
    BY <1>1, TickKeeps
  <2>2. \A k \in Keys : hits'[k] \subseteq Nat \X Nat
    BY <2>1 DEF Bounded, Ages
  <2>3. hits' \in [Keys -> SUBSET (Nat \X Nat)]
    <3>1. hits' = [k \in Keys |-> hits'[k]]
      BY <1>1 DEF Tick
    <3> QED
      BY <2>2, <3>1
  <2>4. count' \in [Keys -> Nat] /\ ttl' \in [Keys -> Nat \cup {None}]
    BY <1>1 DEF Tick, IInv, Typed, Bounded
  <2>5. UNCHANGED <<pc, todo, seen, failures>>
    BY <1>1 DEF Tick
  <2> QED
    BY <2>1, <2>3, <2>4, <2>5 DEF IInv, Typed, Counting
<1>2. ASSUME NEW w \in Workers, Incr(w)
      PROVE  IInv'
  <2>1. \A k \in Keys : Bounded(k)' /\ Generations(k)'
    BY <1>2, IncrKeeps
  <2>2. PICK key \in Keys : key = Head(todo[w])
    BY <1>2, HeadTailProperties DEF Incr, IInv, Typed, Counting
  <2>3. PICK n \in Nat : n = NextCount(key)
    BY DEF NextCount, IInv, Typed
  <2>4. /\ count' = [count EXCEPT ![key] = n] /\ UNCHANGED <<ttl, failures>>
        /\ hits' = IF n <= Limit[key] THEN [hits EXCEPT ![key] = @ \cup {Hit(key)}] ELSE hits
        /\ \/ /\ pc' = [pc EXCEPT ![w] = "expire"] /\ seen' = [seen EXCEPT ![w] = n]
              /\ todo' = todo
           \/ Decide(w, n)
    BY <1>2, <2>2, <2>3 DEF Incr
  <2>5. \A k \in Keys : hits'[k] \subseteq Nat \X Nat
    BY <2>1 DEF Bounded, Ages
  <2>6. hits' \in [Keys -> SUBSET (Nat \X Nat)]
    <3>1. hits' = [k \in Keys |-> hits'[k]]
      BY <2>4 DEF IInv, Typed
    <3> QED
      BY <2>5, <3>1
  <2>7. /\ pc' \in [Workers -> {"idle", "incr", "expire"}]
        /\ todo' \in [Workers -> Seq(Keys)] /\ seen' \in [Workers -> Nat]
        /\ Counting'
    <3>1. CASE Decide(w, n)
      BY <1>2, <3>1, Goes DEF Incr
    <3>2. CASE ~Decide(w, n)
      <4>1. pc' = [pc EXCEPT ![w] = "expire"] /\ seen' = [seen EXCEPT ![w] = n] /\ todo' = todo
        BY <2>4, <3>2
      <4>2. pc[w] = "incr"
        BY <1>2 DEF Incr
      <4> QED
        BY <4>1, <4>2 DEF IInv, Typed, Counting
    <3> QED
      BY <3>1, <3>2
  <2> QED
    BY <2>1, <2>4, <2>6, <2>7 DEF IInv, Typed
<1>3. ASSUME NEW w \in Workers, Expire(w)
      PROVE  IInv'
  <2>1. \A k \in Keys : Bounded(k)' /\ Generations(k)'
    BY <1>3, ExpireKeeps
  <2>2. PICK key \in Keys : key = Head(todo[w])
    BY <1>3, HeadTailProperties DEF Expire, IInv, Typed, Counting
  <2>3. /\ ttl' = IF count[key] = 0 THEN ttl ELSE [ttl EXCEPT ![key] = Window[key]]
        /\ pc[w] # "idle" /\ Decide(w, seen[w]) /\ UNCHANGED <<count, hits, failures>>
    BY <1>3, <2>2 DEF Expire
  <2>4. ttl' \in [Keys -> Nat \cup {None}]
    BY <2>3 DEF IInv, Typed
  <2>5. /\ pc' \in [Workers -> {"idle", "incr", "expire"}]
        /\ todo' \in [Workers -> Seq(Keys)] /\ seen' \in [Workers -> Nat]
        /\ Counting'
    BY <2>3, Goes
  <2> QED
    BY <2>1, <2>3, <2>4, <2>5 DEF IInv, Typed
<1>4. ASSUME UNCHANGED <<count, ttl, hits>>
      PROVE  \A k \in Keys : Bounded(k)' /\ Generations(k)'
  BY <1>4, KeyStays
<1>5. ASSUME NEW w \in Workers, Fail(w)
      PROVE  IInv'
  <2>1. /\ pc[w] # "idle" /\ Replies(w) /\ UNCHANGED <<count, ttl, hits>>
        /\ failures' \in 0..MaxFailures
    BY <1>5 DEF Fail, IInv, Typed
  <2>2. /\ pc' \in [Workers -> {"idle", "incr", "expire"}]
        /\ todo' \in [Workers -> Seq(Keys)] /\ seen' \in [Workers -> Nat]
        /\ Counting'
    BY <2>1, Goes
  <2> QED
    BY <1>4, <2>1, <2>2 DEF IInv, Typed
<1>6. ASSUME NEW w \in Workers, NEW chain \in Chains, Ask(w, chain)
      PROVE  IInv'
  <2>1. chain \in Seq(Keys) /\ chain # << >>
    OBVIOUS
  <2>2. /\ pc' = [pc EXCEPT ![w] = "incr"] /\ todo' = [todo EXCEPT ![w] = chain]
        /\ UNCHANGED <<count, ttl, hits, seen, failures>>
    BY <1>6 DEF Ask
  <2> QED
    BY <1>4, <2>1, <2>2 DEF IInv, Typed, Counting
<1>7. CASE UNCHANGED vars
  BY <1>4, <1>7 DEF vars, IInv, Typed, Counting
<1> QED
  BY <1>1, <1>2, <1>3, <1>5, <1>6, <1>7 DEF Next, Serve

\* Counters, times to live and the requests under way keep their types, and no
\* time to live exceeds its window (_incr_with_window and its callers).
THEOREM TypeCorrect == Spec => []TypeOK
<1>1. IInv => TypeOK
  BY DEF IInv, Typed, Bounded, TypeOK
<1> QED
  BY <1>1, Start, Step, PTL DEF Spec

\* Not more than twice the limit is let through in any window's length of time,
\* for every limit and window, though INCR and EXPIRE are separate commands and
\* a late EXPIRE prolongs the life of a key it was not meant for.
THEOREM AtMostTwice == Spec => []TwiceTheLimit
<1>1. IInv => TwiceTheLimit
  <2> SUFFICES ASSUME IInv, NEW k \in Keys
               PROVE  Cardinality(hits[k]) <= 2 * Limit[k]
    BY DEF TwiceTheLimit
  <2>1. PICK last, current \in SUBSET hits[k] :
          /\ hits[k] = last \cup current
          /\ Cardinality(last) <= Limit[k] /\ Cardinality(current) <= Limit[k]
    BY DEF IInv, Generations
  <2>2. IsFiniteSet(last) /\ IsFiniteSet(current)
    BY FS_Subset DEF IInv, Bounded
  <2>3. PICK both : both = last \cap current
    OBVIOUS
  <2>4. IsFiniteSet(both)
    BY <2>2, <2>3, FS_Subset
  <2>5. Cardinality(hits[k]) = Cardinality(last) + Cardinality(current) - Cardinality(both)
    BY <2>1, <2>2, <2>3, FS_Union
  <2>6. Cardinality(last) \in Nat /\ Cardinality(current) \in Nat /\ Cardinality(both) \in Nat
    BY <2>2, <2>4, FS_CardinalityType
  <2>7. Limit[k] \in Nat
    OBVIOUS
  <2> QED
    BY <2>1, <2>5, <2>6, <2>7
<1> QED
  BY <1>1, Start, Step, PTL DEF Spec

=============================================================================
