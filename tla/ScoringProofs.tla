--------------------------- MODULE ScoringProofs ---------------------------
(***************************************************************************)
(* Proofs about Scoring: its types; that rounding the score does not       *)
(* change who passes as long as the attempt has fewer than 200 rows; that  *)
(* the breakdown, sorted by rounded percentages, is in the order of the    *)
(* exact shares as long as no topic has 100 rows, and adds up to the       *)
(* score; and that the topics recommended are those the exact shares       *)
(* single out as long as rows times rows of a topic stay below 1000.       *)
(***************************************************************************)
EXTENDS Scoring, TLAPS, FiniteSetTheorems, WellFoundedInduction

USE PerTopicAssumption

\* Every topic with rows is listed once, and no more rows are correct than
\* there are rows.
Counts ==
  /\ order \in Seq(Topics)
  /\ tally \in [Topics -> Tally]
  /\ score \in Tally
  /\ \A t \in Topics : tally[t] = Empty => \A i \in DOMAIN order : order[i] # t
  /\ \A i, j \in DOMAIN order : order[i] = order[j] => i = j
  /\ \A i \in DOMAIN order : tally[order[i]].total > 0
  /\ score.correct <= score.total

LEMMA CountedTally ==
  ASSUME NEW n \in Tally, NEW isCorrect \in BOOLEAN
  PROVE  /\ Counted(n, isCorrect) \in Tally
         /\ Counted(n, isCorrect) # Empty
         /\ Counted(n, isCorrect).total = n.total + 1
         /\ n.correct <= n.total => Counted(n, isCorrect).correct <= Counted(n, isCorrect).total
  BY DEF Counted, Tally, Empty

LEMMA CountsInductive == Spec => []Counts
  <1>1. Init => Counts
    BY DEF Init, Counts, Empty, Tally
  <1>2. ASSUME Counts, [Next]_vars
        PROVE  Counts'
    <2>1. CASE UNCHANGED vars BY <1>2, <2>1 DEF Counts, vars
    <2>2. ASSUME NEW t \in Topics, NEW isCorrect \in BOOLEAN, Row(t, isCorrect)
          PROVE  Counts'
      <3> USE <1>2 DEF Counts
      <3>1. /\ tally' = [tally EXCEPT ![t] = Counted(tally[t], isCorrect)]
            /\ score' = Counted(score, isCorrect)
            /\ order' = IF tally[t] = Empty THEN Append(order, t) ELSE order
        BY <2>2 DEF Row
      <3>2. /\ tally' \in [Topics -> Tally] /\ tally'[t] # Empty
            /\ \A u \in Topics \ {t} : tally'[u] = tally[u]
            /\ tally'[t].total = tally[t].total + 1 /\ tally[t].total \in Nat
        BY <3>1, CountedTally DEF Tally
      <3>3. score' \in Tally /\ score'.correct <= score'.total
        BY <3>1, CountedTally
      <3>4. CASE tally[t] # Empty
        BY <3>1, <3>2, <3>3, <3>4
      <3>5. CASE tally[t] = Empty
        <4>1. order' = Append(order, t) BY <3>1, <3>5
        <4>2. /\ order' \in Seq(Topics) /\ Len(order') = Len(order) + 1
              /\ order'[Len(order) + 1] = t
              /\ \A i \in DOMAIN order : i \in DOMAIN order' /\ order'[i] = order[i]
              /\ \A i \in DOMAIN order' : i \in DOMAIN order \/ i = Len(order) + 1
          BY <4>1
        <4>3. \A i \in DOMAIN order : order[i] # t BY <3>5
        <4>4. \A i, j \in DOMAIN order' : order'[i] = order'[j] => i = j
          BY <4>2, <4>3
        <4>5. \A u \in Topics : tally'[u] = Empty => \A i \in DOMAIN order' : order'[i] # u
          BY <3>2, <4>2
        <4>6. \A i \in DOMAIN order' : tally'[order'[i]].total > 0
          BY <3>2, <4>2, <4>3
        <4> QED BY <3>2, <3>3, <4>2, <4>4, <4>5, <4>6
      <3> QED BY <3>4, <3>5
    <2> QED BY <1>2, <2>1, <2>2 DEF Next
  <1> QED BY <1>1, <1>2, PTL DEF Spec

\* The tallies are well typed, and no topic enters the breakdown twice.
THEOREM TypeCorrect == Spec => []TypeOK
  <1>1. Counts => TypeOK
    BY DEF Counts, TypeOK, IsInjective
  <1> QED BY <1>1, CountsInductive, PTL

-----------------------------------------------------------------------------
(* Rounding                                                                 *)

\* Division leaves a remainder smaller than the divisor.
LEMMA Division ==
  ASSUME NEW a \in Nat, NEW t \in Nat, t > 0
  PROVE  /\ a \div t \in Nat /\ (a % t) \in 0 .. (t - 1)
         /\ a = t * (a \div t) + (a % t)
  BY Z3

LEMMA TimesMonotone ==
  ASSUME NEW t \in Nat, NEW x \in Int, NEW y \in Int, x <= y
  PROVE  t * x <= t * y
  <1>1. PICK d \in Nat : y = x + d
    <2>1. y - x \in Nat /\ y = x + (y - x) OBVIOUS
    <2> QED BY <2>1
  <1>2. t * d \in Nat OBVIOUS
  <1>3. t * (x + d) = t * x + t * d BY Z3
  <1> QED BY <1>1, <1>2, <1>3

\* What decides a verdict is decided the same way after rounding to hundredths:
\* one row is more than half a percentage point of fewer than 200 rows.
LEMMA RoundingDecides ==
  ASSUME NEW n \in Tally, n.total > 0, n.total < 200, NEW p \in 0 .. 100
  PROVE  Percent(n) >= 100 * p <=> 100 * n.correct >= p * n.total
  <1> DEFINE c == n.correct
             t == n.total
             q == (10000 * c) \div t
             r == (10000 * c) % t
  <1>0. c \in Nat /\ t \in Nat /\ t > 0 /\ t < 200 BY DEF Tally
  <1>1. q \in Nat /\ r \in 0 .. (t - 1) /\ 10000 * c = t * q + r
    <2>1. 10000 * c \in Nat BY <1>0
    <2> HIDE DEF c, t
    <2> QED BY <1>0, <2>1, Division
  <1>2. Percent(n) \in {q, q + 1} /\ (Percent(n) = q + 1 => 2 * r >= t)
    BY <1>0, <1>1 DEF Percent
  <1> HIDE DEF q, r, c, t
  <1>3. CASE 100 * c >= p * t
    <2>1. 10000 * c >= 100 * (p * t) BY <1>0, <1>3
    <2>2. ASSUME q <= 100 * p - 1 PROVE FALSE
      <3>1. t * q <= t * (100 * p - 1) BY <1>0, <1>1, <2>2, TimesMonotone
      <3>2. t * (100 * p - 1) = 100 * (p * t) - t BY <1>0, Z3
      <3>3. t * q \in Nat /\ p * t \in Nat BY <1>0, <1>1
      <3> QED BY <1>0, <1>1, <2>1, <3>1, <3>2, <3>3
    <2> QED BY <1>0, <1>1, <1>2, <1>3, <2>2 DEF c, t
  <1>4. CASE ~(100 * c >= p * t)
    <2>1. p * t \in Nat BY <1>0
    <2>2. 10000 * c <= 100 * (p * t) - 100 BY <1>0, <1>4, <2>1
    <2>3. ASSUME q >= 100 * p PROVE FALSE
      <3>1. t * (100 * p) <= t * q BY <1>0, <1>1, <2>3, TimesMonotone
      <3>2. t * (100 * p) = 100 * (p * t) BY <1>0, Z3
      <3>3. t * q \in Nat BY <1>0, <1>1
      <3> QED BY <1>0, <1>1, <2>1, <2>2, <3>1, <3>2, <3>3
    <2>4. ASSUME Percent(n) = q + 1, q = 100 * p - 1 PROVE FALSE
      <3>1. t * q = 100 * (p * t) - t BY <1>0, <2>4, Z3
      <3>2. r <= t - 100 BY <1>0, <1>1, <2>1, <2>2, <3>1
      <3> QED BY <1>0, <1>1, <1>2, <2>4, <3>2
    <2> QED BY <1>0, <1>1, <1>2, <1>4, <2>3, <2>4 DEF c, t
  <1>5. (100 * c >= p * t) \/ ~(100 * c >= p * t) OBVIOUS
  <1> QED BY <1>3, <1>4, <1>5

-----------------------------------------------------------------------------
(* Weakest first                                                            *)

\* Less, equal or greater: the same of equal shares.
LEMMA CrossCompare ==
  ASSUME NEW a \in Nat, NEW b \in Nat, NEW t \in Nat, NEW u \in Nat,
         t > 0, u > 0, a * u = b * t
  PROVE  (a > t => b > u) /\ (a < t => b < u)
  <1>1. ASSUME a > t PROVE b > u
    <2>1. u * (t + 1) <= u * a BY <1>1, TimesMonotone
    <2>2. u * (t + 1) = t * u + u /\ u * a = b * t BY Z3
    <2>3. ASSUME b <= u PROVE FALSE
      <3>1. t * b <= t * u BY <2>3, TimesMonotone
      <3>2. t * b = b * t BY Z3
      <3>3. b * t \in Nat /\ t * u \in Nat OBVIOUS
      <3> QED BY <2>1, <2>2, <3>1, <3>2, <3>3
    <2> QED BY <2>3
  <1>2. ASSUME a < t PROVE b < u
    <2>1. u * (a + 1) <= u * t BY <1>2, TimesMonotone
    <2>2. u * (a + 1) = b * t + u /\ u * t = t * u BY Z3
    <2>3. ASSUME b >= u PROVE FALSE
      <3>1. t * u <= t * b BY <2>3, TimesMonotone
      <3>2. t * b = b * t BY Z3
      <3>3. b * t \in Nat /\ t * u \in Nat OBVIOUS
      <3> QED BY <2>1, <2>2, <3>1, <3>2, <3>3
    <2> QED BY <2>3
  <1> QED BY <1>1, <1>2

\* A quotient of equal shares is the same, and the remainders have equal shares.
LEMMA SameQuotient ==
  ASSUME NEW a \in Nat, NEW b \in Nat, NEW t \in Nat, NEW u \in Nat, t > 0, u > 0,
         a * u = b * t,
         NEW q \in Nat, NEW r \in 0 .. (t - 1), a = t * q + r,
         NEW p \in Nat, NEW s \in 0 .. (u - 1), b = u * p + s
  PROVE  q = p /\ r * u = s * t
  <1>1. a * u = (t * u) * q + u * r /\ b * t = (t * u) * p + t * s
    BY Z3
  <1>2. u * r <= u * (t - 1) /\ t * s <= t * (u - 1)
    BY TimesMonotone
  <1>3. u * (t - 1) = t * u - u /\ t * (u - 1) = t * u - t
    BY Z3
  <1>4. /\ u * r \in Nat /\ t * s \in Nat /\ t * u \in Nat
        /\ (t * u) * q \in Nat /\ (t * u) * p \in Nat
    OBVIOUS
  <1>5. ASSUME q >= p + 1 PROVE FALSE
    <2>1. (t * u) * (p + 1) <= (t * u) * q BY <1>4, <1>5, TimesMonotone
    <2>2. (t * u) * (p + 1) = (t * u) * p + t * u BY Z3
    <2> QED BY <1>1, <1>2, <1>3, <1>4, <2>1, <2>2
  <1>6. ASSUME p >= q + 1 PROVE FALSE
    <2>1. (t * u) * (q + 1) <= (t * u) * p BY <1>4, <1>6, TimesMonotone
    <2>2. (t * u) * (q + 1) = (t * u) * q + t * u BY Z3
    <2> QED BY <1>1, <1>2, <1>3, <1>4, <2>1, <2>2
  <1>7. q = p BY <1>5, <1>6
  <1>8. u * r = t * s BY <1>1, <1>4, <1>7
  <1>9. u * r = r * u /\ t * s = s * t BY Z3
  <1> QED BY <1>7, <1>8, <1>9

\* What Percent does, by its quotient and remainder.
LEMMA PercentOf ==
  ASSUME NEW n \in Tally, n.total > 0
  PROVE  \E q \in Nat, r \in 0 .. (n.total - 1) :
           /\ 10000 * n.correct = n.total * q + r
           /\ Percent(n) = IF 2 * r > n.total \/ (2 * r = n.total /\ q % 2 = 1)
                           THEN q + 1 ELSE q
  <1> DEFINE q == (10000 * n.correct) \div n.total
             r == (10000 * n.correct) % n.total
  <1>1. n.total \in Nat /\ 10000 * n.correct \in Nat BY DEF Tally
  <1>2. q \in Nat /\ r \in 0 .. (n.total - 1) /\ 10000 * n.correct = n.total * q + r
    <2>1. PICK a \in Nat, t \in Nat : a = 10000 * n.correct /\ t = n.total BY <1>1
    <2>2. t > 0 BY <2>1
    <2>3. /\ a \div t \in Nat /\ (a % t) \in 0 .. (t - 1)
          /\ a = t * (a \div t) + (a % t)
      <3> HIDE DEF q, r
      <3> QED BY ONLY <2>2, a \in Nat, t \in Nat, Division
    <2> QED BY <2>1, <2>3
  <1>3. Percent(n) = IF 2 * r > n.total \/ (2 * r = n.total /\ q % 2 = 1)
                     THEN q + 1 ELSE q
    BY <1>1 DEF Percent
  <1> HIDE DEF q, r
  <1> QED BY <1>2, <1>3

LEMMA SameShare ==
  ASSUME NEW n \in Tally, NEW m \in Tally, n.total > 0, m.total > 0,
         n.correct * m.total = m.correct * n.total
  PROVE  Percent(n) = Percent(m)
  <1>1. PICK c \in Nat, t \in Nat, d \in Nat, u \in Nat :
          c = n.correct /\ t = n.total /\ d = m.correct /\ u = m.total
    BY DEF Tally
  <1>2. PICK q \in Nat, r \in 0 .. (t - 1) :
          /\ 10000 * c = t * q + r
          /\ Percent(n) = IF 2 * r > t \/ (2 * r = t /\ q % 2 = 1) THEN q + 1 ELSE q
    BY <1>1, PercentOf
  <1>3. PICK p \in Nat, s \in 0 .. (u - 1) :
          /\ 10000 * d = u * p + s
          /\ Percent(m) = IF 2 * s > u \/ (2 * s = u /\ p % 2 = 1) THEN p + 1 ELSE p
    BY <1>1, PercentOf
  <1>4. c * u = d * t BY <1>1
  <1>5. (10000 * c) * u = (10000 * d) * t BY <1>4, Z3
  <1>6. q = p /\ r * u = s * t
    <2>1. PICK a \in Nat, b \in Nat : a = 10000 * c /\ b = 10000 * d OBVIOUS
    <2>2. t > 0 /\ u > 0 BY <1>1
    <2>3. a * u = b * t /\ a = t * q + r /\ b = u * p + s
      BY <1>2, <1>3, <1>5, <2>1
    <2> QED BY ONLY <2>2, <2>3, SameQuotient
  <1>7. (2 * r) * u = (2 * s) * t /\ (2 * s) * t = (2 * r) * u BY <1>6, Z3
  <1>8. (2 * r > t <=> 2 * s > u) /\ (2 * r < t <=> 2 * s < u)
    <2>1. 2 * r \in Nat /\ 2 * s \in Nat OBVIOUS
    <2> QED BY <1>1, <1>7, <2>1, CrossCompare
  <1>9. 2 * r = t <=> 2 * s = u BY <1>8
  <1> QED BY <1>2, <1>3, <1>6, <1>8, <1>9

\* A percentage is half a hundredth off at most.
LEMMA Near ==
  ASSUME NEW n \in Tally, n.total > 0
  PROVE  /\ Percent(n) \in Nat
         /\ 20000 * n.correct <= 2 * (n.total * Percent(n)) + n.total
         /\ 20000 * n.correct >= 2 * (n.total * Percent(n)) - n.total
  <1>1. PICK c \in Nat, t \in Nat : c = n.correct /\ t = n.total
    BY DEF Tally
  <1>2. PICK q \in Nat, r \in 0 .. (t - 1) :
          /\ 10000 * c = t * q + r
          /\ Percent(n) = IF 2 * r > t \/ (2 * r = t /\ q % 2 = 1) THEN q + 1 ELSE q
    BY <1>1, PercentOf
  <1>3. t * q \in Nat /\ t * (q + 1) = t * q + t BY Z3
  <1>4. CASE Percent(n) = q BY <1>1, <1>2, <1>3, <1>4
  <1>5. CASE Percent(n) = q + 1 BY <1>1, <1>2, <1>3, <1>5
  <1> QED BY <1>2, <1>4, <1>5

\* Rounding never takes a mark away from an attempt that has reached it.
LEMMA MarkReached ==
  ASSUME NEW n \in Tally, n.total > 0, NEW mark \in Nat,
         10000 * n.correct >= mark * n.total
  PROVE  Percent(n) >= mark
  <1>1. PICK c \in Nat, t \in Nat, p \in Nat :
          /\ c = n.correct /\ t = n.total /\ p = Percent(n)
          /\ 20000 * c <= 2 * (t * p) + t
    BY Near DEF Tally
  <1>2. mark * t \in Nat /\ t * p \in Nat BY <1>1
  <1>3. SUFFICES ASSUME p + 1 <= mark PROVE FALSE BY <1>1
  <1>4. t * (p + 1) <= t * mark BY <1>1, <1>3, TimesMonotone
  <1>5. t * (p + 1) = t * p + t /\ t * mark = mark * t BY Z3
  <1> QED BY <1>1, <1>2, <1>4, <1>5

\* Nor does it give the mark to one that is more than half a hundredth short.
LEMMA MarkNearlyReached ==
  ASSUME NEW n \in Tally, n.total > 0, NEW mark \in Nat, Percent(n) >= mark
  PROVE  20000 * n.correct >= (2 * mark - 1) * n.total
  <1>1. PICK c \in Nat, t \in Nat, p \in Nat :
          /\ c = n.correct /\ t = n.total /\ p = Percent(n)
          /\ 20000 * c >= 2 * (t * p) - t
    BY Near DEF Tally
  <1>2. t * mark <= t * p BY <1>1, TimesMonotone
  <1>3. (2 * mark - 1) * t = 2 * (t * mark) - t BY Z3
  <1>4. t * mark \in Nat /\ t * p \in Nat BY <1>1
  <1> QED BY <1>1, <1>2, <1>3, <1>4

\* At every mark of two decimals and for any number of rows: whoever reaches the
\* mark passes, and who passes is at most half a hundredth short of it; at a mark
\* of whole percents and with fewer than 200 rows who passes has reached it.
THEOREM RoundingIsFair == Spec => []PassedExactly
  <1>1. Counts => PassedExactly
    <2> SUFFICES ASSUME Counts, NEW mark \in PassMarks, score.total > 0
                 PROVE  LET reached == 10000 * score.correct >= mark * score.total
                        IN /\ reached => Passed(mark)
                           /\ Passed(mark) =>
                                20000 * score.correct >= (2 * mark - 1) * score.total
                           /\ mark % 100 = 0 /\ score.total < 200 =>
                                (Passed(mark) <=> reached)
      BY DEF PassedExactly
    <2>1. PICK n \in Tally : n = score BY DEF Counts
    <2>2. mark \in Nat BY PassMarksAssumption
    <2>3. n.total > 0 /\ (Passed(mark) <=> Percent(n) >= mark) BY <2>1 DEF Passed
    <2>4. 10000 * n.correct >= mark * n.total => Passed(mark)
      BY <2>2, <2>3, MarkReached
    <2>5. Passed(mark) => 20000 * n.correct >= (2 * mark - 1) * n.total
      BY <2>2, <2>3, MarkNearlyReached
    <2>6. ASSUME mark % 100 = 0, n.total < 200
          PROVE  Passed(mark) <=> 10000 * n.correct >= mark * n.total
      <3>1. PICK p \in 0..100 : mark = 100 * p
        <4>1. /\ mark \div 100 \in Nat
              /\ mark = 100 * (mark \div 100) + (mark % 100)
          BY <2>2, Division
        <4>2. mark <= 10000 BY PassMarksAssumption
        <4> QED BY <2>6, <4>1, <4>2
      <3>2. Percent(n) >= 100 * p <=> 100 * n.correct >= p * n.total
        BY <2>3, <2>6, RoundingDecides
      <3>3. PICK c \in Nat, t \in Nat : c = n.correct /\ t = n.total BY DEF Tally
      <3>4. (100 * p) * t = 100 * (p * t) /\ p * t \in Nat BY Z3
      <3> QED BY <2>3, <3>1, <3>2, <3>3, <3>4
    <2> QED BY <2>1, <2>4, <2>5, <2>6
  <1> QED BY <1>1, CountsInductive, PTL

\* Topics of fewer than 100 rows with the same percentage have the same share,
\* and those with a lower one a smaller share.
LEMMA RoundedOrder ==
  ASSUME NEW n \in Tally, NEW m \in Tally, n.total > 0, m.total > 0
  PROVE  /\ Percent(n) < Percent(m) => n.correct * m.total < m.correct * n.total
         /\ Percent(n) = Percent(m) /\ n.total < 100 /\ m.total < 100 =>
              n.correct * m.total = m.correct * n.total
  <1>1. PICK c \in Nat, t \in Nat, d \in Nat, u \in Nat, P \in Nat, Q \in Nat :
          /\ c = n.correct /\ t = n.total /\ d = m.correct /\ u = m.total
          /\ P = Percent(n) /\ Q = Percent(m)
    BY Near DEF Tally
  <1>2. /\ 20000 * c <= 2 * (t * P) + t /\ 20000 * c >= 2 * (t * P) - t
        /\ 20000 * d <= 2 * (u * Q) + u /\ 20000 * d >= 2 * (u * Q) - u
    BY <1>1, Near
  <1>3. /\ t * P \in Nat /\ u * Q \in Nat /\ c * u \in Nat /\ d * t \in Nat /\ t * u \in Nat
        /\ (t * u) * P \in Nat /\ (t * u) * Q \in Nat
    OBVIOUS
  <1>4. /\ u * (20000 * c) <= u * (2 * (t * P) + t) /\ u * (2 * (t * P) - t) <= u * (20000 * c)
        /\ t * (20000 * d) <= t * (2 * (u * Q) + u) /\ t * (2 * (u * Q) - u) <= t * (20000 * d)
    BY <1>2, <1>3, TimesMonotone
  <1>5. /\ u * (20000 * c) = 20000 * (c * u) /\ t * (20000 * d) = 20000 * (d * t)
        /\ u * (2 * (t * P) + t) = 2 * ((t * u) * P) + t * u
        /\ u * (2 * (t * P) - t) = 2 * ((t * u) * P) - t * u
        /\ t * (2 * (u * Q) + u) = 2 * ((t * u) * Q) + t * u
        /\ t * (2 * (u * Q) - u) = 2 * ((t * u) * Q) - t * u
    BY Z3
  <1>6. ASSUME P < Q PROVE c * u < d * t
    <2>1. (t * u) * (P + 1) <= (t * u) * Q BY <1>3, <1>6, TimesMonotone
    <2>2. (t * u) * (P + 1) = (t * u) * P + t * u BY Z3
    <2>3. c * u <= d * t BY <1>3, <1>4, <1>5, <2>1, <2>2
    <2>4. c * u # d * t BY <1>1, <1>6, SameShare
    <2> QED BY <1>3, <2>3, <2>4
  <1>7. ASSUME P = Q, t < 100, u < 100 PROVE c * u = d * t
    <2>1. t * u <= t * 99 /\ 99 * t <= 99 * 99 BY <1>7, TimesMonotone
    <2>2. t * u < 10000 BY <1>3, <2>1
    <2>3. (t * u) * P = (t * u) * Q BY <1>7
    <2> QED BY <1>3, <1>4, <1>5, <2>2, <2>3
  <1> QED BY <1>1, <1>6, <1>7

\* The order of the breakdown, between places of the list that is sorted.
Before(j, k) ==
  \/ Weaker(order[j], order[k])
  \/ ~Weaker(order[k], order[j]) /\ j < k

Ahead(k) == {j \in DOMAIN order : Before(j, k)}

Place(k) == 1 + Cardinality(Ahead(k))

LEMMA BeforeIsOrder ==
  ASSUME Counts
  PROVE  /\ \A k \in DOMAIN order : ~Before(k, k)
         /\ \A j, k \in DOMAIN order : j # k => Before(j, k) \/ Before(k, j)
         /\ \A j, k, l \in DOMAIN order : Before(j, k) /\ Before(k, l) => Before(j, l)
  <1>1. \A k \in DOMAIN order : k \in Nat /\ order[k] \in Topics
    BY DEF Counts
  <1>2. \A k \in DOMAIN order : Percent(tally[order[k]]) \in Nat /\ tally[order[k]].total \in Nat
    <2> SUFFICES ASSUME NEW k \in DOMAIN order
                 PROVE  Percent(tally[order[k]]) \in Nat /\ tally[order[k]].total \in Nat
      OBVIOUS
    <2>1. tally[order[k]] \in Tally /\ tally[order[k]].total > 0
      BY <1>1 DEF Counts
    <2> QED BY <2>1, Near DEF Tally
  <1> QED BY <1>1, <1>2 DEF Before, Weaker

\* Every place is taken, and by the order of Before.
LEMMA Places ==
  ASSUME Counts
  PROVE  /\ \A n \in DOMAIN order : \E k \in DOMAIN order : Place(k) = n
         /\ \A j, k \in DOMAIN order : Place(j) \in DOMAIN order /\ (Place(j) < Place(k) => Before(j, k))
         /\ \A j, k \in DOMAIN order : Place(j) = Place(k) => j = k
  <1>1. PICK len \in Nat : len = Len(order) /\ DOMAIN order = 1 .. len
    BY DEF Counts
  <1>2. IsFiniteSet(1 .. len) /\ Cardinality(1 .. len) = len
    BY FS_Interval
  <1>3. \A k \in 1 .. len : k \notin Ahead(k) /\ Ahead(k) \subseteq 1 .. len
    BY <1>1, BeforeIsOrder DEF Ahead
  <1>4. ASSUME NEW k \in 1 .. len
        PROVE  Place(k) \in 1 .. len /\ IsFiniteSet(Ahead(k)) /\ Cardinality(Ahead(k)) \in Nat
    <2>1. PICK S \in SUBSET (1 .. len) : S = Ahead(k) BY <1>3
    <2>2. S # 1 .. len BY <1>3, <2>1
    <2>3. /\ IsFiniteSet(S) /\ Cardinality(S) <= len
          /\ Cardinality(S) = len => S = 1 .. len
      BY <1>2, FS_Subset
    <2>4. Cardinality(S) \in Nat BY <2>3, FS_CardinalityType
    <2> QED BY <2>1, <2>2, <2>3, <2>4 DEF Place
  <1>5. ASSUME NEW j \in 1 .. len, NEW k \in 1 .. len, Before(j, k)
        PROVE  Place(j) < Place(k)
    <2>1. PICK S, T : S = Ahead(j) /\ T = Ahead(k) OBVIOUS
    <2>2. S \in SUBSET T BY <1>1, <1>5, <2>1, BeforeIsOrder DEF Ahead
    <2>3. j \in T /\ j \notin S BY <1>1, <1>3, <1>5, <2>1 DEF Ahead
    <2>4. IsFiniteSet(T) /\ Cardinality(T) \in Nat /\ Cardinality(S) \in Nat
      BY <1>4, <2>1
    <2>5. Cardinality(S) <= Cardinality(T) /\ Cardinality(S) # Cardinality(T)
      BY <2>2, <2>3, <2>4, FS_Subset
    <2> QED BY <2>1, <2>4, <2>5 DEF Place
  <1>6. ASSUME NEW j \in 1 .. len, NEW k \in 1 .. len, Place(j) = Place(k)
        PROVE  j = k
    <2>1. ASSUME Before(j, k) \/ Before(k, j) PROVE FALSE
      <3>1. Place(j) < Place(k) \/ Place(k) < Place(j) BY <1>5, <2>1
      <3>2. Place(j) \in Nat /\ Place(k) \in Nat BY <1>4
      <3> QED BY <1>6, <3>1, <3>2
    <2> QED BY <1>1, <2>1, BeforeIsOrder
  <1>7. \A n \in 1 .. len : \E k \in 1 .. len : Place(k) = n
    <2>1. PICK f : f = [k \in 1 .. len |-> Place(k)] OBVIOUS
    <2>2. f \in [1 .. len -> 1 .. len] BY <1>4, <2>1
    <2>3. f \in Injection(1 .. len, 1 .. len)
      BY <1>6, <2>1, <2>2 DEF Injection, IsInjective
    <2>4. f \in Surjection(1 .. len, 1 .. len)
      BY <1>2, <2>3, FS_Injection
    <2> QED BY <2>1, <2>4 DEF Surjection
  <1>8. ASSUME NEW j \in 1 .. len, NEW k \in 1 .. len, Place(j) < Place(k)
        PROVE  Before(j, k)
    <2>1. j # k BY <1>4, <1>8
    <2>2. Before(j, k) \/ Before(k, j) BY <1>1, <2>1, BeforeIsOrder
    <2>3. ~Before(k, j)
      <3>1. ASSUME Before(k, j) PROVE Place(k) < Place(j) BY <1>5, <3>1
      <3> QED BY <1>4, <1>8, <3>1
    <2> QED BY <2>2, <2>3
  <1>9. \A k \in 1 .. len : Place(k) \in 1 .. len BY <1>4
  <1> QED BY <1>1, <1>6, <1>7, <1>8, <1>9

\* The n-th topic of the breakdown is the one of place n.
LEMMA BreakdownPlaces ==
  ASSUME Counts
  PROVE  /\ DOMAIN Breakdown = DOMAIN order
         /\ \A n \in DOMAIN order :
              \E k \in DOMAIN order : Place(k) = n /\ Breakdown[n] = order[k]
  <1>1. Breakdown = [n \in DOMAIN order |-> order[CHOOSE k \in DOMAIN order : Place(k) = n]]
    BY DEF Breakdown, SortedBy, Place, Ahead, Before
  <1> QED BY <1>1, Places

\* Topics of fewer than 100 rows come in the order of their exact shares.
LEMMA InExactOrder ==
  ASSUME Counts, \A t \in Topics : tally[t].total < 100,
         NEW j \in DOMAIN order, NEW k \in DOMAIN order, Before(j, k)
  PROVE  LET n == tally[order[j]]
             m == tally[order[k]]
         IN \/ n.correct * m.total < m.correct * n.total
            \/ n.correct * m.total = m.correct * n.total /\ n.total >= m.total
  <1>1. PICK n \in Tally, m \in Tally : n = tally[order[j]] /\ m = tally[order[k]]
    BY DEF Counts
  <1>2. n.total > 0 /\ n.total < 100 /\ m.total > 0 /\ m.total < 100
    <2>1. order[j] \in Topics /\ order[k] \in Topics BY DEF Counts
    <2> QED BY <1>1, <2>1 DEF Counts
  <1>3. Percent(n) \in Nat /\ Percent(m) \in Nat /\ n.total \in Nat /\ m.total \in Nat
    BY <1>2, Near DEF Tally
  <1>4. \/ Percent(n) < Percent(m)
        \/ Percent(n) = Percent(m) /\ n.total >= m.total
    BY <1>1, <1>3 DEF Before, Weaker
  <1> HIDE DEF Tally
  <1>5. \/ n.correct * m.total < m.correct * n.total
        \/ n.correct * m.total = m.correct * n.total /\ n.total >= m.total
    BY <1>2, <1>4, RoundedOrder
  <1> QED BY <1>1, <1>5

LEMMA ExactlySorted ==
  ASSUME Counts, \A t \in Topics : tally[t].total < 100
  PROVE  WeakestFirst
  <1> SUFFICES ASSUME NEW a \in DOMAIN Breakdown, NEW b \in DOMAIN Breakdown, a < b
               PROVE  LET n == tally[Breakdown[a]]
                          m == tally[Breakdown[b]]
                      IN \/ n.correct * m.total < m.correct * n.total
                         \/ n.correct * m.total = m.correct * n.total /\ n.total >= m.total
    BY DEF WeakestFirst
  <1>1. PICK j \in DOMAIN order : Place(j) = a /\ Breakdown[a] = order[j]
    BY BreakdownPlaces
  <1>2. PICK k \in DOMAIN order : Place(k) = b /\ Breakdown[b] = order[k]
    BY BreakdownPlaces
  <1>3. Before(j, k) BY <1>1, <1>2, Places
  <1> QED BY <1>1, <1>2, <1>3, InExactOrder

\* The breakdown is sorted by rounded percentages, and yet by the exact shares:
\* with fewer than 100 rows to a topic two different shares never round to the
\* same hundredth, and a smaller one never to a larger.
THEOREM WeakestComeFirst ==
  Spec => []((\A t \in Topics : tally[t].total < 100) => WeakestFirst)
  <1>1. Counts => ((\A t \in Topics : tally[t].total < 100) => WeakestFirst)
    BY ExactlySorted
  <1> QED BY <1>1, CountsInductive, PTL

-----------------------------------------------------------------------------
(* Sums                                                                     *)

\* A set of numbers that is not empty has a least one.
LEMMA Least ==
  ASSUME NEW T \in SUBSET Nat, T # {}
  PROVE  \E m \in T : \A k \in T : m <= k
  <1>1. PICK R : R = {p \in Nat \X Nat : p[1] < p[2]} OBVIOUS
  <1>2. IsWellFoundedOn(R, Nat)
    BY <1>1, NatLessThanWellFounded DEF OpToRel
  <1>3. PICK m \in T : \A k \in T : ~(<<k, m>> \in R)
    BY <1>2, WFMin
  <1>4. ASSUME NEW k \in T PROVE m <= k
    <2>1. CASE k < m
      <3>1. <<k, m>> \in Nat \X Nat /\ <<k, m>>[1] < <<k, m>>[2] BY <2>1
      <3>2. <<k, m>> \in R BY ONLY <1>1, <3>1
      <3> QED BY <1>3, <3>2
    <2> QED BY <2>1
  <1> QED BY <1>4

\* A sum over the places of a sequence, whatever the order in which they are
\* taken, is what an additive measure of the sets of places gives.
LEMMA SumIsMeasure ==
  ASSUME NEW n \in Nat, NEW w \in [1 .. n -> Nat], NEW h \in [SUBSET (1 .. n) -> Nat],
         h[{}] = 0,
         \A s \in SUBSET (1 .. n) : \A x \in s : h[s] = h[s \ {x}] + w[x]
  PROVE  SumFunction(w) = h[1 .. n]
  <1> DEFINE C(s) == CHOOSE x \in s : TRUE
             Eq(f) == f = [s \in SUBSET (1 .. n) |->
                             IF s = {} THEN 0 ELSE w[C(s)] + f[s \ {C(s)}]]
             sum == CHOOSE f : Eq(f)
  <1>1. \A s \in SUBSET (1 .. n) : s # {} => C(s) \in s
    OBVIOUS
  <1>3. SumFunction(w) = sum[1 .. n]
    <2>1. DOMAIN w = 1 .. n OBVIOUS
    <2> QED BY <2>1 DEF SumFunction, SumFunctionOnSet, FoldFunctionOnSet, MapThenFoldSet
  <1> HIDE DEF C
  <1>2. Eq(h)
    <2>1. \A s \in SUBSET (1 .. n) :
            h[s] = IF s = {} THEN 0 ELSE w[C(s)] + h[s \ {C(s)}]
      <3> SUFFICES ASSUME NEW s \in SUBSET (1 .. n), s # {}
                   PROVE  h[s] = w[C(s)] + h[s \ {C(s)}]
        OBVIOUS
      <3>1. C(s) \in s /\ C(s) \in 1 .. n BY <1>1
      <3>2. w[C(s)] \in Nat /\ h[s \ {C(s)}] \in Nat BY <3>1
      <3>3. h[s] = h[s \ {C(s)}] + w[C(s)] BY <3>1
      <3> QED BY <3>2, <3>3
    <2> QED BY <2>1
  <1>4. Eq(sum)
    <2> HIDE DEF Eq
    <2> QED BY <1>2 DEF sum
  <1>5. \A s \in SUBSET (1 .. n) :
          sum[s] = IF s = {} THEN 0 ELSE w[C(s)] + sum[s \ {C(s)}]
    BY ONLY <1>4
  <1> HIDE DEF sum
  <1> HIDE DEF Eq
  <1>6. IsFiniteSet(1 .. n) BY FS_Interval
  <1>7. SUFFICES ASSUME NEW s \in SUBSET (1 .. n), sum[s] # h[s] PROVE FALSE
    <2>1. (1 .. n) \in SUBSET (1 .. n) OBVIOUS
    <2> QED BY <1>3, <2>1
  <1>8. PICK T : T = {Cardinality(r) : r \in {u \in SUBSET (1 .. n) : sum[u] # h[u]}}
    OBVIOUS
  <1>9. \A r \in SUBSET (1 .. n) : IsFiniteSet(r) /\ Cardinality(r) \in Nat
    BY <1>6, FS_Subset, FS_CardinalityType
  <1>10. T \in SUBSET Nat /\ Cardinality(s) \in T
    <2>1. s \in {u \in SUBSET (1 .. n) : sum[u] # h[u]} BY <1>7
    <2>2. Cardinality(s) \in T BY <1>8, <2>1
    <2>3. ASSUME NEW k \in T PROVE k \in Nat
      <3>1. PICK u \in {v \in SUBSET (1 .. n) : sum[v] # h[v]} : k = Cardinality(u)
        BY <1>8
      <3> QED BY <1>9, <3>1
    <2> QED BY <2>2, <2>3
  <1>11. PICK m \in T : \A k \in T : m <= k BY <1>10, Least
  <1>12. PICK r \in SUBSET (1 .. n) : sum[r] # h[r] /\ m = Cardinality(r)
    BY <1>8, <1>11
  <1>13. r # {} BY <1>5, <1>12
  <1>14. PICK x \in r : x = C(r) BY <1>1, <1>13
  <1>15. Cardinality(r \ {x}) = m - 1 /\ m \in Nat
    BY <1>9, <1>12, FS_RemoveElement
  <1>16. PICK q \in SUBSET (1 .. n) : q = r \ {x} OBVIOUS
  <1>17. sum[q] = h[q]
    <2>1. CASE sum[q] # h[q]
      <3>1. q \in {u \in SUBSET (1 .. n) : sum[u] # h[u]} BY <2>1
      <3>2. Cardinality(q) \in T BY <1>8, <3>1
      <3> QED BY <1>11, <1>15, <1>16, <3>2
    <2> QED BY <2>1
  <1>18. sum[r] = w[x] + sum[q] BY <1>5, <1>13, <1>14, <1>16
  <1>19. h[r] = h[q] + w[x] /\ h[q] \in Nat /\ w[x] \in Nat BY <1>16
  <1> QED BY <1>12, <1>17, <1>18, <1>19

\* The sums of f over sets of topics, as a measure of these sets; where f is zero
\* outside of a set, its sum is `all'.  It exists in every state since each row
\* adds to it, so no induction over the topics is needed.
Measure(f, all) ==
  \E g \in [SUBSET Topics -> Nat] :
    /\ g[{}] = 0
    /\ \A S \in SUBSET Topics : \A t \in S : g[S] = g[S \ {t}] + f[t]
    /\ \A S \in SUBSET Topics : (\A t \in Topics \ S : f[t] = 0) => g[S] = all

Totals == [t \in Topics |-> tally[t].total]
Corrects == [t \in Topics |-> tally[t].correct]

\* Every topic with rows is listed, and the topics add up to the attempt.
Accounts ==
  /\ Counts
  /\ \A t \in Topics : tally[t].total > 0 => \E i \in DOMAIN order : order[i] = t
  /\ \A t \in Topics : tally[t].correct <= tally[t].total
  /\ Measure(Totals, score.total)
  /\ Measure(Corrects, score.correct)

LEMMA MeasureEmpty == Measure([t \in Topics |-> 0], 0)
  <1>1. PICK g : g = [S \in SUBSET Topics |-> 0] OBVIOUS
  <1> QED BY <1>1 DEF Measure

LEMMA MeasureStep ==
  ASSUME NEW f \in [Topics -> Nat], NEW all \in Nat, Measure(f, all),
         NEW t \in Topics, NEW d \in Nat
  PROVE  Measure([f EXCEPT ![t] = f[t] + d], all + d)
  <1>1. PICK g \in [SUBSET Topics -> Nat] :
          /\ g[{}] = 0
          /\ \A S \in SUBSET Topics : \A u \in S : g[S] = g[S \ {u}] + f[u]
          /\ \A S \in SUBSET Topics : (\A u \in Topics \ S : f[u] = 0) => g[S] = all
    BY DEF Measure
  <1>2. PICK e : e = [f EXCEPT ![t] = f[t] + d] OBVIOUS
  <1>3. e[t] = f[t] + d /\ \A u \in Topics \ {t} : e[u] = f[u] BY <1>2
  <1>4. PICK h : h = [S \in SUBSET Topics |-> IF t \in S THEN g[S] + d ELSE g[S]]
    OBVIOUS
  <1>5. \A S \in SUBSET Topics : g[S] \in Nat /\ h[S] = IF t \in S THEN g[S] + d ELSE g[S]
    BY <1>4
  <1>6. h \in [SUBSET Topics -> Nat] /\ h[{}] = 0 BY <1>1, <1>4, <1>5
  <1>7. ASSUME NEW S \in SUBSET Topics, NEW u \in S
        PROVE  h[S] = h[S \ {u}] + e[u]
    <2>1. PICK R \in SUBSET Topics : R = S \ {u} OBVIOUS
    <2>2. g[S] = g[R] + f[u] /\ f[u] \in Nat /\ u \in Topics BY <1>1, <2>1
    <2>3. CASE u = t
      <3>1. t \in S /\ t \notin R BY <2>1, <2>3
      <3>2. h[S] = g[S] + d /\ h[R] = g[R] BY <1>5, <3>1
      <3> QED BY <1>3, <1>5, <2>1, <2>2, <2>3, <3>2
    <2>4. CASE u # t
      <3>1. t \in S <=> t \in R BY <2>1, <2>4
      <3>2. e[u] = f[u] BY <1>3, <2>2, <2>4
      <3>3. CASE t \in S BY <1>5, <2>1, <2>2, <3>1, <3>2, <3>3
      <3>4. CASE t \notin S BY <1>5, <2>1, <2>2, <3>1, <3>2, <3>4
      <3> QED BY <3>3, <3>4
    <2> QED BY <2>3, <2>4
  <1>8. ASSUME NEW S \in SUBSET Topics, \A u \in Topics \ S : e[u] = 0
        PROVE  h[S] = all + d
    <2>1. \A u \in Topics \ S : f[u] = 0 BY <1>3, <1>8
    <2>2. g[S] = all BY <1>1, <2>1
    <2>3. CASE t \in S BY <1>5, <2>2, <2>3
    <2>4. CASE t \notin S
      <3>1. f[t] + d = 0 BY <1>3, <1>8, <2>4
      <3>2. d = 0 BY <3>1
      <3> QED BY <1>5, <2>2, <2>4, <3>2
    <2> QED BY <2>3, <2>4
  <1>9. Measure(e, all + d) BY <1>6, <1>7, <1>8 DEF Measure
  <1> QED BY <1>2, <1>9

LEMMA AccountsInductive == Spec => []Accounts
  <1>1. Init => Accounts
    <2> SUFFICES ASSUME Init PROVE Accounts OBVIOUS
    <2>1. Counts BY DEF Init, Counts, Empty, Tally
    <2>2. /\ Totals = [t \in Topics |-> 0] /\ Corrects = [t \in Topics |-> 0]
          /\ score.total = 0 /\ score.correct = 0
          /\ \A t \in Topics : tally[t].total = 0 /\ tally[t].correct = 0
      BY DEF Init, Totals, Corrects, Empty
    <2> QED BY <2>1, <2>2, MeasureEmpty DEF Accounts
  <1>2. ASSUME Accounts, [Next]_vars, Counts'
        PROVE  Accounts'
    <2>1. CASE UNCHANGED vars
      <3>1. order' = order /\ tally' = tally /\ score' = score BY <2>1 DEF vars
      <3>2. Totals' = Totals /\ Corrects' = Corrects BY <3>1 DEF Totals, Corrects
      <3>3. Measure(Totals', score'.total) /\ Measure(Corrects', score'.correct)
        BY <1>2, <3>1, <3>2 DEF Accounts
      <3>4. Measure(Totals, score.total)' /\ Measure(Corrects, score.correct)'
        BY <3>3 DEF Measure
      <3> QED BY <1>2, <3>1, <3>4 DEF Accounts
    <2>2. ASSUME NEW t \in Topics, NEW isCorrect \in BOOLEAN, Row(t, isCorrect)
          PROVE  Accounts'
      <3> DEFINE d == IF isCorrect THEN 1 ELSE 0
      <3>1. /\ tally' = [tally EXCEPT ![t] = Counted(tally[t], isCorrect)]
            /\ score' = Counted(score, isCorrect)
            /\ order' = IF tally[t] = Empty THEN Append(order, t) ELSE order
        BY <2>2 DEF Row
      <3>2. tally \in [Topics -> Tally] /\ score \in Tally /\ order \in Seq(Topics)
        BY <1>2 DEF Accounts, Counts
      <3>3. /\ tally'[t].total = tally[t].total + 1 /\ tally'[t].correct = tally[t].correct + d
            /\ \A u \in Topics \ {t} : tally'[u] = tally[u]
            /\ score'.total = score.total + 1 /\ score'.correct = score.correct + d
        BY <3>1, <3>2 DEF Counted, Tally
      <3>4. d \in Nat /\ d <= 1 OBVIOUS
      <3>5. /\ Totals \in [Topics -> Nat] /\ Corrects \in [Topics -> Nat]
            /\ score.total \in Nat /\ score.correct \in Nat
        BY <3>2 DEF Totals, Corrects, Tally
      <3>6. /\ Totals' = [Totals EXCEPT ![t] = Totals[t] + 1]
            /\ Corrects' = [Corrects EXCEPT ![t] = Corrects[t] + d]
        <4> HIDE DEF d
        <4> QED BY <3>3 DEF Totals, Corrects
      <3>7. Measure(Totals, score.total)'
        <4>1. Measure(Totals, score.total) BY <1>2 DEF Accounts
        <4>2. Measure([Totals EXCEPT ![t] = Totals[t] + 1], score.total + 1)
          BY <3>5, <4>1, MeasureStep
        <4>3. Measure(Totals', score'.total) BY <3>3, <3>6, <4>2
        <4> QED BY <4>3 DEF Measure
      <3>8. Measure(Corrects, score.correct)'
        <4> HIDE DEF d
        <4>1. Measure(Corrects, score.correct) BY <1>2 DEF Accounts
        <4>2. Measure([Corrects EXCEPT ![t] = Corrects[t] + d], score.correct + d)
          BY <3>4, <3>5, <4>1, MeasureStep
        <4>3. Measure(Corrects', score'.correct) BY <3>3, <3>6, <4>2
        <4> QED BY <4>3 DEF Measure
      <3>9. \A u \in Topics : tally'[u].correct <= tally'[u].total
        <4>1. \A u \in Topics : tally[u].correct <= tally[u].total /\ tally[u] \in Tally
          BY <1>2, <3>2 DEF Accounts
        <4>2. tally[t].correct \in Nat /\ tally[t].total \in Nat BY <4>1 DEF Tally
        <4> HIDE DEF d
        <4> QED BY <3>3, <3>4, <4>1, <4>2
      <3>10. \A u \in Topics : tally'[u].total > 0 => \E i \in DOMAIN order' : order'[i] = u
        <4>1. CASE tally[t] = Empty
          <5>1. order' = Append(order, t) BY <3>1, <4>1
          <5>2. /\ \A i \in DOMAIN order : i \in DOMAIN order' /\ order'[i] = order[i]
                /\ Len(order) + 1 \in DOMAIN order' /\ order'[Len(order) + 1] = t
            BY <3>2, <5>1
          <5> QED BY <1>2, <3>3, <5>2 DEF Accounts
        <4>2. CASE tally[t] # Empty
          <5>1. order' = order BY <3>1, <4>2
          <5>2. tally[t].total > 0
            <6>1. /\ tally[t].total \in Nat /\ tally[t].correct \in Nat
                  /\ tally[t].correct <= tally[t].total
                  /\ tally[t] = [total |-> tally[t].total, correct |-> tally[t].correct]
              BY <1>2, <3>2 DEF Tally, Accounts
            <6> QED BY <4>2, <6>1 DEF Empty
          <5> QED BY <1>2, <3>3, <5>1, <5>2 DEF Accounts
        <4> QED BY <4>1, <4>2
      <3> QED BY <1>2, <3>7, <3>8, <3>9, <3>10 DEF Accounts
    <2> QED BY <1>2, <2>1, <2>2 DEF Next
  <1> QED BY <1>1, <1>2, CountsInductive, PTL DEF Spec

\* w gives, along a list b of topics, the values of f, and these add up to `all'.
ListsAll(n, b, f, w, all) ==
  /\ n \in Nat /\ all \in Nat
  /\ f \in [Topics -> Nat] /\ Measure(f, all)
  /\ b \in [1 .. n -> Topics] /\ \A j, k \in 1 .. n : b[j] = b[k] => j = k
  /\ \A t \in Topics : f[t] # 0 => \E k \in 1 .. n : b[k] = t
  /\ w \in [1 .. n -> Nat] /\ \A k \in 1 .. n : w[k] = f[b[k]]

\* A list of the topics outside of which f is zero adds up to the sum of f.
LEMMA ListedSum ==
  ASSUME NEW n, NEW b, NEW f, NEW w, NEW all, ListsAll(n, b, f, w, all)
  PROVE  SumFunction(w) = all
  <1> USE DEF ListsAll
  <1>1. PICK g \in [SUBSET Topics -> Nat] :
          /\ g[{}] = 0
          /\ \A S \in SUBSET Topics : \A u \in S : g[S] = g[S \ {u}] + f[u]
          /\ \A S \in SUBSET Topics : (\A u \in Topics \ S : f[u] = 0) => g[S] = all
    BY DEF Measure
  <1> DEFINE Image(s) == {b[k] : k \in s}
  <1>2. PICK h : h = [s \in SUBSET (1 .. n) |-> g[Image(s)]] OBVIOUS
  <1>4. \A s \in SUBSET (1 .. n) : Image(s) \in SUBSET Topics /\ h[s] = g[Image(s)]
    BY <1>2
  <1>5. \A k \in 1 .. n : w[k] = f[b[k]] /\ b[k] \in Topics OBVIOUS
  <1>6. h \in [SUBSET (1 .. n) -> Nat]
    BY <1>2, <1>4
  <1>7. h[{}] = 0
    <2>1. Image({}) = {} /\ {} \in SUBSET (1 .. n) OBVIOUS
    <2> QED BY <1>1, <1>4, <2>1
  <1>8. ASSUME NEW s \in SUBSET (1 .. n), NEW x \in s
        PROVE  h[s] = h[s \ {x}] + w[x]
    <2>1. Image(s \ {x}) = Image(s) \ {b[x]} /\ b[x] \in Image(s)
      OBVIOUS
    <2>2. s \ {x} \in SUBSET (1 .. n) /\ x \in 1 .. n OBVIOUS
    <2>3. PICK S \in SUBSET Topics : S = Image(s) BY <1>4
    <2>4. PICK t \in S : t = b[x] BY <2>1, <2>3
    <2>5. g[S] = g[S \ {t}] + f[t] BY <1>1
    <2> HIDE DEF Image
    <2>6. h[s] = g[S] /\ h[s \ {x}] = g[S \ {t}]
      BY <1>4, <2>1, <2>2, <2>3, <2>4
    <2> QED BY <1>5, <2>2, <2>4, <2>5, <2>6
  <1>9. h[1 .. n] = all
    <2>1. (1 .. n) \in SUBSET (1 .. n) OBVIOUS
    <2>2. \A t \in Topics \ Image(1 .. n) : f[t] = 0 OBVIOUS
    <2> HIDE DEF Image
    <2> QED BY <1>1, <1>4, <2>1, <2>2
  <1>10. SumFunction(w) = h[1 .. n]
    <2> HIDE DEF Image
    <2>1. \A s \in SUBSET (1 .. n) : \A x \in s : h[s] = h[s \ {x}] + w[x] BY <1>8
    <2> HIDE DEF ListsAll
    <2>2. n \in Nat /\ w \in [1 .. n -> Nat] BY DEF ListsAll
    <2> QED BY ONLY <1>6, <1>7, <2>1, <2>2, SumIsMeasure
  <1> QED BY <1>9, <1>10

\* The breakdown lists the same topics as order, each once.
LEMMA BreakdownLists ==
  ASSUME Counts
  PROVE  /\ Len(order) \in Nat /\ DOMAIN order = 1 .. Len(order)
         /\ Breakdown \in [1 .. Len(order) -> Topics]
         /\ \A j, k \in 1 .. Len(order) : Breakdown[j] = Breakdown[k] => j = k
         /\ \A k \in 1 .. Len(order) : \E n \in 1 .. Len(order) : Breakdown[n] = order[k]
         /\ \A n \in 1 .. Len(order) : \E k \in 1 .. Len(order) : Breakdown[n] = order[k]
  <1>1. /\ Len(order) \in Nat /\ DOMAIN order = 1 .. Len(order)
        /\ \A k \in 1 .. Len(order) : order[k] \in Topics
        /\ \A j, k \in 1 .. Len(order) : order[j] = order[k] => j = k
    BY DEF Counts
  <1>2. /\ Breakdown = [n \in 1 .. Len(order) |-> Breakdown[n]]
        /\ \A n \in 1 .. Len(order) :
              \E k \in 1 .. Len(order) : Place(k) = n /\ Breakdown[n] = order[k]
    <2>1. Breakdown = [n \in DOMAIN order |-> order[CHOOSE k \in DOMAIN order : Place(k) = n]]
      BY DEF Breakdown, SortedBy, Place, Ahead, Before
    <2> QED BY <1>1, <2>1, BreakdownPlaces
  <1>3. \A k \in 1 .. Len(order) : Place(k) \in 1 .. Len(order)
    BY <1>1, Places
  <1>4. PICK len \in Nat : len = Len(order) BY <1>1
  <1>5. Breakdown \in [1 .. len -> Topics]
    <2>1. \A n \in 1 .. len : Breakdown[n] \in Topics BY <1>1, <1>2, <1>4
    <2>2. Breakdown = [n \in 1 .. len |-> Breakdown[n]] BY <1>2, <1>4
    <2> QED BY <2>1, <2>2
  <1>6. \A k \in 1 .. len : \E n \in 1 .. len : Breakdown[n] = order[k]
    <2>1. TAKE k \in 1 .. len
    <2>2. PICK n \in 1 .. len : n = Place(k) BY <1>3, <1>4
    <2>3. PICK j \in 1 .. len : Place(j) = n /\ Breakdown[n] = order[j] BY <1>2, <1>4
    <2>4. j = k
      <3>1. \A i \in 1 .. len : Place(i) = Place(k) => i = k
        BY <1>1, <1>4, Places
      <3> QED BY <2>2, <2>3, <3>1
    <2> QED BY <2>3, <2>4
  <1>7. \A j, k \in 1 .. len : Breakdown[j] = Breakdown[k] => j = k
    BY <1>1, <1>2, <1>4
  <1>8. \A n \in 1 .. len : \E k \in 1 .. len : Breakdown[n] = order[k]
    BY <1>2, <1>4
  <1> QED BY <1>1, <1>4, <1>5, <1>6, <1>7, <1>8

\* The breakdown accounts for the whole attempt: each topic once, and the rows and
\* the correct rows of the topics add up to those of the score.
THEOREM BreakdownComplete == Spec => []BreakdownAddsUp
  <1>1. Accounts => BreakdownAddsUp
    <2> SUFFICES ASSUME Accounts PROVE BreakdownAddsUp OBVIOUS
    <2>1. Counts BY DEF Accounts
    <2>2. PICK len \in Nat : len = Len(order) BY <2>1, BreakdownLists
    <2>3. PICK b \in [1 .. len -> Topics] : b = Breakdown BY <2>1, <2>2, BreakdownLists
    <2>4. \A j, k \in 1 .. len : b[j] = b[k] => j = k
      BY <2>1, <2>2, <2>3, BreakdownLists
    <2>5. DOMAIN b = 1 .. len /\ Len(b) = len OBVIOUS
    <2>6. PICK S : S = {t \in Topics : tally[t].total > 0} OBVIOUS
    <2>7. /\ \A t \in S : \E n \in 1 .. len : b[n] = t
          /\ \A n \in 1 .. len : b[n] \in S
      <3>1. /\ \A t \in S : \E k \in 1 .. len : order[k] = t
            /\ \A k \in 1 .. len : order[k] \in S
        BY <2>1, <2>2, <2>6, BreakdownLists DEF Accounts, Counts
      <3>2. /\ \A k \in 1 .. len : \E n \in 1 .. len : b[n] = order[k]
            /\ \A n \in 1 .. len : \E k \in 1 .. len : b[n] = order[k]
        BY <2>1, <2>2, <2>3, BreakdownLists
      <3> QED BY <3>1, <3>2
    <2>8. ToSet(b) = S BY <2>5, <2>7 DEF ToSet
    <2>9. len = Cardinality(S)
      <3>1. b \in Bijection(1 .. len, S)
        BY <2>4, <2>7 DEF Bijection, Injection, Surjection, IsInjective
      <3>2. IsFiniteSet(1 .. len) /\ Cardinality(1 .. len) = len BY FS_Interval
      <3>3. ExistsBijection(1 .. len, S) BY <3>1 DEF ExistsBijection
      <3> QED BY <3>2, <3>3, FS_Bijection
    <2>10. \A t \in Topics : /\ Totals[t] = tally[t].total /\ Corrects[t] = tally[t].correct
                             /\ Totals[t] \in Nat /\ Corrects[t] \in Nat
                             /\ Corrects[t] <= Totals[t]
      BY DEF Accounts, Counts, Totals, Corrects, Tally
    <2>11. Totals \in [Topics -> Nat] /\ Corrects \in [Topics -> Nat]
      BY <2>10 DEF Totals, Corrects
    <2>12. \A t \in Topics : (Totals[t] # 0 \/ Corrects[t] # 0) => \E k \in 1 .. len : b[k] = t
      BY <2>6, <2>7, <2>10
    <2>13. score.total \in Nat /\ score.correct \in Nat BY <2>1 DEF Counts, Tally
    <2>14. PICK f, g : f = Totals /\ g = Corrects OBVIOUS
    <2>15. PICK rows \in Nat, corrects \in Nat : rows = score.total /\ corrects = score.correct
      BY <2>13
    <2>16. Measure(f, rows) /\ Measure(g, corrects) BY <2>14, <2>15 DEF Accounts
    <2>17. /\ f \in [Topics -> Nat] /\ g \in [Topics -> Nat]
           /\ \A t \in Topics : f[t] # 0 => \E k \in 1 .. len : b[k] = t
           /\ \A t \in Topics : g[t] # 0 => \E k \in 1 .. len : b[k] = t
      BY <2>11, <2>12, <2>14
    <2>18. PICK v, w : /\ v = [k \in DOMAIN b |-> tally[b[k]].total]
                       /\ w = [k \in DOMAIN b |-> tally[b[k]].correct]
      OBVIOUS
    <2>19. /\ v \in [1 .. len -> Nat] /\ \A k \in 1 .. len : v[k] = f[b[k]]
           /\ w \in [1 .. len -> Nat] /\ \A k \in 1 .. len : w[k] = g[b[k]]
      BY <2>5, <2>10, <2>14, <2>18
    <2>20. SumFunction(v) = rows /\ SumFunction(w) = corrects
      <3>1. ListsAll(len, b, f, v, rows) /\ ListsAll(len, b, g, w, corrects)
        BY <2>4, <2>16, <2>17, <2>19 DEF ListsAll
      <3> QED BY ONLY <3>1, ListedSum
    <2>21. /\ SumFunction([n \in DOMAIN Breakdown |-> tally[Breakdown[n]].total]) = score.total
           /\ SumFunction([n \in DOMAIN Breakdown |-> tally[Breakdown[n]].correct]) = score.correct
      BY <2>3, <2>15, <2>18, <2>20
    <2> QED BY <2>3, <2>5, <2>6, <2>8, <2>9, <2>21 DEF BreakdownAddsUp
  <1> QED BY <1>1, AccountsInductive, PTL

-----------------------------------------------------------------------------
(* Recommendations                                                          *)

\* A quotient and a remainder below half, at half or above it make a percentage.
Rounded(q, r, t) == IF 2 * r > t \/ (2 * r = t /\ q % 2 = 1) THEN q + 1 ELSE q

\* A share that is a tenth smaller has a percentage that is ten points lower.
LEMMA TenthLess ==
  ASSUME NEW c \in Nat, NEW t \in Nat, t > 0, 10 * c >= t,
         NEW n, n = [total |-> t, correct |-> c],
         NEW m, m = [total |-> 10 * t, correct |-> 10 * c - t]
  PROVE  Percent(n) = Percent(m) + 1000
  <1>1. n \in Tally /\ m \in Tally /\ n.total > 0 /\ m.total > 0
    BY DEF Tally
  <1>2. PICK q \in Nat, r \in 0 .. (t - 1) :
          10000 * c = t * q + r /\ Percent(n) = Rounded(q, r, t)
    BY <1>1, PercentOf DEF Rounded
  <1>3. PICK u \in Nat, d \in Nat : u = 10 * t /\ d = 10 * c - t OBVIOUS
  <1>4. PICK p \in Nat, s \in 0 .. (u - 1) :
          10000 * d = u * p + s /\ Percent(m) = Rounded(p, s, u)
    BY <1>1, <1>3, PercentOf DEF Rounded
  <1>5. q >= 1000
    <2>1. ASSUME q <= 999 PROVE FALSE
      <3>1. t * q <= t * 999 BY <2>1, TimesMonotone
      <3>2. t * q \in Nat OBVIOUS
      <3> QED BY <1>2, <3>1, <3>2
    <2> QED BY <2>1
  <1>6. PICK k \in Nat : q = k + 1000
    <2>1. q - 1000 \in Nat /\ q = (q - 1000) + 1000 BY <1>5
    <2> QED BY <2>1
  <1>7. p = k /\ s = 10 * r
    <2>1. t * q = t * k + 1000 * t BY <1>6, Z3
    <2>2. u * k = 10 * (t * k) /\ t * k \in Nat BY <1>3, Z3
    <2>3. 10000 * d = u * k + 10 * r BY <1>2, <1>3, <2>1, <2>2
    <2>4. PICK a \in Nat : a = 10000 * d OBVIOUS
    <2>5. PICK v \in 0 .. (u - 1) : v = 10 * r BY <1>3
    <2>6. a = u * k + v /\ a = u * p + s /\ a * u = a * u /\ u > 0
      BY <1>3, <1>4, <2>3, <2>4, <2>5
    <2>7. p = k /\ s * u = v * u BY <2>6, SameQuotient
    <2>8. u * k \in Nat BY <1>3
    <2> QED BY <2>5, <2>6, <2>7, <2>8
  <1>8. 2 * s = 10 * (2 * r) BY <1>7
  <1>9. /\ 2 * s > u <=> 2 * r > t
        /\ 2 * s = u <=> 2 * r = t
    BY <1>3, <1>8
  <1>10. (k + 1000) % 2 = k % 2 OBVIOUS
  <1> QED BY <1>2, <1>4, <1>6, <1>7, <1>9, <1>10 DEF Rounded

\* Ten points between two percentages are a tenth between the exact shares, as
\* long as the numbers of rows multiply to less than 1000.
LEMMA TenPoints ==
  ASSUME NEW n \in Tally, NEW m \in Tally, n.total > 0, m.total > 0,
         n.total * m.total < 1000
  PROVE  Percent(n) - Percent(m) >= 1000 <=>
           10 * (n.correct * m.total - m.correct * n.total) >= n.total * m.total
  <1>1. PICK c \in Nat, t \in Nat, d \in Nat, u \in Nat, P \in Nat, Q \in Nat :
          /\ c = n.correct /\ t = n.total /\ d = m.correct /\ u = m.total
          /\ P = Percent(n) /\ Q = Percent(m)
    <2>1. /\ n.correct \in Nat /\ n.total \in Nat /\ m.correct \in Nat /\ m.total \in Nat
          /\ Percent(n) \in Nat /\ Percent(m) \in Nat
      BY Near DEF Tally
    <2> QED BY <2>1
  <1>2. /\ 20000 * c <= 2 * (t * P) + t /\ 20000 * c >= 2 * (t * P) - t
        /\ 20000 * d <= 2 * (u * Q) + u /\ 20000 * d >= 2 * (u * Q) - u
    BY <1>1, Near
  <1>3. PICK x \in Nat, y \in Nat, A \in Nat, p \in Nat, q \in Nat :
          x = c * u /\ y = d * t /\ A = t * u /\ p = (t * u) * P /\ q = (t * u) * Q
    OBVIOUS
  <1>4. A > 0 /\ A < 1000
    <2>1. A < 1000 BY <1>1, <1>3
    <2>2. u * 1 <= u * t BY <1>1, TimesMonotone
    <2>3. u * t = t * u /\ u * 1 = u BY Z3
    <2> QED BY <1>1, <1>3, <2>1, <2>2, <2>3
  <1>5. /\ 20000 * x <= 2 * p + A /\ 20000 * x >= 2 * p - A
        /\ 20000 * y <= 2 * q + A /\ 20000 * y >= 2 * q - A
    <2>1. /\ u * (20000 * c) <= u * (2 * (t * P) + t) /\ u * (2 * (t * P) - t) <= u * (20000 * c)
          /\ t * (20000 * d) <= t * (2 * (u * Q) + u) /\ t * (2 * (u * Q) - u) <= t * (20000 * d)
      BY <1>2, TimesMonotone
    <2>2. /\ u * (20000 * c) = 20000 * (c * u) /\ t * (20000 * d) = 20000 * (d * t)
          /\ u * (2 * (t * P) + t) = 2 * ((t * u) * P) + t * u
          /\ u * (2 * (t * P) - t) = 2 * ((t * u) * P) - t * u
          /\ t * (2 * (u * Q) + u) = 2 * ((t * u) * Q) + t * u
          /\ t * (2 * (u * Q) - u) = 2 * ((t * u) * Q) - t * u
      BY Z3
    <2> QED BY <1>3, <2>1, <2>2
  <1>6. ASSUME 10 * (x - y) > A PROVE P - Q >= 1000
    <2>1. 10000 * (x - y) > 1001 * A BY <1>3, <1>4, <1>6
    <2>2. p > q + 1000 * A BY <1>3, <1>4, <1>5, <2>1
    <2>3. ASSUME P <= Q + 1000 PROVE FALSE
      <3>1. A * P <= A * (Q + 1000) BY <2>3, TimesMonotone
      <3>2. A * P = p /\ A * (Q + 1000) = q + 1000 * A BY <1>3, Z3
      <3> QED BY <1>3, <2>2, <3>1, <3>2
    <2> QED BY <2>3
  <1>7. ASSUME 10 * (x - y) < A PROVE P - Q < 1000
    <2>1. 10000 * (x - y) < 999 * A BY <1>3, <1>4, <1>7
    <2>2. p < q + 1000 * A BY <1>3, <1>4, <1>5, <2>1
    <2>3. ASSUME P >= Q + 1000 PROVE FALSE
      <3>1. A * (Q + 1000) <= A * P BY <2>3, TimesMonotone
      <3>2. A * P = p /\ A * (Q + 1000) = q + 1000 * A BY <1>3, Z3
      <3> QED BY <1>3, <2>2, <3>1, <3>2
    <2> QED BY <2>3
  <1>8. ASSUME 10 * (x - y) = A PROVE P - Q = 1000
    <2>1. 10 * c >= t
      <3>1. ASSUME 10 * c <= t - 1 PROVE FALSE
        <4>1. u * (10 * c) <= u * (t - 1) BY <3>1, TimesMonotone
        <4>2. u * (10 * c) = 10 * (c * u) /\ u * (t - 1) = t * u - u BY Z3
        <4> QED BY <1>1, <1>3, <1>8, <4>1, <4>2
      <3> QED BY <3>1
    <2>2. PICK k, l : /\ k = [total |-> t, correct |-> c]
                      /\ l = [total |-> 10 * t, correct |-> 10 * c - t]
      OBVIOUS
    <2>3. n = k BY <1>1, <2>2 DEF Tally
    <2>4. Percent(k) = Percent(l) + 1000 BY <1>1, <2>1, <2>2, TenthLess
    <2>5. l \in Tally /\ l.total > 0 BY <1>1, <2>1, <2>2 DEF Tally
    <2>6. l.correct * m.total = m.correct * l.total
      <3>1. (10 * c - t) * u = 10 * (c * u) - t * u /\ d * (10 * t) = 10 * (d * t) BY Z3
      <3> QED BY <1>1, <1>3, <1>8, <2>2, <3>1
    <2>7. Percent(l) = Percent(m) BY <2>5, <2>6, SameShare
    <2> QED BY <1>1, <2>3, <2>4, <2>7
  <1>9. P - Q >= 1000 <=> 10 * (x - y) >= A
    BY <1>3, <1>6, <1>7, <1>8
  <1> QED BY <1>1, <1>3, <1>9

\* The place of k among the numbers of S.
Rank(S, k) == Cardinality({j \in S : j <= k})

Ranked(S, p) == p = [n \in 1 .. Cardinality(S) |-> CHOOSE k \in S : Rank(S, k) = n]

\* The numbers of a finite set in ascending order.
LEMMA Ascending ==
  ASSUME NEW S \in SUBSET Nat, IsFiniteSet(S), NEW p, Ranked(S, p)
  PROVE  /\ Cardinality(S) \in Nat
         /\ p \in [1 .. Cardinality(S) -> S]
         /\ \A k \in S : \E n \in 1 .. Cardinality(S) : p[n] = k
         /\ \A a, b \in 1 .. Cardinality(S) : a < b => p[a] < p[b]
  <1>1. PICK size \in Nat : size = Cardinality(S) BY FS_CardinalityType
  <1>2. ASSUME NEW k \in S PROVE Rank(S, k) \in 1 .. size
    <2>1. PICK below \in SUBSET S : below = {j \in S : j <= k} OBVIOUS
    <2>2. IsFiniteSet(below) /\ Cardinality(below) <= size BY <1>1, FS_Subset
    <2>3. k \in below BY <2>1
    <2>4. Cardinality(below) \in Nat /\ Cardinality(below) # 0
      BY <2>2, <2>3, FS_CardinalityType, FS_EmptySet
    <2> QED BY <2>1, <2>2, <2>4 DEF Rank
  <1>3. ASSUME NEW j \in S, NEW k \in S, j < k PROVE Rank(S, j) < Rank(S, k)
    <2>1. PICK low, high : low = {i \in S : i <= j} /\ high = {i \in S : i <= k} OBVIOUS
    <2>2. low \in SUBSET high
      <3>1. \A i \in S : i <= j => i <= k BY <1>3
      <3> QED BY <2>1, <3>1
    <2>3. IsFiniteSet(high) /\ k \in high /\ k \notin low BY <1>3, <2>1, FS_Subset
    <2>4. Cardinality(low) <= Cardinality(high) /\ Cardinality(low) # Cardinality(high)
      BY <2>2, <2>3, FS_Subset
    <2>5. Rank(S, j) = Cardinality(low) /\ Rank(S, k) = Cardinality(high)
      BY <2>1 DEF Rank
    <2> QED BY <1>2, <2>4, <2>5
  <1>4. \A j, k \in S : Rank(S, j) = Rank(S, k) => j = k
    <2> SUFFICES ASSUME NEW j \in S, NEW k \in S, Rank(S, j) = Rank(S, k), j # k
                 PROVE  FALSE
      OBVIOUS
    <2>1. j < k \/ k < j OBVIOUS
    <2>2. Rank(S, j) \in Nat /\ Rank(S, k) \in Nat BY <1>2
    <2> QED BY <1>3, <2>1, <2>2
  <1>5. \A n \in 1 .. size : \E k \in S : Rank(S, k) = n
    <2>1. PICK f : f = [k \in S |-> Rank(S, k)] OBVIOUS
    <2>2. f \in [S -> 1 .. size] BY <1>2, <2>1
    <2>3. f \in Injection(S, 1 .. size) BY <1>4, <2>1, <2>2 DEF Injection, IsInjective
    <2>4. IsFiniteSet(1 .. size) /\ Cardinality(1 .. size) = size BY FS_Interval
    <2>5. f \in Surjection(S, 1 .. size) BY <1>1, <2>3, <2>4, FS_Injection
    <2> QED BY <2>1, <2>5 DEF Surjection
  <1>6. \A n \in 1 .. size : p[n] \in S /\ Rank(S, p[n]) = n
    <2> TAKE n \in 1 .. size
    <2>1. p[n] = CHOOSE k \in S : Rank(S, k) = n BY <1>1 DEF Ranked
    <2>2. \E k \in S : Rank(S, k) = n BY <1>5
    <2> QED BY <2>1, <2>2
  <1>7. p \in [1 .. size -> S] BY <1>1, <1>6 DEF Ranked
  <1>8. \A k \in S : \E n \in 1 .. size : p[n] = k
    <2> TAKE k \in S
    <2>1. PICK n \in 1 .. size : n = Rank(S, k) BY <1>2
    <2>2. p[n] \in S /\ Rank(S, p[n]) = Rank(S, k) BY <1>6, <2>1
    <2> QED BY <1>4, <2>1, <2>2
  <1>9. ASSUME NEW a \in 1 .. size, NEW b \in 1 .. size, a < b PROVE p[a] < p[b]
    <2>1. p[a] # p[b]
      <3>1. Rank(S, p[a]) = a /\ Rank(S, p[b]) = b BY <1>6
      <3> QED BY <1>9, <3>1
    <2>2. ~(p[b] < p[a])
      <3>1. ASSUME p[b] < p[a] PROVE FALSE
        <4>1. PICK j \in S, k \in S : j = p[b] /\ k = p[a] BY <1>6
        <4>2. Rank(S, j) < Rank(S, k) BY <1>3, <3>1, <4>1
        <4>3. Rank(S, j) = b /\ Rank(S, k) = a BY <1>6, <4>1
        <4> QED BY <1>9, <4>2, <4>3
      <3> QED BY <3>1
    <2>3. p[a] \in Nat /\ p[b] \in Nat BY <1>6
    <2> QED BY <2>1, <2>2, <2>3
  <1> QED BY <1>1, <1>7, <1>8, <1>9

\* The weak topics, in the order of the breakdown.
WeakOnes == Filtered(Breakdown, Weak)

LEMMA WeakOnesInOrder ==
  ASSUME Counts
  PROVE  \E m \in Nat : \E p \in [1 .. m -> 1 .. Len(order)] :
           /\ WeakOnes = [n \in 1 .. m |-> Breakdown[p[n]]]
           /\ \A n \in 1 .. m : Weak(Breakdown[p[n]])
           /\ \A k \in 1 .. Len(order) : Weak(Breakdown[k]) => \E n \in 1 .. m : p[n] = k
           /\ \A a, b \in 1 .. m : a < b => p[a] < p[b]
  <1>1. PICK len \in Nat : len = Len(order) BY BreakdownLists
  <1>2. DOMAIN Breakdown = 1 .. len BY <1>1, BreakdownLists
  <1>3. PICK S \in SUBSET (1 .. len) : S = {k \in DOMAIN Breakdown : Weak(Breakdown[k])}
    BY <1>2
  <1>4. IsFiniteSet(S) /\ S \in SUBSET Nat
    <2>1. IsFiniteSet(1 .. len) BY FS_Interval
    <2>2. IsFiniteSet(S) BY <2>1, FS_Subset
    <2> QED BY <2>2
  <1>5. PICK p : Ranked(S, p) BY DEF Ranked
  <1>6. PICK m \in Nat : m = Cardinality(S) BY <1>4, FS_CardinalityType
  <1>7. /\ p \in [1 .. m -> S]
        /\ \A k \in S : \E n \in 1 .. m : p[n] = k
        /\ \A a, b \in 1 .. m : a < b => p[a] < p[b]
    <2>1. /\ p \in [1 .. Cardinality(S) -> S]
          /\ \A k \in S : \E n \in 1 .. Cardinality(S) : p[n] = k
          /\ \A a, b \in 1 .. Cardinality(S) : a < b => p[a] < p[b]
      BY ONLY <1>4, <1>5, Ascending
    <2> QED BY <1>6, <2>1
  <1>8. WeakOnes = [n \in 1 .. m |-> Breakdown[p[n]]]
    <2>1. WeakOnes = [n \in 1 .. Cardinality(S) |->
                        Breakdown[CHOOSE k \in S : Rank(S, k) = n]]
      BY <1>3 DEF WeakOnes, Filtered, Rank
    <2>2. \A n \in 1 .. Cardinality(S) : (CHOOSE k \in S : Rank(S, k) = n) = p[n]
      BY <1>5 DEF Ranked
    <2>3. PICK f : f = [n \in 1 .. Cardinality(S) |->
                          Breakdown[CHOOSE k \in S : Rank(S, k) = n]]
      OBVIOUS
    <2>4. \A n \in 1 .. Cardinality(S) : f[n] = Breakdown[p[n]] BY <2>2, <2>3
    <2>5. f = [n \in 1 .. Cardinality(S) |-> Breakdown[p[n]]]
      <3>1. DOMAIN f = 1 .. Cardinality(S) /\ f = [n \in DOMAIN f |-> f[n]] BY <2>3
      <3> QED BY <2>4, <3>1
    <2> QED BY <1>6, <2>1, <2>3, <2>5
  <1>9. p \in [1 .. m -> 1 .. len] /\ \A n \in 1 .. m : Weak(Breakdown[p[n]])
    BY <1>3, <1>7
  <1>10. \A k \in 1 .. len : Weak(Breakdown[k]) => \E n \in 1 .. m : p[n] = k
    BY <1>2, <1>3, <1>7
  <1> QED BY <1>1, <1>7, <1>8, <1>9, <1>10

\* They are in the order of their gaps already, so sorting leaves them as they are.
LEMMA SortingKeeps ==
  ASSUME NEW m \in Nat, NEW s \in [1 .. m -> Topics],
         \A n \in 1 .. m : Gap(s[n]) \in Int,
         \A a, b \in 1 .. m : a < b => Gap(s[a]) >= Gap(s[b])
  PROVE  SortedBy(s, WiderGap) = s
  <1> DEFINE First(j, k) == \/ WiderGap(s[j], s[k])
                            \/ ~WiderGap(s[k], s[j]) /\ j < k
             Nth(k) == 1 + Cardinality({j \in 1 .. m : First(j, k)})
  <1>1. DOMAIN s = 1 .. m OBVIOUS
  <1>2. ASSUME NEW k \in 1 .. m PROVE Nth(k) = k
    <2>1. \A j \in 1 .. m : First(j, k) <=> j < k
      <3> SUFFICES ASSUME NEW j \in 1 .. m PROVE First(j, k) <=> j < k OBVIOUS
      <3>1. Gap(s[j]) \in Int /\ Gap(s[k]) \in Int OBVIOUS
      <3>2. j < k => Gap(s[j]) >= Gap(s[k]) OBVIOUS
      <3>3. k < j => Gap(s[k]) >= Gap(s[j]) OBVIOUS
      <3>4. j < k \/ j = k \/ k < j OBVIOUS
      <3> QED BY <3>1, <3>2, <3>3, <3>4 DEF WiderGap
    <2>2. PICK e \in Nat : e = k - 1 OBVIOUS
    <2>3. {j \in 1 .. m : First(j, k)} = 1 .. e
      <3> HIDE DEF First
      <3> QED BY <2>1, <2>2
    <2>4. Cardinality(1 .. e) = e BY FS_Interval
    <2>5. Nth(k) = 1 + Cardinality(1 .. e)
      <3> HIDE DEF First
      <3> QED BY <2>3
    <2> HIDE DEF Nth
    <2> QED BY <2>2, <2>4, <2>5
  <1>3. SortedBy(s, WiderGap) =
          [n \in 1 .. m |-> s[CHOOSE k \in 1 .. m : Nth(k) = n]]
    BY <1>1 DEF SortedBy
  <1>4. \A n \in 1 .. m : (CHOOSE k \in 1 .. m : Nth(k) = n) = n
    <2> HIDE DEF Nth
    <2> QED BY <1>2
  <1> HIDE DEF Nth
  <1> QED BY <1>1, <1>3, <1>4

\* A topic has no more rows than the attempt.
LEMMA PartOfAttempt ==
  ASSUME Accounts, NEW t \in Topics
  PROVE  tally[t].total \in Nat /\ score.total \in Nat /\ tally[t].total <= score.total
  <1>1. tally[t].total \in Nat /\ score.total \in Nat /\ Totals[t] = tally[t].total
    BY DEF Accounts, Counts, Totals, Tally
  <1>2. PICK f, all : f = Totals /\ all = score.total OBVIOUS
  <1>3. Measure(f, all) BY <1>2 DEF Accounts
  <1>4. PICK g \in [SUBSET Topics -> Nat] :
          /\ \A S \in SUBSET Topics : \A u \in S : g[S] = g[S \ {u}] + f[u]
          /\ \A S \in SUBSET Topics : (\A u \in Topics \ S : f[u] = 0) => g[S] = all
    BY <1>3 DEF Measure
  <1>5. g[Topics] = all BY <1>4
  <1>6. g[Topics] = g[Topics \ {t}] + f[t] /\ g[Topics \ {t}] \in Nat BY <1>4
  <1> QED BY <1>1, <1>2, <1>5, <1>6

\* What comes earlier in the breakdown has no larger percentage.
LEMMA BreakdownAscends ==
  ASSUME Counts, NEW a \in 1 .. Len(order), NEW b \in 1 .. Len(order), a < b
  PROVE  /\ Percent(tally[Breakdown[a]]) \in Nat
         /\ Percent(tally[Breakdown[b]]) \in Nat
         /\ Percent(tally[Breakdown[a]]) <= Percent(tally[Breakdown[b]])
  <1>1. PICK len \in Nat : len = Len(order) /\ DOMAIN order = 1 .. len BY BreakdownLists
  <1>2. PICK j \in 1 .. len : Place(j) = a /\ Breakdown[a] = order[j]
    BY <1>1, BreakdownPlaces
  <1>3. PICK k \in 1 .. len : Place(k) = b /\ Breakdown[b] = order[k]
    BY <1>1, BreakdownPlaces
  <1>4. Before(j, k) BY <1>1, <1>2, <1>3, Places
  <1>5. PICK n \in Tally, m \in Tally : /\ n = tally[order[j]] /\ m = tally[order[k]]
                                        /\ n.total > 0 /\ m.total > 0
    BY <1>1 DEF Counts
  <1>6. Percent(n) \in Nat /\ Percent(m) \in Nat BY <1>5, Near
  <1>7. Percent(n) <= Percent(m)
    BY <1>4, <1>5, <1>6 DEF Before, Weaker
  <1> QED BY <1>2, <1>3, <1>5, <1>6, <1>7

\* The recommendations are the first of the weak topics, two of them at most.
LEMMA RecommendedFirst ==
  ASSUME Counts
  PROVE  \E m \in Nat : \E p \in [1 .. m -> 1 .. Len(order)] : \E l \in Nat :
           /\ l <= m /\ l <= 2 /\ (l < 2 => l = m)
           /\ Recommended \in [1 .. l -> Topics]
           /\ \A n \in 1 .. l : Recommended[n] = Breakdown[p[n]]
           /\ \A n \in 1 .. m : Weak(Breakdown[p[n]])
           /\ \A k \in 1 .. Len(order) : Weak(Breakdown[k]) => \E n \in 1 .. m : p[n] = k
           /\ \A a, b \in 1 .. m : a < b => p[a] < p[b]
  <1>1. PICK len \in Nat : len = Len(order) BY BreakdownLists
  <1>2. PICK m \in Nat :
          \E p \in [1 .. m -> 1 .. len] :
            /\ WeakOnes = [n \in 1 .. m |-> Breakdown[p[n]]]
            /\ \A n \in 1 .. m : Weak(Breakdown[p[n]])
            /\ \A k \in 1 .. len : Weak(Breakdown[k]) => \E n \in 1 .. m : p[n] = k
            /\ \A a, b \in 1 .. m : a < b => p[a] < p[b]
    BY <1>1, WeakOnesInOrder
  <1>3. PICK p \in [1 .. m -> 1 .. len] :
          /\ WeakOnes = [n \in 1 .. m |-> Breakdown[p[n]]]
          /\ \A n \in 1 .. m : Weak(Breakdown[p[n]])
          /\ \A k \in 1 .. len : Weak(Breakdown[k]) => \E n \in 1 .. m : p[n] = k
          /\ \A a, b \in 1 .. m : a < b => p[a] < p[b]
    BY <1>2
  <1>4. PICK s \in [1 .. m -> Topics] : s = WeakOnes /\ \A n \in 1 .. m : s[n] = Breakdown[p[n]]
    <2>1. PICK s : s = [n \in 1 .. m |-> Breakdown[p[n]]] OBVIOUS
    <2>2. \A n \in 1 .. m : s[n] = Breakdown[p[n]] /\ p[n] \in 1 .. len BY <2>1
    <2>3. \A k \in 1 .. len : Breakdown[k] \in Topics BY <1>1, BreakdownLists
    <2>4. s \in [1 .. m -> Topics] BY <2>1, <2>2, <2>3
    <2> QED BY <1>3, <2>1, <2>2, <2>4
  <1>5. Percent(score) \in Nat
    <2>1. CASE score.total = 0 BY <2>1 DEF Percent
    <2>2. CASE score.total # 0
      <3>1. score \in Tally /\ score.total > 0 BY <2>2 DEF Counts, Tally
      <3> QED BY <3>1, Near
    <2> QED BY <2>1, <2>2
  <1>6. \A n \in 1 .. m : Gap(s[n]) \in Int
    <2> SUFFICES ASSUME NEW n \in 1 .. m PROVE Gap(s[n]) \in Int OBVIOUS
    <2>1. PICK k \in 1 .. len : s[n] = order[k] BY <1>1, <1>3, <1>4, BreakdownLists
    <2>2. tally[s[n]] \in Tally /\ tally[s[n]].total > 0
      BY <1>1, <1>4, <2>1, BreakdownLists DEF Counts
    <2>3. Percent(tally[s[n]]) \in Nat BY <2>2, Near
    <2> QED BY <1>5, <2>3 DEF Gap
  <1>7. \A a, b \in 1 .. m : a < b => Gap(s[a]) >= Gap(s[b])
    <2> SUFFICES ASSUME NEW a \in 1 .. m, NEW b \in 1 .. m, a < b
                 PROVE  Gap(s[a]) >= Gap(s[b])
      OBVIOUS
    <2>1. PICK j \in 1 .. len, k \in 1 .. len :
            j < k /\ s[a] = Breakdown[j] /\ s[b] = Breakdown[k]
      BY <1>3, <1>4
    <2>2. /\ Percent(tally[s[a]]) \in Nat /\ Percent(tally[s[b]]) \in Nat
          /\ Percent(tally[s[a]]) <= Percent(tally[s[b]])
      BY <1>1, <2>1, BreakdownAscends
    <2>3. Gap(s[a]) \in Int /\ Gap(s[b]) \in Int BY <1>6
    <2> QED BY <1>5, <2>2 DEF Gap
  <1>8. SortedBy(WeakOnes, WiderGap) = s BY <1>4, <1>6, <1>7, SortingKeeps
  <1>9. PICK l \in Nat : l = IF m < 2 THEN m ELSE 2 OBVIOUS
  <1>10. Recommended = SubSeq(s, 1, l)
    BY <1>8, <1>9 DEF Recommended, WeakOnes
  <1>11. SubSeq(s, 1, l) = [n \in 1 .. l |-> s[n]]
    BY <1>9
  <1>12. l <= m /\ l <= 2 /\ (l < 2 => l = m) BY <1>9
  <1>13. /\ Recommended \in [1 .. l -> Topics]
         /\ \A n \in 1 .. l : Recommended[n] = Breakdown[p[n]]
    <2>1. PICK r : r = [n \in 1 .. l |-> s[n]] OBVIOUS
    <2>2. r \in [1 .. l -> Topics] /\ \A n \in 1 .. l : r[n] = Breakdown[p[n]]
      BY <1>4, <1>12, <2>1
    <2> QED BY <1>10, <1>11, <2>1, <2>2
  <1> QED BY <1>1, <1>3, <1>12, <1>13

\* What a recommended topic is meant to be, by exact shares.
Deserving(t) ==
  /\ tally[t].total >= 3
  /\ 10 * (score.correct * tally[t].total - tally[t].correct * score.total)
       >= score.total * tally[t].total

\* Attempts whose rows, multiplied by those of a topic, stay below 1000.
FewRows == \A t \in Topics : score.total * tally[t].total < 1000

LEMMA WeakIsDeserved ==
  ASSUME Accounts, FewRows, NEW t \in Topics
  PROVE  Weak(t) <=> Deserving(t)
  <1>1. tally[t].total \in Nat /\ score.total \in Nat /\ tally[t].total <= score.total
    BY PartOfAttempt
  <1>2. CASE tally[t].total < 3 BY <1>1, <1>2 DEF Weak, Deserving
  <1>3. CASE tally[t].total >= 3
    <2>1. PICK n \in Tally, m \in Tally : n = score /\ m = tally[t]
      BY DEF Accounts, Counts
    <2>2. n.total > 0 /\ m.total > 0 /\ n.total * m.total < 1000
      BY <1>1, <1>3, <2>1 DEF FewRows
    <2>3. Percent(n) - Percent(m) >= 1000 <=>
            10 * (n.correct * m.total - m.correct * n.total) >= n.total * m.total
      BY <2>2, TenPoints
    <2>4. Weak(t) <=> Percent(n) - Percent(m) >= 1000 BY <1>3, <2>1 DEF Weak, Gap
    <2>5. Deserving(t) <=>
            10 * (n.correct * m.total - m.correct * n.total) >= n.total * m.total
      BY <1>3, <2>1 DEF Deserving
    <2> QED BY <2>3, <2>4, <2>5
  <1> QED BY <1>1, <1>2, <1>3

LEMMA FewInEachTopic ==
  ASSUME Accounts, FewRows
  PROVE  \A t \in Topics : tally[t].total < 100
  <1> SUFFICES ASSUME NEW t \in Topics, tally[t].total >= 100 PROVE FALSE
    BY PartOfAttempt
  <1>1. PICK n \in Nat, all \in Nat : /\ n = tally[t].total /\ all = score.total
                                      /\ n <= all /\ n >= 100 /\ all * n < 1000
    BY PartOfAttempt DEF FewRows
  <1>2. n * 100 <= n * all BY <1>1, TimesMonotone
  <1>3. n * all = all * n BY Z3
  <1> QED BY <1>1, <1>2, <1>3

\* Rounded percentages recommend what the exact shares would: topics at least ten
\* points below the attempt, the weakest first, and none is left out while there
\* is room.  Some bound is needed: of 47 rows 19 right and in a topic 7 of 23 is
\* less than ten points, and rounds to ten.
THEOREM RecommendsExactly ==
  Spec => []((\A t \in Topics : score.total * tally[t].total < 1000) => RecommendsWeakest)
  <1>1. Accounts => (FewRows => RecommendsWeakest)
    <2> SUFFICES ASSUME Accounts, FewRows PROVE RecommendsWeakest OBVIOUS
    <2>1. Counts BY DEF Accounts
    <2>2. PICK len \in Nat : len = Len(order) BY <2>1, BreakdownLists
    <2>3. PICK b \in [1 .. len -> Topics] : b = Breakdown BY <2>1, <2>2, BreakdownLists
    <2>4. \A j, k \in 1 .. len : b[j] = b[k] => j = k
      BY <2>1, <2>2, <2>3, BreakdownLists
    <2>5. PICK m \in Nat : \E p \in [1 .. m -> 1 .. Len(order)] : \E l \in Nat :
           /\ l <= m /\ l <= 2 /\ (l < 2 => l = m)
           /\ Recommended \in [1 .. l -> Topics]
           /\ \A n \in 1 .. l : Recommended[n] = Breakdown[p[n]]
           /\ \A n \in 1 .. m : Weak(Breakdown[p[n]])
           /\ \A k \in 1 .. Len(order) : Weak(Breakdown[k]) => \E n \in 1 .. m : p[n] = k
           /\ \A i, j \in 1 .. m : i < j => p[i] < p[j]
      BY ONLY <2>1, RecommendedFirst
    <2>6. PICK p \in [1 .. m -> 1 .. Len(order)] : \E l \in Nat :
           /\ l <= m /\ l <= 2 /\ (l < 2 => l = m)
           /\ Recommended \in [1 .. l -> Topics]
           /\ \A n \in 1 .. l : Recommended[n] = Breakdown[p[n]]
           /\ \A n \in 1 .. m : Weak(Breakdown[p[n]])
           /\ \A k \in 1 .. Len(order) : Weak(Breakdown[k]) => \E n \in 1 .. m : p[n] = k
           /\ \A i, j \in 1 .. m : i < j => p[i] < p[j]
      BY ONLY <2>5
    <2>7. PICK l \in Nat :
           /\ l <= m /\ l <= 2 /\ (l < 2 => l = m)
           /\ Recommended \in [1 .. l -> Topics]
           /\ \A n \in 1 .. l : Recommended[n] = Breakdown[p[n]]
           /\ \A n \in 1 .. m : Weak(Breakdown[p[n]])
           /\ \A k \in 1 .. Len(order) : Weak(Breakdown[k]) => \E n \in 1 .. m : p[n] = k
           /\ \A i, j \in 1 .. m : i < j => p[i] < p[j]
      BY ONLY <2>6
    <2>8. /\ p \in [1 .. m -> 1 .. len]
          /\ l <= m /\ l <= 2 /\ (l < 2 => l = m)
          /\ Recommended \in [1 .. l -> Topics]
          /\ \A n \in 1 .. l : Recommended[n] = b[p[n]]
          /\ \A n \in 1 .. m : Weak(b[p[n]])
          /\ \A k \in 1 .. len : Weak(b[k]) => \E n \in 1 .. m : p[n] = k
          /\ \A i, j \in 1 .. m : i < j => p[i] < p[j]
      BY <2>2, <2>3, <2>7
    <2>9. PICK r : r = Recommended OBVIOUS
    <2>10. /\ DOMAIN r = 1 .. l /\ Len(r) = l /\ r \in [1 .. l -> Topics]
          /\ \A n \in 1 .. l : r[n] = b[p[n]] /\ n \in 1 .. m
      BY <2>8, <2>9
    <2>11. PICK chosen \in SUBSET Topics : chosen = {r[n] : n \in 1 .. l} BY <2>10
    <2>12. chosen = ToSet(Recommended) BY <2>8, <2>9, <2>10, <2>11 DEF ToSet
    <2>13. PICK deserving \in SUBSET Topics : deserving = {t \in Topics : Deserving(t)}
      OBVIOUS
    <2>14. \A t \in Topics : t \in deserving <=> Weak(t) BY <2>13, WeakIsDeserved
    <2>15. chosen \subseteq deserving BY <2>8, <2>10, <2>11, <2>14
    <2>16. Cardinality(chosen) = l
      <3>1. \A i, j \in 1 .. l : r[i] = r[j] => i = j
        <4> SUFFICES ASSUME NEW i \in 1 .. l, NEW j \in 1 .. l, r[i] = r[j], i # j
                     PROVE  FALSE
          OBVIOUS
        <4>1. p[i] = p[j] BY <2>4, <2>8, <2>10
        <4>2. i < j \/ j < i OBVIOUS
        <4>3. p[i] < p[j] \/ p[j] < p[i] BY <2>8, <2>10, <4>2
        <4>4. p[i] \in Nat /\ p[j] \in Nat BY <2>8, <2>10
        <4> QED BY <4>1, <4>3, <4>4
      <3>2. r \in Bijection(1 .. l, chosen)
        <4>1. r \in [1 .. l -> chosen] BY <2>10, <2>11
        <4>2. \A t \in chosen : \E n \in 1 .. l : r[n] = t BY <2>11
        <4> QED BY <3>1, <4>1, <4>2 DEF Bijection, Injection, Surjection, IsInjective
      <3>3. IsFiniteSet(1 .. l) /\ Cardinality(1 .. l) = l BY FS_Interval
      <3>4. ExistsBijection(1 .. l, chosen) BY <3>2 DEF ExistsBijection
      <3> QED BY <3>3, <3>4, FS_Bijection
    \* Each deserving topic is one of the weak ones of the breakdown.
    <2>17. \A u \in deserving : \E n \in 1 .. m : b[p[n]] = u
      <3> SUFFICES ASSUME NEW u \in deserving PROVE \E n \in 1 .. m : b[p[n]] = u
        OBVIOUS
      <3>1. Weak(u) /\ tally[u].total > 0
        <4>1. Weak(u) /\ tally[u].total >= 3 BY <2>14 DEF Weak
        <4> QED BY <4>1, PartOfAttempt
      <3>2. \E k \in 1 .. len : order[k] = u
        BY <2>1, <2>2, <3>1, BreakdownLists DEF Accounts, Counts
      <3>3. PICK k \in 1 .. len : b[k] = u
        BY <2>1, <2>2, <2>3, <3>2, BreakdownLists
      <3>4. PICK n \in 1 .. m : p[n] = k BY <2>8, <3>1, <3>3
      <3> QED BY <3>3, <3>4
    <2>18. l < 2 => chosen = deserving
      <3> SUFFICES ASSUME l < 2, NEW u \in deserving PROVE u \in chosen BY <2>15
      <3>1. PICK n \in 1 .. m : b[p[n]] = u BY <2>17
      <3>2. n \in 1 .. l BY <2>8
      <3> QED BY <2>10, <2>11, <3>1, <3>2
    <2>19. \A t \in chosen, u \in deserving \ chosen :
             tally[t].correct * tally[u].total <= tally[u].correct * tally[t].total
      <3> SUFFICES ASSUME NEW t \in chosen, NEW u \in deserving \ chosen
                   PROVE  tally[t].correct * tally[u].total <= tally[u].correct * tally[t].total
        OBVIOUS
      <3>1. PICK i \in 1 .. l : r[i] = t BY <2>11
      <3>2. PICK j \in 1 .. m : b[p[j]] = u BY <2>17
      <3>3. ~(j \in 1 .. l) BY <2>10, <2>11, <3>2
      <3>4. i \in 1 .. m /\ i < j /\ b[p[i]] = t BY <2>10, <3>1, <3>3
      <3>5. PICK x \in 1 .. len, y \in 1 .. len :
              x < y /\ Breakdown[x] = t /\ Breakdown[y] = u
        BY <2>3, <2>8, <3>2, <3>4
      <3>6. WeakestFirst BY <2>1, ExactlySorted, FewInEachTopic
      <3>7. DOMAIN Breakdown = 1 .. len BY <2>3
      <3>8. \/ tally[t].correct * tally[u].total < tally[u].correct * tally[t].total
            \/ tally[t].correct * tally[u].total = tally[u].correct * tally[t].total
        BY <3>5, <3>6, <3>7 DEF WeakestFirst
      <3>9. /\ tally[t].correct * tally[u].total \in Int
            /\ tally[u].correct * tally[t].total \in Int
        BY <2>1 DEF Counts, Tally
      <3> QED BY <3>8, <3>9
    <2>20. /\ ToSet(Recommended) \subseteq deserving
           /\ Len(Recommended) = Cardinality(ToSet(Recommended))
           /\ Cardinality(ToSet(Recommended)) <= 2
           /\ Cardinality(ToSet(Recommended)) < 2 => ToSet(Recommended) = deserving
      BY <2>8, <2>9, <2>10, <2>12, <2>15, <2>16, <2>18
    <2> QED BY <2>12, <2>13, <2>19, <2>20 DEF RecommendsWeakest, Deserving
  <1>2. FewRows <=> \A t \in Topics : score.total * tally[t].total < 1000
    BY DEF FewRows
  <1> QED BY <1>1, <1>2, AccountsInductive, PTL

=============================================================================
