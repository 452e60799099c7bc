------------------------------ MODULE Scoring ------------------------------
(***************************************************************************)
(* The figures of app/services/scoring_service.py: score and verdict of an *)
(* attempt, the breakdown by topic and the topics recommended for review.  *)
(* The verdicts of the answer rows come one by one, as the loops read      *)
(* them; every formula is a function of what was read so far, so each      *)
(* state is the end of one run of the code over some attempt.              *)
(*                                                                         *)
(* A percentage is a whole number of hundredths.  round(100 * c / t, 2) is *)
(* computed in binary floating point; with fewer than 4000 rows that is    *)
(* rounding half to even, since every tie is a binary fraction.            *)
(***************************************************************************)
EXTENDS Integers, Sequences, FiniteSets, SequencesExt

CONSTANTS
  Topics,      \* topic ids; one of them may stand for "Untagged"
  PassMarks,   \* values of exams.passing_score_percent, in hundredths
  MaxPerTopic  \* bound: rows of a topic

ASSUME PassMarksAssumption == PassMarks \subseteq 0..10000
ASSUME PerTopicAssumption == MaxPerTopic \in Nat

VARIABLES
  order,  \* topics in the order in which by_topic got them
  tally,  \* by_topic: per topic, the numbers of rows and of correct ones
  score   \* compute_attempt_score: the numbers of rows and of correct ones

vars == <<order, tally, score>>

Tally == [total : Nat, correct : Nat]
Empty == [total |-> 0, correct |-> 0]

TypeOK ==
  /\ order \in Seq(Topics) /\ IsInjective(order)
  /\ tally \in [Topics -> Tally]
  /\ score \in Tally

Init ==
  /\ order = << >>
  /\ tally = [t \in Topics |-> Empty]
  /\ score = Empty

Counted(n, isCorrect) ==
  [total |-> n.total + 1, correct |-> n.correct + IF isCorrect THEN 1 ELSE 0]

\* Mutant of Row: a topic without a correct row is taken for a new one.
RowRepeats(t, isCorrect) ==
  /\ tally[t].total < MaxPerTopic
  /\ order' = IF tally[t].correct = 0 THEN Append(order, t) ELSE order
  /\ tally' = [tally EXCEPT ![t] = Counted(@, isCorrect)]
  /\ score' = Counted(score, isCorrect)

\* One answer row.
Row(t, isCorrect) ==
  /\ tally[t].total < MaxPerTopic
  /\ order' = IF tally[t] = Empty THEN Append(order, t) ELSE order
  /\ tally' = [tally EXCEPT ![t] = Counted(@, isCorrect)]
  /\ score' = Counted(score, isCorrect)

Next == \E t \in Topics, isCorrect \in BOOLEAN : Row(t, isCorrect)

Spec == Init /\ [][Next]_vars

-----------------------------------------------------------------------------
(* compute_attempt_score and TopicBreakdown.percent                         *)

\* Mutant of Percent: rounding to whole percents.
PercentWhole(n) ==
  IF n.total = 0 THEN 0 ELSE 100 * ((200 * n.correct + n.total) \div (2 * n.total))

Percent(n) ==
  LET q == (10000 * n.correct) \div n.total
      r == (10000 * n.correct) % n.total
      up == 2 * r > n.total \/ (2 * r = n.total /\ q % 2 = 1)
  IN IF n.total = 0 THEN 0 ELSE IF up THEN q + 1 ELSE q

Passed(mark) == Percent(score) >= mark

-----------------------------------------------------------------------------
(* topic_breakdown                                                          *)

\* list.sort is stable: elements that compare equal keep their order.
SortedBy(s, Less(_, _)) ==
  LET Rank(k) == 1 + Cardinality({j \in DOMAIN s : \/ Less(s[j], s[k])
                                                   \/ ~Less(s[k], s[j]) /\ j < k})
  IN [n \in DOMAIN s |-> s[CHOOSE k \in DOMAIN s : Rank(k) = n]]

\* key=(percent, -total); the mutant forgets the second part.
WeakerByPercent(t, u) == Percent(tally[t]) < Percent(tally[u])

Weaker(t, u) ==
  \/ Percent(tally[t]) < Percent(tally[u])
  \/ Percent(tally[t]) = Percent(tally[u]) /\ tally[t].total > tally[u].total

Breakdown == SortedBy(order, Weaker)

-----------------------------------------------------------------------------
(* weak_topic_recommendations                                               *)

\* The elements of s that satisfy Test, in their order.
Filtered(s, Test(_)) ==
  LET kept == {k \in DOMAIN s : Test(s[k])}
  IN [n \in 1..Cardinality(kept) |->
        s[CHOOSE k \in kept : Cardinality({j \in kept : j <= k}) = n]]

Gap(t) == Percent(score) - Percent(tally[t])
WiderGap(t, u) == Gap(t) > Gap(u)

\* Mutant of Weak: a gap of exactly ten points does not count.
WeakBeyond(t) == tally[t].total >= 3 /\ Gap(t) > 1000

Weak(t) == tally[t].total >= 3 /\ Gap(t) >= 1000

Recommended ==
  LET candidates == SortedBy(Filtered(Breakdown, Weak), WiderGap)
  IN SubSeq(candidates, 1, IF Len(candidates) < 2 THEN Len(candidates) ELSE 2)

-----------------------------------------------------------------------------

\* Whoever reaches the pass mark passes, and nobody passes who is more than half
\* a hundredth of a percent short of it: 2 of 3 rows round to 66.67 and pass at
\* that mark.  At a mark of whole percents rounding decides nothing (below 200
\* rows; 136 of 203 are less than 67 percent, and 67.00 when rounded).
PassedExactly ==
  score.total > 0 => \A mark \in PassMarks :
    LET reached == 10000 * score.correct >= mark * score.total
    IN /\ reached => Passed(mark)
       /\ Passed(mark) => 20000 * score.correct >= (2 * mark - 1) * score.total
       /\ mark % 100 = 0 /\ score.total < 200 => (Passed(mark) <=> reached)

\* The breakdown accounts for the whole attempt: every topic of the attempt
\* once, and the rows and correct rows of the topics add up to the score's.
BreakdownAddsUp ==
  /\ ToSet(Breakdown) = {t \in Topics : tally[t].total > 0}
  /\ Len(Breakdown) = Cardinality(ToSet(Breakdown))
  /\ SumFunction([n \in DOMAIN Breakdown |-> tally[Breakdown[n]].total]) = score.total
  /\ SumFunction([n \in DOMAIN Breakdown |-> tally[Breakdown[n]].correct]) = score.correct

\* Weakest first by the exact shares, the larger topic first among equals: two
\* different shares are never rounded into the other order (below 100 rows to a
\* topic; 43 of 108 comes before 41 of 103, since both round to 39.81).
WeakestFirst ==
  \A j, k \in DOMAIN Breakdown : j < k =>
    LET n == tally[Breakdown[j]]
        m == tally[Breakdown[k]]
    IN \/ n.correct * m.total < m.correct * n.total
       \/ n.correct * m.total = m.correct * n.total /\ n.total >= m.total

\* Topics with three rows or more and ten points or more below the attempt, by
\* exact shares; none is recommended while a weaker one is not, and a place is
\* left free only when there is no further one (as long as rows times rows of a
\* topic stay below 1000; a topic 7 of 23 in an attempt 19 of 47 is less than ten
\* points below, and rounds to ten).
RecommendsWeakest ==
  LET Deserves(t) ==
        /\ tally[t].total >= 3
        /\ 10 * (score.correct * tally[t].total - tally[t].correct * score.total)
             >= score.total * tally[t].total
      deserving == {t \in Topics : Deserves(t)}
      chosen == ToSet(Recommended)
  IN /\ chosen \subseteq deserving
     /\ Len(Recommended) = Cardinality(chosen)
     /\ Cardinality(chosen) <= 2
     /\ Cardinality(chosen) < 2 => chosen = deserving
     /\ \A t \in chosen, u \in deserving \ chosen :
          tally[t].correct * tally[u].total <= tally[u].correct * tally[t].total

=============================================================================
