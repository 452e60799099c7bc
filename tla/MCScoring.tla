----------------------------- MODULE MCScoring -----------------------------
(* An instance of Scoring for TLC. *)
EXTENDS Scoring, TLC

\* Every whole percentage, and marks at and next to what shares of up to sixteen
\* rows round to, and between them.
SomePassMarks ==
  {100 * p : p \in 0..100}
  \cup {1, 625, 667, 1428, 1429, 3333, 3334, 4286, 5385, 5454, 6249, 6666, 6667, 6668,
        7692, 7778, 8333, 9091, 9230, 9333, 9375, 9376, 9999}

TopicSymmetry == Permutations(Topics)
=============================================================================
