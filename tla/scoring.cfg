SPECIFICATION Spec
CONSTANTS
  Topics = {t1, t2, t3, t4}
  PassMarks <- SomePassMarks
  MaxPerTopic = 4
SYMMETRY TopicSymmetry
CHECK_DEADLOCK FALSE
INVARIANTS TypeOK PassedExactly BreakdownAddsUp WeakestFirst RecommendsWeakest
