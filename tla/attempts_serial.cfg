SPECIFICATION Spec
CONSTANTS
  A = A
  B = B
  Users = {u1, u2}
  Workers = {w1, w2}
  Questions = {q1}
  Labels = {A, B}
  Choices <- OneChoice
  OptionSets <- KeyReplaced
  TimeLimits = {1}
  MaxAttempts = 2
  MaxClock = 1
  MaxCrashes = 0
  SerialUsers = TRUE
  None = None
SYMMETRY RequestSymmetry
INVARIANTS OneInProgress ScoreStandsUp
PROPERTIES FinishOnce ImplementsLifecycle
