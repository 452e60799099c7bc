SPECIFICATION Spec
CONSTANTS
  A = A
  B = B
  Users = {u1, u2}
  Workers = {w1, w2}
  Questions = {q1}
  Labels = {A, B}
  Choices <- AnyChoice
  OptionSets <- KeyReplaced
  TimeLimits = {1}
  MaxAttempts = 1
  MaxClock = 1
  MaxCrashes = 0
  SerialUsers = FALSE
  None = None
SYMMETRY RequestSymmetry
PROPERTIES AnswersFinal
