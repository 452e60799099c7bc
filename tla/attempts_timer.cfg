SPECIFICATION FairSpec
CONSTANTS
  A = A
  B = B
  Users = {u1}
  Workers = {w1}
  Questions = {q1, q2}
  Labels = {A, B}
  Choices <- OneChoice
  OptionSets <- OneKey
  TimeLimits = {0, 1}
  MaxAttempts = 1
  MaxClock = 1
  MaxCrashes = 1
  SerialUsers = FALSE
  None = None
PROPERTIES TimeUpFinishes
