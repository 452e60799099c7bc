SPECIFICATION Spec
CONSTANTS
  Q1 = Q1
  Q2 = Q2
  Q3 = Q3
  Yes = Yes
  No = No
  Maybe = Maybe
  Long = Long
  D1 = D1
  D2 = D2
  Blocked = Blocked
  Id1 = Id1
  Id2 = Id2
  BadId = BadId
  NumberId = NumberId
  LongTexts <- OneLong
  BlockedUrls <- OneBlocked
  BadIds <- OneBadId
  NumericIds <- OneNumberId
  Workers = {w1, w2}
  None = None
  ImportIds = {i1}
  Files <- TwoRowNames
  Content <- TwoRows
  Mappings <- EveryColumn
  MaxRows = 2
  ExistingBanks <- EmptyBank
  MaxQuestions = 4
  MaxFailures = 0
  SerialImports = FALSE
SYMMETRY WorkerSymmetry
INVARIANTS OneQuestionPerRow
