SPECIFICATION FairSpec
CONSTANTS
  Q1 = Q1
  Q2 = Q2
  Q3 = Q3
  Yes = Yes
  No = No
  Maybe = Maybe
  Long = Long
  D1 = D1
  D2 = D2
  Blocked = Blocked
  Id1 = Id1
  Id2 = Id2
  BadId = BadId
  NumberId = NumberId
  LongTexts <- OneLong
  BlockedUrls <- OneBlocked
  BadIds <- OneBadId
  NumericIds <- OneNumberId
  Workers = {w1, w2}
  None = None
  ImportIds = {i1, i2}
  Files <- SourceFileNames
  Content <- SourceFiles
  Mappings <- NoMapping
  MaxRows = 2
  ExistingBanks <- DiscussedBank
  MaxQuestions = 8
  MaxFailures = 1
  SerialImports = TRUE
INVARIANTS OneQuestionPerRow ImportedHaveQuestions SourcesLinked
PROPERTIES ImplementsImportLifecycle RequestsAnswered
