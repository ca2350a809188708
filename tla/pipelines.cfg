SPECIFICATION Spec
CONSTANTS
  Players = {"ann"}
  Index <- MCIndex
  Revs = {1, 2, 3}
  Kind <- Failing
  Operators = {"op"}
  Rewinds = TRUE
  Flaky = TRUE
  MaxPushes = 2
  MaxDeaths = 1
INVARIANTS
  TypeOK
  RecordIsTrue
  OnlyVettedCodeRuns
