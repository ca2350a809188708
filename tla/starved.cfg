SPECIFICATION FairSpec
CONSTANTS
  Players = {"ann", "bob"}
  Index <- MCIndex
  Revs = {1, 2, 3}
  Kind <- Failing
  Operators = {}
  Rewinds = FALSE
  Flaky = FALSE
  MaxPushes = 2
  MaxDeaths = 0
PROPERTIES
  LastPushIsServed
