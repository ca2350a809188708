SPECIFICATION BoardSpec
CONSTANTS
  Ticker = "ticker"
  Others = {"thread"}
  Blocks = 2
  MaxChanges = 2
  MaxOthers = 2
  MaxKills = 2
INVARIANTS
  BoardIsWhole
