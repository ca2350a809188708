SPECIFICATION PartsSpec
CONSTANTS
  Ticker = "ticker"
  Others = {"thread", "operator"}
  Blocks = 2
  MaxChanges = 1
  MaxOthers = 2
  MaxKills = 1
  TransportNames <- MCTransportNames
  VersionNames <- MCVersionNames
  Ports <- MCPorts
  Players = {"ann", "bob"}
  Index <- MCIndex
  Revs = {1, 2, 3, 4, 5}
  Kind <- Mixed
  Operators = {}
  Rewinds = FALSE
  Flaky = FALSE
  MaxPushes = 4
  MaxDeaths = 1
  K = 2
  GraceTicks = 1
  MaxTick = 4
  MaxPatches = 2
  MaxResets = 1
  Names = {"ann", "bob", "cyd"}
  MaxEdits = 3
  MaxWatched = 2
  MaxStarts = 1
  Handlers = {"t1", "t2"}
  RateMax = 2
  RateWindow = 1
  MaxMoment = 4
  MaxCalls = 7
  Residents = {"ann", "bob", "cyd"}
  MaxPlayers = 3
  Nobody = "nobody"
  AppendOnly = TRUE
  MaxMoves = 4
INVARIANTS
  PartsTypeOK
  CheckTypeOK
  WholeUnlessCrossed
  EveryRungHasAPort
  GateIsScored
  PatchingIsFree
  SeasonIsFresh
  RateIsHeld
  ProbedAtHome
PROPERTIES
  RenderedBoardCatchesUp
  LastPushIsServed
  RemovedAreNotProbed
