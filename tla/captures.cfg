SPECIFICATION Spec
CONSTANTS
  NoOne = NoOne
  NoManifest = NoManifest
  NoClass = NoClass
  NoFlag = NoFlag
  UptimePoints <- MCUptimePoints
  AttackPoints <- MCAttackPoints
  Index <- MCIndex
  Players = {"ann", "bob"}
  Manifests <- Shrinking
  UdpFixture = FALSE
  K = 1
  Workers = 2
  DefenseBonus = 0
  MayOverrun = FALSE
  MaxTick = 2
  MaxCrashes = 0
  Threads = {"t1", "t2"}
  Client <- Apart
  Claims = {NoClass}
  MaxSubmissions = 2
  MaxOutages = 1
  Operators = {}
  GraceTicks = 1
  Deployers = {"bob"}
  MaxDeploys = 2
  Freezes = FALSE
INVARIANTS
  ScoresOnce
  CreditedIsMarked
  MarkedInItsLife
PROPERTIES
  RefinesGame
