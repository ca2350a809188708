SPECIFICATION FairSpec
CONSTANTS
  NoOne = NoOne
  NoManifest = NoManifest
  NoClass = NoClass
  NoFlag = NoFlag
  UptimePoints <- MCUptimePoints
  AttackPoints <- MCAttackPoints
  Index <- MCIndex
  Players = {"ann", "bob"}
  Manifests <- TwoRungs
  UdpFixture = FALSE
  K = 2
  Workers = 2
  DefenseBonus = 2
  MayOverrun = TRUE
  MaxTick = 3
  MaxCrashes = 1
  Threads = {}
  Client <- Apart
  Claims = {NoClass}
  MaxSubmissions = 1
  MaxOutages = 0
  Operators = {}
  GraceTicks = 1
  Deployers = {"bob"}
  MaxDeploys = 1
  Freezes = TRUE
INVARIANTS
  LiveWindow
  SlaFlagRetained
PROPERTIES
  ResultsStand
  TickCompletes
