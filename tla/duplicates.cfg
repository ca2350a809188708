SPECIFICATION Spec
CONSTANTS
  NoOne = NoOne
  NoManifest = NoManifest
  NoClass = NoClass
  NoFlag = NoFlag
  UptimePoints <- MCUptimePoints
  AttackPoints <- MCAttackPoints
  Index <- MCIndex
  UdpFixture = FALSE
  Players = {"ann", "bob"}
  Manifests <- OneManifest
  K = 2
  Workers = 2
  DefenseBonus = 0
  MayOverrun = FALSE
  MaxTick = 1
  MaxCrashes = 0
  Threads = {"t1", "t2"}
  Client <- Together
  Claims = {NoClass}
  MaxSubmissions = 2
  MaxOutages = 0
  Operators = {}
  GraceTicks = 1
  Deployers = {"bob"}
  MaxDeploys = 1
  Freezes = FALSE
INVARIANTS
  ScoresOnce
