SPECIFICATION Spec
CONSTANTS
  NoOne = NoOne
  NoManifest = NoManifest
  NoClass = NoClass
  NoFlag = NoFlag
  UptimePoints <- MCUptimePoints
  AttackPoints <- MCAttackPoints
  Index <- MCIndex
  Players = {"ann", "bob"}
  Manifests <- TwoRungs
  UdpFixture = FALSE
  K = 2
  Workers = 2
  DefenseBonus = 2
  MayOverrun = FALSE
  MaxTick = 3
  MaxCrashes = 1
  Threads = {"t1"}
  Client <- Apart
  Claims = {NoClass, "app", "rce"}
  MaxSubmissions = 1
  MaxOutages = 0
  Operators = {"op1", "op2"}
  GraceTicks = 1
  Deployers = {"bob"}
  MaxDeploys = 1
  Freezes = FALSE
INVARIANTS
  TypeOK
  UnstolenIsPaid
  LossesPerCrash
  PaidAsReviewed
PROPERTIES
  DecidedIsFinal
