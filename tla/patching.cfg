SPECIFICATION SeasonSpec
CONSTANTS
  K = 5
  GraceTicks = 2
  MaxTick = 9
  MaxPatches = 1
  MaxResets = 0
INVARIANTS
  PatchingIsFree
