SPECIFICATION Spec
CONSTANTS
  Keys = {1, 2}
  EmptyKey = 0
  NumLevels = 3
  MaxL0Files = 2
  SparseStep = 1
  TargetEntries = 1
  BottomLevel = 2
  Batches <- MCPuts
  FlushThreshold = 1
  BaseLevelSize = 1
  LevelMultiplier = 1
  MaxNow = 4
INVARIANTS
  FlushSurvivesKill
