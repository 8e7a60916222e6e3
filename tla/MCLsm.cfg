SPECIFICATION FairSpec
CONSTANTS
  Keys = {1, 2}
  EmptyKey = 0
  NumLevels = 3
  MaxL0Files = 2
  SparseStep = 2
  TargetEntries = 1
  BottomLevel = 2
  Batches <- MCBatches
  FlushThreshold = 1
  BaseLevelSize = 1
  LevelMultiplier = 1
  MaxNow = 6
INVARIANTS
  TypeOK
  AgeOrder
  GetNewestWhenUnshadowed
  SizesExact
  FreshNumbers
  L0Bounded
  DeepLevelsDisjoint
PROPERTIES
  ImplementsKVStore
  OverflowDrains
CHECK_DEADLOCK FALSE
