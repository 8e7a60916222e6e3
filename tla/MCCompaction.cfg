SPECIFICATION MergeSpec
CONSTANTS
  Keys = {0, 1, 2, 3}
  EmptyKey = 0
  NumLevels = 3
  MaxL0Files = 2
  SparseStep = 1
  TargetEntries = 2
  BottomLevel = 2
  Inputs <- MCInputs
  OutLevels <- MCOutLevels
  FirstID = 4
INVARIANT NeverLosesNewest
INVARIANT ReturnsMerge
CHECK_DEADLOCK FALSE
