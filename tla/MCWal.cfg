SPECIFICATION FairSpec
CONSTANTS
  w1 = w1
  w2 = w2
  Modes <- MCModes
  Writers = {w1, w2}
  RecordSizes = {6, 7}
  InitialSize = 14
  SyncEvery = 2
  MaxRecords = 3
  PowerMayFail = TRUE
INVARIANT PeriodicBound
INVARIANT ReplayComplete
INVARIANT CloseSyncs
PROPERTY AckedSurvives
PROPERTY AsyncSyncs
PROPERTY ImplementsLog
