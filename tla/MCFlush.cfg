SPECIFICATION FlushSpec
CONSTANTS
  Keys = {0, 1, 3}
  KeyLen <- MCKeyLen
  ValueLens = {0, 12, 150}
  MaxNow = 5
  Step = 2
  InitialMmapSize = 84
  Hash <- MCHash
INVARIANT SizeExact
INVARIANT FlushFailsBelowDoublings
PROPERTY FlushExact
