SPECIFICATION Spec
CONSTANTS
  Readers = {r1}
  Writers = {w1, w2}
  Closers = {k1, k2}
  Async = TRUE
  Compactor = compactor
  Nobody = nobody
CHECK_DEADLOCK FALSE
INVARIANT TypeOK
INVARIANT EngineQuiet
INVARIANT FailsOnlyLate
PROPERTY CloseReturns
PROPERTY CallsReturn
