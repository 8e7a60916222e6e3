SPECIFICATION Spec
CONSTANTS
  Keys = {1, 2, 3, 4, 5, 6, 7, 8}
  Step = 2
  MaxEntries = 7
INVARIANT ScanShort
PROPERTY GetExact
