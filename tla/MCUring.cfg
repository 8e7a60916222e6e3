SPECIFICATION Spec
CONSTANTS
  Entries = 4
  MaxRecords = 4
  MaxFailures = 1
 
 
 
PROPERTY FlushReturns
