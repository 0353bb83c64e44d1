SPECIFICATION Spec
CONSTANTS
  Ids = {old, new}
  Born = {new}
  Callers = {1, 2, 3}
  NoRows = NoRows
  NoScan = NoScan
  NoId = NoId
INVARIANTS
  ListIsFresh
  OneScanPerGeneration
  ListedIsFound
PROPERTY
  EveryCallReturns
CHECK_DEADLOCK FALSE
