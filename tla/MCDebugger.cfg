CONSTANTS
  Lines <- MCLines
  PointTables <- MCPointTables
  FilterSets <- MCFilterSets
  NotRunItems = FALSE
  MaxDepth = 3
  MaxItems = 3
  MaxRequests = 3
SPECIFICATION Spec
INVARIANTS
  SleepsOnlyWhilePaused
  ClientKnows
  TerminateIsFinal
CHECK_DEADLOCK FALSE
