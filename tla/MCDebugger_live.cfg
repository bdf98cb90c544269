CONSTANTS
  Lines <- MCLines
  PointTables <- MCLogTables
  FilterSets <- MCAllFilterSets
  NotRunItems = TRUE
  MaxDepth = 4
  MaxItems = 4
  MaxRequests = 2
SPECIFICATION FairSpec
PROPERTIES
  RunEnds
CHECK_DEADLOCK FALSE
