CONSTANTS
  Lines <- MCTwoLines
  PointTables <- MCOnePoint
  FilterSets <- MCNoFilters
  NotRunItems = FALSE
  MaxDepth = 5
  MaxItems = 6
  MaxRequests = 2
  NFolders = 2
  MaxTests = 2
  MaxEvents = 3
  p1 = p1
  p2 = p2
  p3 = p3
  Callers = {p1, p2, p3}
  ClientFolders = {"A", "B"}
  MaxClients = 3
SPECIFICATION MCSpec
INVARIANTS
  FramesMatchRun
  TreeIsCurrent
  ItemsAreFound
  ServersAreKnown

  
CHECK_DEADLOCK FALSE
