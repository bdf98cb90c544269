SPECIFICATION MCSpec
CONSTANTS
  MaxBreakpoints = 2
  MaxStops = 2
  MaxId = 3
  r1 = r1
  r2 = r2
  none = none
  Runs = {r1, r2}
  NoRun = none
  WorkspaceFolders = {"A", "B"}
  MaxRunId = 2
INVARIANTS
  BreakpointsFirst
  WaitsForAnswers
  NothingAfterEnd
PROPERTIES
  SessionEnds
  TestRunsEnd
CHECK_DEADLOCK FALSE
