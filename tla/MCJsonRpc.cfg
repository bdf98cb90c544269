CONSTANTS
  a = a
  b = b
  bye = bye
  Requests = {a, b, bye}
  Shutdown = bye
  Stdio = TRUE
  ClientErrors = TRUE
  MaxCalls = 1
  MaxInbox = 1
SPECIFICATION Spec
INVARIANTS
  CallersAreKnown

  
SYMMETRY Alike
CHECK_DEADLOCK FALSE
