CONSTANTS
  a = a
  bye = bye
  Requests = {a, bye}
  Shutdown = bye
  Stdio = FALSE
  ClientErrors = FALSE
  MaxCalls = 2
  MaxInbox = 2
  Bodies <- MCBodies
  MaxMessages = 3
SPECIFICATION MCSpec
INVARIANT HandledInOrder
PROPERTY RequestsAreClosed
CHECK_DEADLOCK FALSE
