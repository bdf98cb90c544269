CONSTANTS
  tokens = tokens
  model = model
  e1 = e1
  e2 = e2
  e3 = e3
  Collectors = {tokens, model}
  Unreliable = {model}
  Entries = {e1, e2, e3}
  ReopenWhileClosing = TRUE
  MaxText = 2
  MaxOpen = 2
  MaxRestart = 1
  A = A
  B = B
  v = v
  w = w
  Callbacks = {A, B}
  Patterns = {v, w}
  MaxWatchers = 4
SPECIFICATION MCSpec
INVARIANTS
  NoOrphans
  OnePublishes
  OpenIsKept
  WatchersAreTold
PROPERTIES
  NeverOlder
SYMMETRY MCSymmetry
CHECK_DEADLOCK FALSE
