CONSTANTS
  tokens = tokens
  model = model
  e1 = e1
  e2 = e2
  e3 = e3
  Collectors = {tokens, model}
  Unreliable = {model}
  Entries = {e1, e2, e3}
  ReopenWhileClosing = TRUE
  MaxText = 1
  MaxOpen = 3
  MaxRestart = 0
SPECIFICATION Spec
INVARIANTS
  RefusedIsNotOpen
SYMMETRY MCSymmetry
CHECK_DEADLOCK FALSE
