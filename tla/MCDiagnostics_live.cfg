CONSTANTS
  tokens = tokens
  model = model
  e1 = e1
  e2 = e2
  e3 = e3
  Collectors = {tokens, model}
  Unreliable = {model}
  Entries = {e1, e2, e3}
  ReopenWhileClosing = FALSE
  MaxText = 1
  MaxOpen = 2
  MaxRestart = 1
SPECIFICATION FairSpec
PROPERTIES
  Settles
CHECK_DEADLOCK FALSE
