CONSTANTS
  t1 = t1
  t2 = t2
  t3 = t3
  tokens = tokens
  Tasks = {t1, t2, t3}
  Keys = {tokens}
  MaxVersion = 2
  MaxEntry = 2
SPECIFICATION FairSpec
INVARIANTS
  CacheIsCurrent
  ResultsAreFresh
  OneComputes
PROPERTIES
  WaitersProceed
CHECK_DEADLOCK FALSE
