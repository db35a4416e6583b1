CONSTANTS
  Keys = {k1, k2}
  Viewers = {v1}
  None = none
  MaxPendingCounters = 1
  CacheTTL = 1
  MaxTime = 2
  MaxViews = 2
SPECIFICATION Spec
INVARIANT BreakdownFits
CHECK_DEADLOCK FALSE
