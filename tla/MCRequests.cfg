SPECIFICATION Spec
CONSTANTS
  Request = {r1, r2, r3}
  Handler <- MCHandler
  RingSize = 2
  None = None
  MaxTime = 2
SYMMETRY MCSymmetry
INVARIANTS ActiveCounts MonitoringAgrees AverageIsAMean
CHECK_DEADLOCK FALSE
