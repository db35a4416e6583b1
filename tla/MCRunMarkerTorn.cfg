CONSTANTS
  RestartLoopThreshold = 2
  SavesMayFail = FALSE
  MaxRuns = 2
SPECIFICATION Spec
INVARIANT MarkerIsWhole
CHECK_DEADLOCK FALSE
