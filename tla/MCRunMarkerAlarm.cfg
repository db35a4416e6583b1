CONSTANTS
  RestartLoopThreshold = 2
  SavesMayFail = FALSE
  MaxRuns = 2
SPECIFICATION Spec
INVARIANT NoFalseAlarm
CHECK_DEADLOCK FALSE
