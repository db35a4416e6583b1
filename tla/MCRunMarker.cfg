CONSTANTS
  RestartLoopThreshold = 2
  SavesMayFail = TRUE
  MaxRuns = 3
SPECIFICATION Spec
INVARIANTS FalseAlarmNeedsOverlap CrashIsSeen LoopDeserved
CHECK_DEADLOCK FALSE
