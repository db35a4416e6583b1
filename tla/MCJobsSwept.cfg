CONSTANTS
  s1 = s1
  s2 = s2
  m1 = m1
  command = command
  Commands <- MCCommands
  Server = server
  None = none
  Scheduled <- MCScheduled
  Manual <- MCManual
  BatchSize = 2
  MaxRefused = 1
  MaxBoots = 1
  Outcomes = {"returned", "gave up", "panicked"}
SPECIFICATION Spec
PROPERTIES OnlyStartedTimesOut
CHECK_DEADLOCK FALSE
