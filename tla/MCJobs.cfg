CONSTANTS
  s1 = s1
  s2 = s2
  m1 = m1
  command = command
  Commands <- MCCommands
  Server = server
  None = none
  Scheduled <- MCOnce
  Manual <- MCManual
  BatchSize = 2
  MaxRefused = 2
  MaxBoots = 2
  Outcomes = {"returned", "panicked"}
SPECIFICATION Spec
INVARIANTS ActiveEntryEnds EndIsTold
PROPERTIES FinalRowStays LogIsFlushed
CHECK_DEADLOCK FALSE
