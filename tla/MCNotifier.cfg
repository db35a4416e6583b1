CONSTANTS
  Senders = {s1, s2}
  Keys = {k1, k2}
  NoKey = nokey
  None = none
  QueueSize = 1
  MaxAlertsPerHour = 1
  Hour = 2
  Cooldown = 3
  MinSendInterval = 1
  MaxRetries = 1
  MaxCooldownKeys = 1
  MaxTime = 3
  MaxSends = 3
SPECIFICATION Spec
INVARIANTS Accounted SuppressionsAccounted CooldownsKept SlidingHourBounded
PROPERTIES NoAttemptAfterDeadline CloseTerminates
CHECK_DEADLOCK FALSE
