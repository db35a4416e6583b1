CONSTANTS
  Senders = {s1}
  Keys = {k1}
  NoKey = nokey
  None = none
  QueueSize = 2
  MaxAlertsPerHour = 3
  Hour = 2
  Cooldown = 1
  MinSendInterval = 1
  MaxRetries = 1
  MaxCooldownKeys = 2
  MaxTime = 2
  MaxSends = 3
SPECIFICATION Spec
PROPERTY DrainTriesEveryMessage
CHECK_DEADLOCK FALSE
