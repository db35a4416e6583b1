SPECIFICATION RulesSpec
CONSTANTS
  SustainTicks = 2
  ErrorRatePercent = 20
  ErrorRateMinRequests = 2
  SurgeFactor = 2
  SurgeFloor = 4
  Interval = 1
  Cooldown = 3
  StatsRefreshInterval = 2
  Traffic <- MCTraffic
  None = None
  MaxTime = 4
VIEW MCView
INVARIANT LastWordIsTrue
PROPERTIES EdgesAreReal SurgeDeserved
CHECK_DEADLOCK FALSE
