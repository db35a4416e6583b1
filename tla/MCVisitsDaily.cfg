SPECIFICATION VisitsSpec
CONSTANTS
  Goroutine = {g1, g2}
  Visitor = {v1, v2, v3}
  v1 = v1
  v2 = v2
  v3 = v3
  Visit <- MCVisit
  p1 = p1
  p2 = p2
  Generations = 2
  MaxPerGen = 2
  SessionWindow = 2
  MaxDistinctPaths = 1
  RingSize = 2
  Buckets = 2
  DayLength = 3
  Absent = Absent
  MaxMinutes = 4
  MaxVisits = 4
SYMMETRY MCSymmetry
INVARIANT PathsBoundedPerDay
CHECK_DEADLOCK FALSE
