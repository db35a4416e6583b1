SPECIFICATION Spec
CONSTANTS
  Request = {r1, r2, r3}
  Handler <- MCReturning
  RingSize = 2
  None = None
  MaxTime = 2
SYMMETRY MCSymmetry
INVARIANT ServerErrorsCounted
CHECK_DEADLOCK FALSE
