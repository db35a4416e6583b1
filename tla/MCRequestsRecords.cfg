SPECIFICATION Spec
CONSTANTS
  Request = {r1, r2, r3}
  Handler <- MCRefusing
  RingSize = 2
  None = None
  MaxTime = 2
SYMMETRY MCSymmetry
INVARIANT RecordsAreServed
CHECK_DEADLOCK FALSE
