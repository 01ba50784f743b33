SPECIFICATION Spec
CONSTANTS
  Processes = {p1, p2}
  Nobody = Nobody
  MaxFiles = 3
INVARIANTS Exclusive
CHECK_DEADLOCK FALSE
