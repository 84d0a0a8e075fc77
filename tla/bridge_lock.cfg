CONSTANTS
  Tasks = {1}
  WellFormed = {1}
  Loops = {}
  Bridges = {b1, b2}
  None = None
  MaxApprovals = 1
  MaxMishaps = 1
SPECIFICATION Spec
PROPERTIES DeadLocksAreRecovered
CHECK_DEADLOCK FALSE
