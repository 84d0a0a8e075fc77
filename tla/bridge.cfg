CONSTANTS
  Tasks = {1, 2}
  WellFormed = {1, 2}
  Loops = {l1}
  Bridges = {b1}
  None = None
  MaxApprovals = 2
  MaxMishaps = 1
SPECIFICATION Spec
INVARIANTS PublishedWasChecked PassMeansPublished
PROPERTIES NoWorkIsLost HandoffsAreTakenUp
CHECK_DEADLOCK FALSE
