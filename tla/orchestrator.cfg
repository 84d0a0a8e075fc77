SPECIFICATION Spec
CONSTANTS
  Procs = {p1, p2}
  MaxVersions = 2
  MaxComments = 3
  MaxRuns = 3
  MaxMishaps = 1
  Budget <- OneEach
  Waivable = {"FULL_VALIDATION", "BUILD", "DEVICE"}
  None = None
SYMMETRY Symmetry
CHECK_DEADLOCK FALSE
INVARIANTS
  GatesInOrder
  PassesAreEarned
PROPERTIES
  ActionsRunOnce
