SPECIFICATION Spec
CONSTANTS
  Comments <- RaceComments
  Mine = 2
  NoTarget = NoTarget
  Procs = {p1, p2}
  MaxFaults = 0
  MaxRuns = 2
  MaxNow = 1
SYMMETRY Alike
INVARIANTS
  OneActor
  AttemptsCounted
PROPERTIES
  PassedNotRepeated
CHECK_DEADLOCK FALSE
