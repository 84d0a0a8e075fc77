SPECIFICATION FairSpec
CONSTANTS
  Comments <- MCComments
  Mine = 2
  NoTarget = NoTarget
  Procs = {p1}
  MaxFaults = 1
  MaxRuns = 3
  MaxNow = 0
INVARIANTS
  BudgetsHold
  RetriesBounded
  EvidenceOnce
  CompletedIsPublished
  RecordedIsShown
PROPERTIES
  RunsEnd
CHECK_DEADLOCK FALSE
