SPECIFICATION FairSpec
CONSTANTS
  e1 = e1
  e2 = e2
  a1 = a1
  a2 = a2
  i1 = i1
  b1 = b1
  r1 = r1
  p1 = p1
  p2 = p2
  p3 = p3
  Jobs = {e1, e2, a1, a2, i1, b1, r1}
  Workloads <- MCWorkloads
  Kind <- MCKind
  Photo <- MCPhoto
  Photos = {p1, p2, p3}
  NoFile = NoFile
  FaultSteps <- AnyStep
  MaxFaults = 1
  MaxCrashes = 1
CHECK_DEADLOCK FALSE
INVARIANTS
  RowsHaveFiles
  PackagesRestorable
  AcknowledgedKept
  SnapshotAtItsTurn
  NothingLeftBehind
PROPERTIES
  EveryCallAnswered
