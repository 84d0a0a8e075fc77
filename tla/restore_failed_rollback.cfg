SPECIFICATION Spec
CONSTANTS
  Ops = {o1, o2}
  Original = original
  NoFile = NoFile
  Torn = Torn
  Blank = Blank
  Coherent <- Disjoint
  CrashSites <- Anywhere
  FaultSites <- SwapAndUndo
  MaxCrashes = 2
  MaxFaults = 2
CHECK_DEADLOCK FALSE
INVARIANTS
  AGenerationSurvives
