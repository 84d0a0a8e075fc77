SPECIFICATION FairSpec
CONSTANTS
  Ops = {o1, o2}
  Original = original
  NoFile = NoFile
  Torn = Torn
  Blank = Blank
  Coherent <- Disjoint
  CrashSites <- Anywhere
  FaultSites <- ForwardSites
  MaxCrashes = 3
  MaxFaults = 2
CHECK_DEADLOCK FALSE
INVARIANTS
  JournalCoversSwap
  ServesWholeGeneration
PROPERTIES
  OldPairDeletedLast
  SwapIsAtomic
  RestoreSettles
