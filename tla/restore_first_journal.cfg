SPECIFICATION Spec
CONSTANTS
  Ops = {o1}
  Original = original
  NoFile = NoFile
  Torn = Torn
  Blank = Blank
  Coherent <- Disjoint
  CrashSites <- OnlyFirstJournal
  FaultSites <- Nowhere
  MaxCrashes = 1
  MaxFaults = 0
CHECK_DEADLOCK FALSE
INVARIANT JournalWriteIsAtomic
