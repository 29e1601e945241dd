SPECIFICATION FairSpec
CONSTANTS
  Path = {"index"}
  NoPath = NoPath
  MaxJob = 3
  MaxStamp = 2
  MaxSuffix = 1
INVARIANTS
  EditInv
  WorkIsKept
PROPERTIES
  CheckedMeansUnchanged
  EditEnds
CHECK_DEADLOCK FALSE
