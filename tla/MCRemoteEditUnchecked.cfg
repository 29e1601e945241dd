SPECIFICATION Spec
CONSTANTS
  Path = {"index"}
  NoPath = NoPath
  MaxJob = 2
  MaxStamp = 2
  MaxSuffix = 1
PROPERTIES
  ConflictsAreAsked
CHECK_DEADLOCK FALSE
