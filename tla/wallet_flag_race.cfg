SPECIFICATION Spec
CONSTANTS
  Savers = {s1, s2}
  MaxVersion = 3
  MaxOps = 2
  MaxCrashes = 0
  Discipline <- AllButFlagFirst
PROPERTIES
  RenameFindsTemp
CHECK_DEADLOCK FALSE
