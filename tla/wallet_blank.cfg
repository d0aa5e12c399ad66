SPECIFICATION Spec
CONSTANTS
  Savers = {s1, s2}
  MaxVersion = 3
  MaxOps = 4
  MaxCrashes = 1
  Discipline <- AllButNoBlank
PROPERTY
  WalletFileKept
CHECK_DEADLOCK FALSE
