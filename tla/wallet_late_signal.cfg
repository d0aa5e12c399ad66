SPECIFICATION Spec
CONSTANTS
  Savers = {s1, s2}
  MaxVersion = 3
  MaxOps = 3
  MaxCrashes = 0
  Discipline <- AllButIdleClose
PROPERTIES
  SendDoneFindsWallet
CHECK_DEADLOCK FALSE
