SPECIFICATION Spec
CONSTANTS
  MaxEvents = 10
  MaxWallets = 2
  Discipline <- AllDisciplines
INVARIANTS
  TypeOK
  SoloIsKnown
  StopReachable
  PaysOpenWallet
PROPERTIES
  UserStopStays
CHECK_DEADLOCK FALSE
