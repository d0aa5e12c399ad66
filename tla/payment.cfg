SPECIFICATION Spec
CONSTANTS
  Instances = {p1, p2, p3}
  None = none
  MaxRequests = 3
  MaxLinks = 2
  Discipline <- AllDisciplines
  Cases <- AllOrNothing
SYMMETRY Symmetry
INVARIANTS
  TypeOK
  NothingLost
  ShownOnce
  InOrder
  WalletReachable
  OneWallet
CHECK_DEADLOCK FALSE
