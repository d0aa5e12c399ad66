SPECIFICATION Spec
CONSTANTS
  MaxEvents = 9
  MaxWallets = 2
  Discipline <- AllButQuietClose
INVARIANTS
  KeysHaveWallet
CHECK_DEADLOCK FALSE
