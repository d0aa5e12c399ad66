SPECIFICATION Spec
CONSTANTS
  MaxEvents = 9
  MaxWallets = 2
  Discipline <- AllButResetOpens
INVARIANTS
  KeysHaveWallet
CHECK_DEADLOCK FALSE
