SPECIFICATION Spec
CONSTANTS
  Discipline <- OnlyNotifyWhole
  Cases <- OnlyOnlyNotifyWhole
  TransferCount <- Transfers
  MaxTx = 4
  MaxWallets = 2
  MaxEvents = 1
INVARIANTS
  WalletAtHand
CHECK_DEADLOCK FALSE
