SPECIFICATION FairSpec
CONSTANTS
  Discipline <- AllDisciplines
  Cases <- OnlyAllDisciplines
  TransferCount <- Transfers
  MaxTx = 3
  MaxWallets = 2
  MaxEvents = 1
PROPERTIES
  FailedShown
CHECK_DEADLOCK FALSE
