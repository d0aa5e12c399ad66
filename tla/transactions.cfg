SPECIFICATION FairSpec
CONSTANTS
  Discipline <- AllDisciplines
  Cases <- WholeOrNot
  TransferCount <- Transfers
  MaxTx = 3
  MaxWallets = 2
  MaxEvents = 1
INVARIANTS
  TypeOK
  RowsMatch
  RowsOfOpenWallet
PROPERTIES
  AllShown
CHECK_DEADLOCK FALSE
