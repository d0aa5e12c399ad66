SPECIFICATION FairSpec
CONSTANTS
  Savers = {s1, s2}
  MaxVersion = 3
  MaxOps = 4
  MaxCrashes = 1
  Discipline <- AllDisciplines
INVARIANTS
  TypeOK
  LockCoversFile
  SaveOwnsFile
  FlagMeansBackup
  NoBackupUnderOldPassword
PROPERTIES
  RenameFindsTemp
  WalletFileKept
  CloseEnds
  LockReleased
CHECK_DEADLOCK FALSE
