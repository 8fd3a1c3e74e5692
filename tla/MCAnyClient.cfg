SPECIFICATION Spec
CONSTANTS
  BackupIds <- MCBackupIds
  MaxMessages = 4
  MaxBackups = 1
CONSTRAINT FewUnderWay
INVARIANTS
  TypeOK
  ServerExitIsLast
  NothingServedBeforeLogin
  CountsFollowOffers
CHECK_DEADLOCK FALSE
