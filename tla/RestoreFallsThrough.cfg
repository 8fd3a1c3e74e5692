SPECIFICATION Spec
CONSTANTS
  BackupIds <- MCBackupIds
  MaxMessages = 3
  MaxBackups = 1
CONSTRAINT FewUnderWay
INVARIANT ServerExitAborts
CHECK_DEADLOCK FALSE
