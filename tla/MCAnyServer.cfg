SPECIFICATION Spec
CONSTANTS
  BackupIds <- MCBackupIds
  ServerMessages <- MCServerMessages
  MaxCommands = 4
  MaxMessages = 4
CONSTRAINT FewUnderWay
INVARIANTS
  TypeOK
  OneReportPerRestore
CHECK_DEADLOCK FALSE
