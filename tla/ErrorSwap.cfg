SPECIFICATION Spec
CONSTANTS
  BackupIds <- MCBackupIds
  MaxCommands = 3
  MaxBackups = 1
INVARIANT AbortedWithTheServer
CHECK_DEADLOCK FALSE
