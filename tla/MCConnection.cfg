SPECIFICATION FairSpec
CONSTANTS
  BackupIds <- MCBackupIds
  MaxCommands = 4
  MaxBackups = 1
INVARIANTS
  TypeOK
  AnswersAreAwaited
  RestoresCountedAsReported
  SuccessIsOfWholeArchive
PROPERTIES
  ServerNeverRejects
  AbortsOnServerErrorOnly
  RequestsAnswered
  SessionsEnd
CHECK_DEADLOCK FALSE
