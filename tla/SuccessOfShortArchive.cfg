SPECIFICATION Spec
CONSTANTS
  s1 = s1
  s2 = s2
  a = a
  b = b
  Sessions <- MCSessions
  Archives <- MCArchives
  BackupIds <- MCBackupIds
  DiskFaults = {"archive"}
  MaxBackups = 1
  MaxReports = 0
  MaxCrashes = 0
INVARIANTS
  SuccessIsStored
CHECK_DEADLOCK FALSE
