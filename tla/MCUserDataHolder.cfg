SPECIFICATION FairSpec
CONSTANTS
  s1 = s1
  s2 = s2
  a = a
  b = b
  Sessions <- MCSessions
  Archives <- MCArchives
  BackupIds = {1}
  DiskFaults = {"load", "metadata"}
  MaxBackups = 2
  MaxReports = 1
  MaxCrashes = 1
INVARIANTS
  SuccessIsStored
  AccessesInRange
PROPERTIES
  WritersReturn
CHECK_DEADLOCK FALSE
