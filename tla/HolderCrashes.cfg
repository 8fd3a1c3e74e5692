SPECIFICATION Spec
CONSTANTS
  s1 = s1
  s2 = s2
  a = a
  b = b
  Sessions <- MCSessions
  Archives <- MCArchives
  BackupIds = {1}
  DiskFaults = {"archive", "metadata"}
  MaxBackups = 2
  MaxReports = 1
  MaxCrashes = 1
SYMMETRY MCSymmetry
INVARIANTS
  TypeOK
  FileIsBehind
PROPERTY ImplementsStore
CHECK_DEADLOCK FALSE
