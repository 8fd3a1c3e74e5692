SPECIFICATION Spec
CONSTANTS
  Messages <- MCMessages
  BlockSize <- MCBlockSize
  SizeBytes = 2
  MaxSent = 4
INVARIANTS
  TypeOK
  AtBoundary
PROPERTIES
  ImplementsChannel
  AllReceived
CHECK_DEADLOCK FALSE
