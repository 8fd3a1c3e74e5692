SPECIFICATION Spec
CONSTANTS
  a = a
  b = b
  c = c
  Names = {a, b, c}
  Modes = {"555", "644", "755", "777"}
  HeadName = a
  Trees <- MCTrees
  MaxDepth = 2
  MaxChanges <- MCMaxChanges
  ReadOnly = {"555"}
  Descriptors = 3
  MaxUnpacks = 2
INVARIANTS
  TypeOK
  OverrunTakesThree
  CollectedOnce
  LaidOut
  OwnBytes
  FilesRestored
  RestoredAsPacked
  ListsTheTree
CHECK_DEADLOCK FALSE
