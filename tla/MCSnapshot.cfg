CONSTANTS
  Threads = {t1}
  Worker = w
  Blocks = {b1, b2}
  PagesPerBlock <- MCPagesPerBlock
  Values <- MCValues
  InitValue <- MCInitValue
  Freed = Freed
  Nil = Nil

SPECIFICATION Spec

INVARIANT TypeOK

PROPERTIES
  ImplementsSnapshotImage
  FaultEventuallyResolved
