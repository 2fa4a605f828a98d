CONSTANTS
  PagesPerBlock = 4
  UnitsPerPage = 8
  DummyResvd = 8
  DummySizes <- MCDummySizes
  PageCounts <- MCPageCounts
SPECIFICATION Spec
INVARIANT CheckpointCoversModifiedPages
