CONSTANTS
  c1 = c1
  c2 = c2
  Cores <- MCCores
  BlockUnits = 2
  Sizes <- MCSizes
  JumboBlocks <- MCJumboBlocks
  MinPoolSize = 2
  MaxPoolSize = 4
  SnapWords = 6
  None = None

SYMMETRY CoreSymmetry

SPECIFICATION Spec

INVARIANTS
  TypeOK
  PoolPartitioned
  ReplayReproducesAddresses
  CoreLayoutsTileOwnedBlocks

PROPERTY ImplementsHeap
