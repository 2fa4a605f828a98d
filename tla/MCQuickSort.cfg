CONSTANTS
  T <- MCT
  PartSize <- MCPartSize
  Width <- MCWidth
  DataSize = 2
  Vals <- MCVals
SPECIFICATION Spec
INVARIANTS
  RangesInSlice
  SlicesKeepTheirElements
  SortedWhenDone
PROPERTIES
  SortTerminates
