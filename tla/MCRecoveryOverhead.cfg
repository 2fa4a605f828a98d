CONSTANTS
  PagesPerBlock = 2
  UnitsPerPage = 4
  Resvd = 3
  ObjSizes = {2, 3}
  PageCounts <- MCPageCounts
SPECIFICATION Spec
INVARIANTS
  TypeOK
  AccessesInBlockData
