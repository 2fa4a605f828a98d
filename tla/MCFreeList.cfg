CONSTANTS
  MinPoolSize <- MCMinPoolSize
  MaxPoolSize <- MCMaxPoolSize
  PagesPerBlock <- MCPagesPerBlock
  UnitsPerPage <- MCUnitsPerPage
  WordBits <- MCWordBits
  Sizes <- MCSizes
  JumboSizes <- MCJumboSizes

SPECIFICATION Spec

INVARIANTS
  TypeOK
  ChunksTileBlocks
  FreeChunksCoalesced
  BlocksPartitioned
  BitmapTracksUsedPages
