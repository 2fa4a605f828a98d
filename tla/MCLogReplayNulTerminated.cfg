CONSTANTS
  Codecs <- MCNulCodecs
  Strings <- MCStrings
  Tag <- MCTag
  Line <- MCLine
  MaxPuts <- MCMaxPuts

SPECIFICATION Spec

INVARIANT ReplayReproducesCalls
