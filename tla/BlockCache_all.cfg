SPECIFICATION Spec
CONSTANTS
  Blocks = {b1, b2, b3, b4}
  Values <- Bits
  CacheSize = 2
  MaxNest = 3
SYMMETRY Symmetry
PROPERTIES
  SyncMakesDurable
  StoreOfBlocks
