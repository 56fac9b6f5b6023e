SPECIFICATION Spec
CONSTANTS
  BlockSize = 2
  DirectCount = 1
  DirentSize = 2
  BlockBits = 15
  InodesPerBlock = 4
  DeviceBlocks = 19
  InodeBitmapBlocks = 1
  Names <- TwoNames
  Handles = {h1, h2}
  Buffers <- Runs
  MaxSize = 15
SYMMETRY Symmetry
INVARIANTS
  BlocksAccounted
  InodesNamed
  PanicsExplained
PROPERTIES
  StoreImplemented
