CONSTANTS
  Keys <- FiveKeys
  KeySize <- FiveKeySize
  DataSize <- FiveDataSize
  PointerSize = 1
  OffsetSize = 1
  NodeRoom = 13
  FirstNodes = 3
  ClumpNodes = 2
  MaxNodes = 8
  Word = 16
SPECIFICATION Spec
INVARIANTS TypeOK TreeClean SearchFinds
