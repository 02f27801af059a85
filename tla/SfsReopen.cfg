CONSTANTS
  BlockSize = 3
  NumBlocks = 14
  BitmapBits = 24
  NumInodes = 3
  Direct = 2
  Names = {A, B}
  Residue <- LeftOrClean
  Lengths = {2, 7}
  Positions = {0}
  MaxCalls = 7
SPECIFICATION ReopenSpec
SYMMETRY NameSymmetry
INVARIANT SavedFiles
CHECK_DEADLOCK FALSE
