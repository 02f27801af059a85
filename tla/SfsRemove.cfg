CONSTANTS
  BlockSize = 3
  NumBlocks = 14
  BitmapBits = 24
  NumInodes = 3
  Direct = 2
  Names = {A, B}
  Residue <- LeftOrClean
  Lengths = {2, 9}
  Positions = {0}
  MaxCalls = 8
SPECIFICATION RemoveSpec
SYMMETRY NameSymmetry
INVARIANTS
  DirectoryConsistent
  DescriptorsListed
PROPERTY RemoveFrees
CHECK_DEADLOCK FALSE
