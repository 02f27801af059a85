CONSTANTS
  BlockSize = 3
  NumBlocks = 9
  BitmapBits = 24
  NumInodes = 3
  Direct = 2
  Names = {A, B}
  Residue <- LeftOrClean
  Lengths = {2, 3, 7}
  Positions = {0, 7}
  MaxCalls = 7
SPECIFICATION DataSpec
SYMMETRY NameSymmetry
INVARIANTS
  TypeOK
  DataKept
  FreadReturns
  BlocksOwned
PROPERTY StrayByCrossing
CHECK_DEADLOCK FALSE
