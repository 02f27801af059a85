CONSTANTS
  Size = 3
  Width = 2
  MaxBlock = 3
  Data = {0, 1}
  Zero = 0
  Absent = 2
  Starts = {0, 2, 3}
  Counts = {1, 2}
SPECIFICATION BlockLayerSpec
INVARIANTS
  TypeOK
  DiskTypeOK
PROPERTIES
  RefinesBlockSet
  RefinesBlockStore
CHECK_DEADLOCK FALSE
