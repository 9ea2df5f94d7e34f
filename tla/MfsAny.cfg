SPECIFICATION CallSpec
CONSTANTS
  MaxIndex = 4
  SectorIndices = 3
  EndMark = 99
  CS = 2
  Names = {a, b}
  Data = {x}
  MaxDepth = 1
  MaxLen = 2
  MaxSize = 3
SYMMETRY AllSymmetry
INVARIANTS TypeOK NoMergedChains ChainsSound FittingWritesReadBack
PROPERTIES FirstEntryStays
CHECK_DEADLOCK FALSE
