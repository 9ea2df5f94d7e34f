SPECIFICATION ViewSpec
CONSTANTS
  MaxIndex = 7
  SectorIndices = 3
  EndMark = 99
  CS = 1
  Names = {a, b}
  Data = {x, y}
  MaxDepth = 1
  MaxLen = 2
  MaxSize = 2
SYMMETRY AllSymmetry
INVARIANTS SizeFitsChain UsedOrBlank
PROPERTIES OnlyAFullVolumeIsWrecked ImplementsFileStore
CHECK_DEADLOCK FALSE
