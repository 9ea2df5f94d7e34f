SPECIFICATION CallSpec
CONSTANTS
  MaxIndex = 4
  SectorIndices = 3
  EndMark = 99
  CS = 3
  Names = {a, b}
  Data = {x, y}
  MaxDepth = 0
  MaxLen = 3
  MaxSize = 4
SYMMETRY AllSymmetry
INVARIANTS SizeIsWhereTheFileEnds
CHECK_DEADLOCK FALSE
