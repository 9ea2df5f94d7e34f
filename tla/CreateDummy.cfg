SPECIFICATION CopySpec
CONSTANTS
  MaxIndex = 5
  SectorIndices = 2
  EndMark = 99
  CS = 2
  Names = {db}
  DbName = db
  Data = {x, y}
  MaxDepth = 0
  MaxLen = 7
  MaxSize = 7
INVARIANTS CopiedSoFar
PROPERTIES CopyEnds
CHECK_DEADLOCK FALSE
