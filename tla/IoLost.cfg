SPECIFICATION IOSpec
CONSTANTS
  MaxIndex = 4
  SectorIndices = 3
  EndMark = 99
  CS = 2
  Names = {a, b}
  Data = {x}
  MaxDepth = 0
  MaxLen = 1
  MaxSize = 2
  Callers = {c1, c2}
  AtEndOnly = TRUE
  MaxCrashes = 0
PROPERTIES EntriesStay
CHECK_DEADLOCK FALSE
