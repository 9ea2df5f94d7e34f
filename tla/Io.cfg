SPECIFICATION IOSpec
CONSTANTS
  MaxIndex = 4
  SectorIndices = 1
  EndMark = 99
  CS = 1
  Names = {a, b}
  Data = {x}
  MaxDepth = 1
  MaxLen = 1
  MaxSize = 2
  Callers = {c1}
  AtEndOnly = TRUE
  MaxCrashes = 1
INVARIANTS CrashKeepsChains CrashLosesOneCluster
PROPERTIES ImplementsMfs CallsReturn EntriesAndContentStay
CHECK_DEADLOCK FALSE
