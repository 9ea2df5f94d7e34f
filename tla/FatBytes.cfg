SPECIFICATION Spec
CONSTANTS
  MaxIndex = 7
  SectorIndices = 3
  EndMark = 15
  ByteBase = 4
  SbBytes = 6
  DataBytes = 4
  Word = 64
INVARIANTS FindAgrees
PROPERTIES ImplementsFatCalls OutsideIntact
CHECK_DEADLOCK FALSE
