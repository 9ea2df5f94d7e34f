SPECIFICATION Spec
CONSTANTS
  a = a
  b = b
  x = x
  Nodes <- SmallTree
  MaxEntries = 3
  MaxLen = 1
  MaxSize = 2
  Room = 1
SYMMETRY NameSymmetry
INVARIANTS TypeOK CacheAgrees ListingIsWhole
PROPERTIES HarmOnlyByCache 
CHECK_DEADLOCK FALSE
