SPECIFICATION Spec
CONSTANTS
  Alphabet <- SomeAlphabet
  MaxText = 4
  Sources <- SomeSources
  NumTables = 3
  Kinds <- SomeKinds
  NumRows = 2
  NumPages = 3
  MaxWrites = 2
  MaxInterrupts = 3
INVARIANTS TextsReadBack ImportKeepsRecords ImportLeavesTransaction CopyIsWhole
PROPERTIES CommandEnds
CHECK_DEADLOCK FALSE
