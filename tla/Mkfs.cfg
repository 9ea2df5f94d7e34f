SPECIFICATION Spec
CONSTANTS
  W = 30
  SizeTexts <- SomeSizes
  CSizeTexts <- SomeClusterSizes
  Lengths <- SomeLengths
INVARIANTS SizesAreMeant LayoutHolds WritesWhatItShould
CHECK_DEADLOCK FALSE
