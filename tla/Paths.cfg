SPECIFICATION PathsSpec
CONSTANTS
  a = a
  b = b
  x = x
  Callers = {t1, t2}
  Dirs <- SmallDirs
  Asked <- SmallAsked
  MaxCalls = 2
INVARIANTS HarmNeedsOverlap FirstNameSurvives
PROPERTIES CallsEnd
CHECK_DEADLOCK FALSE
