SPECIFICATION Spec
CONSTANTS
  Unopenable = {"bad"}
  Sessions <- AllSessions
INVARIANTS HandlesOpen OnceOnce LinesRunOnce
PROPERTIES ExplainRestores StopsWhenTold
CHECK_DEADLOCK FALSE
