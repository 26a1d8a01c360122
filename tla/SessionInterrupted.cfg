SPECIFICATION Spec
CONSTANTS
  p1 = p1 p2 = p2
  Proc = {p1, p2}
  MaxRuns = 2
INVARIANT QueueCleared
CHECK_DEADLOCK FALSE
