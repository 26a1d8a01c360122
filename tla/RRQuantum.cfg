SPECIFICATION Spec
CONSTANTS
  N = 3
  Jobs <- MCJobs
  MaxClk = 8
  None = None
  Freed = Freed
  MaxOrder = 1
  BlockSize <- MCBlockSize
CHECK_DEADLOCK FALSE
INVARIANT QuantumPassedStops
