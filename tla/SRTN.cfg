SPECIFICATION Spec
CONSTANTS
  N = 3
  Jobs <- MCJobs
  MaxClk = 7
  None = None
  Freed = Freed
  MaxOrder = 1
  BlockSize <- MCBlockSize
INVARIANTS TypeOK OnePlace SemTracksRemaining NoEarlyFinish TurnaroundIsWaitAndRun
PROPERTIES ShortestRuns LifecycleSpec ComesToAnEnd
CHECK_DEADLOCK FALSE
