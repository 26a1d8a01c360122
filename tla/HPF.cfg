SPECIFICATION Spec
CONSTANTS
  N = 4
  Jobs <- MCJobs
  MaxClk = 6
  None = None
  Freed = Freed
  Unset = Unset
  MaxOrder = 2
  BlockSize <- MCBlockSize
INVARIANTS TypeOK OnePlace CrashesOnlyInWindows NobodyWaitsForFreeMemory RunsWithoutPause
PROPERTIES HighestFirst LifecycleUnlessRaced EndsUnlessRaced
CHECK_DEADLOCK FALSE
