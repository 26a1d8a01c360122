SPECIFICATION Spec
CONSTANTS
  N = 3
  Jobs <- MCJobs
  MaxClk = 8
  None = None
  Freed = Freed
  MaxOrder = 1
  BlockSize <- MCBlockSize
INVARIANTS TypeOK OnePlace SemTracksRemaining NoEarlyFinish NeverCrashes QuantumKept TurnComesBack
  TurnaroundIsWaitAndRun
PROPERTIES LifecycleSpec ComesToAnEnd
CHECK_DEADLOCK FALSE
