SPECIFICATION RecordSpec
CONSTANTS
  Procs = {p1, p2}
  None = None
  LeaseMs = 1
  WaitMs = 0
  MaxTime = 1
  MaxLocks = 3
  MaxFaults = 0
INVARIANT NoLostUpdate
CHECK_DEADLOCK FALSE
