SPECIFICATION EndlessSpec
CONSTANTS
  Procs = {p1, p2}
  None = None
  LeaseMs = 1
  WaitMs = 1
  MaxTime = 1
  MaxLocks = 3
  MaxFaults = 1
INVARIANTS MutualExclusion
PROPERTIES RecoveryDeletesOnlyExpired LockFreedom
CHECK_DEADLOCK FALSE
