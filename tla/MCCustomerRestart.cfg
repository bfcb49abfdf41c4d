SPECIFICATION Spec
CONSTANTS
  Phones = {"p1", "p2"}
  MaxRequests = 3
  MaxStops = 1
  MaxFailedSaves = 0
INVARIANTS PendingSurvivesRestart
CHECK_DEADLOCK FALSE
