SPECIFICATION Spec
CONSTANTS
  Requests <- MCRequests
  Opening = 3
  MaxFailedSaves = 1
  MaxRestarts = 1
INVARIANTS AcceptedSurvivesRestart
