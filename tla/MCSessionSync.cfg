SPECIFICATION Spec
CONSTANTS
  Sessions = {}
  Intents = {"intent"}
  Jobs = {"j1"}
  MaxRevision = 2
PROPERTIES CommitSeesTheSource
CHECK_DEADLOCK FALSE
