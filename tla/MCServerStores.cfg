SPECIFICATION ServerSpec
CONSTANTS
  Callbacks <- MCCallbacks
  MaxFailedSaves = 1
  MaxRestarts = 1
  Phones = {"p1", "p2"}
  MaxRequests = 3
  MaxStops = 2
  p1 = p1
  p2 = p2
  Keys = {"k1", "k2", "k3"}
  Payments = {"t1", "t2", "t3"}
  Variants = {"v1"}
  PaymentStores = {p1, p2}
  MaxRecords = 2
  MaxFaults = 3
  Workers = {"w1", "w2"}
  ReviewRequests <- MCReviewRequests
  ReviewRoles = {"OPERATIONS", "SUPERVISOR"}
  HistoryLimit = 4
  Sessions = {"session"}
  Intents = {"intent"}
  Jobs = {p1, p2}
  MaxRevision = 2
  LeaseMs = 1
  WaitMs = 0
  MaxTime = 1
  MaxLocks = 3
  None = None
SYMMETRY Symmetry
INVARIANTS TypeOKStores EligibleIsConfirmed PartnerIsBelieved AtMostOneGrant ToldHolds ReviewerActs SessionsAreKept
PROPERTIES NothingIsUndone ImplementsAtomicStore
CHECK_DEADLOCK FALSE
