SPECIFICATION FairSpec
CONSTANTS
  Keys = {k1, k2, k3}
  Transactions = {t1, t2}
  Variants = {v1, v2}
  Calls = {c1, c2}
  MaxRecords = 2
  MaxFaults = 3
INVARIANTS AtMostOnePost
PROPERTIES UnansweredCheckoutsEnd
