SPECIFICATION SpecReconciliation
CONSTANTS
  k1 = k1
  k2 = k2
  t1 = t1
  t2 = t2
  v1 = v1
  v2 = v2
  c1 = c1
  q1 = q1
  q2 = q2
  Keys = {k1, k2}
  Transactions = {t1, t2}
  Variants = {v1, v2}
  Calls = {c1}
  Queries = {q1, q2}
  MaxRecords = 2
  MaxFaults = 0
SYMMETRY Symmetry
PROPERTIES TerminalIsSticky
