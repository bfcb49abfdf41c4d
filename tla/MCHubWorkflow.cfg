SPECIFICATION Spec
CONSTANTS
  w1 = w1
  w2 = w2
  d1 = d1
  d2 = d2
  r1 = r1
  r2 = r2
  a1 = a1
  a2 = a2
  Scopes = {"key"}
  Workers = {w1, w2}
  Digests = {d1, d2}
  Routes = {r1, r2}
  Assignments = {a1, a2}
  MaxTime = 2
  MaxRevision = 3
SYMMETRY Symmetry
INVARIANTS OneLogicalWorkflow
PROPERTIES ImplementsReservation
