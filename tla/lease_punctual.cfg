SPECIFICATION Spec
CONSTANTS
  t1 = t1
  w1 = w1
  w2 = w2
  p1 = p1
  p2 = p2
  NoTask = NoTask
  Nobody = Nobody
  Tasks = {t1}
  Workers = {w1, w2}
  Sweepers = {p1}
  TTL = 2
  MaxSweep = 2
  Punctual = TRUE
  SweepsDie = TRUE
SYMMETRY LeaseSymmetry
INVARIANTS
  TypeOK
PROPERTIES
  SparesTheLiving
  SparesTheClosed
