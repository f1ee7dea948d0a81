SPECIFICATION FairSpec
CONSTANTS
  t1 = t1
  w1 = w1
  w2 = w2
  p1 = p1
  p2 = p2
  NoTask = NoTask
  Nobody = Nobody
  Tasks = {t1}
  Workers = {w1, w2}
  Sweepers = {p1}
  TTL = 0
  MaxSweep = 1
  Punctual = FALSE
  SweepsDie = FALSE
PROPERTIES
  Recovered
