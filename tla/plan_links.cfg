SPECIFICATION Spec
CONSTANTS
  P = P
  A = A
  B = B
  F = F
  a1 = a1
  a2 = a2
  NoTask = NoTask
  Slugs = {A, B}
  Agents = {a1, a2}
  Requests <- AnySpec
  Batches <- Single
  Healed = TRUE
  Worked = {}
  MaxCrashes = 0
SYMMETRY PlanSymmetry
INVARIANTS
  TypeOK
  OnePlanSucceeds
  NoCycle
  ParentIsPlanned
