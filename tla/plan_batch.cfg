SPECIFICATION FairSpec
CONSTANTS
  P = P
  A = A
  B = B
  F = F
  a1 = a1
  a2 = a2
  NoTask = NoTask
  Slugs = {P, A, B, F}
  Agents = {a1, a2}
  Requests <- JustParent
  Batches <- FamilyBatch
  Healed = FALSE
  Worked = {A}
  MaxCrashes = 1
INVARIANTS
  BatchInOrder
PROPERTIES
  OrphanHealed
  BatchCompletes
