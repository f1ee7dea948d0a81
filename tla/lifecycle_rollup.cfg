SPECIFICATION Spec
CONSTANTS
  t1 = t1
  t2 = t2
  a1 = a1
  a2 = a2
  NoTask = NoTask
  NoAgent = NoAgent
  Tasks = {t1, t2}
  Parent <- Pair
  Verified = {}
  Agents = {a1, a2}
  Commands <- NoRelease
  MaxStatus = 3
  MaxReports = 1
SYMMETRY AgentSymmetry
INVARIANTS
  DoneParentRolledUp
  CascadeSettlesChildren
PROPERTIES
  SettledStaysSettled
CHECK_DEADLOCK FALSE
