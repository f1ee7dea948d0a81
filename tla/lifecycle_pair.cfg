SPECIFICATION Spec
CONSTANTS
  t1 = t1
  t2 = t2
  a1 = a1
  a2 = a2
  NoTask = NoTask
  NoAgent = NoAgent
  Tasks = {t1, t2}
  Parent <- Pair
  Verified = {}
  Agents = {a1, a2}
  Commands <- AllOnPair
  MaxStatus = 3
  MaxReports = 1
SYMMETRY AgentSymmetry
INVARIANTS
  ParentStartedFirst
CHECK_DEADLOCK FALSE
