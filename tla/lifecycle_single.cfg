SPECIFICATION Spec
CONSTANTS
  t1 = t1
  t2 = t2
  a1 = a1
  a2 = a2
  NoTask = NoTask
  NoAgent = NoAgent
  Tasks = {t1}
  Parent <- Single
  Verified = {t1}
  Agents = {a1, a2}
  Commands <- AllOnOne
  MaxStatus = 4
  MaxReports = 2
SYMMETRY AgentSymmetry
INVARIANTS
  TypeOK
  ClaimOnlyOnNew
  TerminalHasProof
  DoneWasVerified
PROPERTIES
  ImplementsBoard
CHECK_DEADLOCK FALSE
