SPECIFICATION ReplanSpec
CONSTANTS
  t1 = t1
  t2 = t2
  t3 = t3
  w1 = w1
  w2 = w2
  c1 = c1
  NoTask = NoTask
  NoContext = NoContext
  Tasks = {t1, t2, t3}
  Workers = {w1, w2}
  Sticky = {}
  Parent <- LineParent
  DependsOn <- LineDependsOn
  CreatedAt <- LineCreatedAt
  Context <- OneContext
  Commands <- WorkerAndSupervisor
  MaxRetries = 0
  MaxStatus = 2
  MaxClaim = 4
  p1 = p1
  Planners = {p1}
  Modes <- SomeModes
  MaxReplans = 1
INVARIANTS
  ReplanTypeOK
  CascadeIsComplete
PROPERTIES
  ReplanSparesTheBusy
  ClaimsTheNew
CHECK_DEADLOCK FALSE
