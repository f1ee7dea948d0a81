SPECIFICATION FairSpec
CONSTANTS
  t1 = t1
  t2 = t2
  t3 = t3
  w1 = w1
  w2 = w2
  c1 = c1
  c2 = c2
  NoTask = NoTask
  NoContext = NoContext
  Tasks = {t1, t2, t3}
  Workers = {w1, w2}
  Sticky = {t1, t2}
  Parent <- FamilyParent
  DependsOn <- FamilyDependsOn
  CreatedAt <- FamilyCreatedAt
  Context <- TwoContexts
  Commands <- WorkerAndSupervisor
  MaxRetries = 1
  MaxStatus = 2
  MaxClaim = 4
INVARIANTS
  TypeOK
  FamilySharesContext
PROPERTIES
  DepsDoneAtClaim
  ClaimsTheNew
  ImplementsBoard
  RunnableIsTaken
CHECK_DEADLOCK FALSE
