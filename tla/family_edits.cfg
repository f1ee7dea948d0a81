SPECIFICATION FairSpec
CONSTANTS
  p1 = p1
  p2 = p2
  Planners = {p1, p2}
  Slugs <- TwoChildren
  MaxCrashes = 1
INVARIANTS
  TypeOK
  SupersededHasSuccessor
PROPERTIES
  RollupSawTheListed
  WrapperCloses
CHECK_DEADLOCK FALSE
