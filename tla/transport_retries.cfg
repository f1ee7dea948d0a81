SPECIFICATION FairSpec
CONSTANTS
  c1 = c1
  c2 = c2
  Clients = {c1, c2}
  NoClient = NoClient
  MaxAttempts = 2
  MaxCalls = 2
INVARIANTS
  TypeOK
  ClaimsFollowNew
PROPERTIES
  ImplementsAtMostOnce
  CommandsEnd
CHECK_DEADLOCK FALSE
