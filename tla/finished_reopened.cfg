SPECIFICATION Spec
CONSTANTS
  t1 = t1
  t2 = t2
  a1 = a1
  a2 = a2
  NoTask = NoTask
  NoAgent = NoAgent
  Tasks = {t1}
  Parent <- Single
  Verified = {}
  Agents = {a1, a2}
  Commands <- Reclaims
  MaxStatus = 4
  MaxReports = 2
PROPERTIES
  FinishedStaysFinished
CHECK_DEADLOCK FALSE
