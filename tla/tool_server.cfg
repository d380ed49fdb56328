CONSTANTS
  Call = {c1, c2}
  Tool = {t1, t2}
  MinRequests = 2
  FailurePercent = 50
  MaxRequests = 2
  Interval = 1
  OpenTimeout = 1
  None = None
  MaxCount = 2
  MaxTime = 2
SPECIFICATION FairSpec
INVARIANTS
  TypeOK
  OneBreaker
  HealthyToolServed
  ProbesAccountedFor
PROPERTIES
  HalfOpenResolves
  RequestsAnswered
CHECK_DEADLOCK FALSE
