CONSTANTS
  Batch = {b1, b2}
  Slot = {s1, s2}
  Key = {k1, k2, k3}
  Cacheable = {k1, k2}
  MaxConcurrency = 1
  PeerKey = {k1}
  Capacity = 1
  TTL = 2
  None = None
  MaxTime = 4
SPECIFICATION FairSpec
INVARIANTS
  TypeOK
  AnswerFresh
  CapacityWithoutRedis
PROPERTIES
  BatchReturns
CHECK_DEADLOCK FALSE
