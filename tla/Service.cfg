SPECIFICATION Spec
CONSTANTS
  Request = {r1, r2, r3, r4}
  Instance = {i1, i2}
  Limit = 1
  Scenario <- Scenarios
CHECK_DEADLOCK FALSE
SYMMETRY Symmetry
INVARIANTS
  RedisQuota
  OverallQuota
  PlacesAccounted
  RefusalEarned
  FailClosed
