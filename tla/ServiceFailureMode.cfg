SPECIFICATION Spec
CONSTANTS
  Request = {r1, r2}
  Instance = {i1}
  Limit = 1
  Scenario <- OneFallback
CHECK_DEADLOCK FALSE
INVARIANTS
  FailureModeDecides
