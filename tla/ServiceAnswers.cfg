SPECIFICATION Spec
CONSTANTS
  Request = {r1, r2}
  Instance = {i1, i2}
  Limit = 1
  Scenario <- Answering
CHECK_DEADLOCK FALSE
PROPERTIES
  Answered
