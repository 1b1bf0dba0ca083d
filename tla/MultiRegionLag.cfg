SPECIFICATION Spec
CONSTANTS
  Limits = {4}
  Lags = {2}
  Counts = {4}
  Spacings = {1}
CHECK_DEADLOCK FALSE
INVARIANTS
  ReplicationLags
