SPECIFICATION LocalSpec
CONSTANTS
  Request = {r1, r2, r3, r4, r5}
  Rate = 2
  Capacity = 2
  WindowSeconds = 2
  Second = 2
  StateTtlSeconds = 1
  MaxTime = 10
  MaxSkew = 0
SYMMETRY Symmetry
CHECK_DEADLOCK FALSE
INVARIANTS
  EnforcesRate
