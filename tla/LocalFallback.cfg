SPECIFICATION LocalSpec
CONSTANTS
  Request = {r1, r2, r3, r4, r5}
  Rate = 3
  Capacity = 3
  WindowSeconds = 2
  Second = 2
  StateTtlSeconds = 2
  MaxTime = 10
  MaxSkew = 1
SYMMETRY Symmetry
INVARIANTS
  MemoryDecides
  RetryAfterExact
PROPERTIES
  LocalImplementsQuota
