SPECIFICATION Spec
CONSTANTS
  Request = {r1, r2, r3, r4, r5}
  Rate = 2
  Capacity = 3
  WindowSeconds = 1
  Second = 3
  MaxTime = 11
  MaxSkew = 2
SYMMETRY Symmetry
INVARIANTS
  RateBound
  HeadersExact
PROPERTIES
  ImplementsQuota
