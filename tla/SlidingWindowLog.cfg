SPECIFICATION Spec
CONSTANTS
  Request = {r1, r2, r3, r4, r5}
  Rate = 2
  WindowSeconds = 2
  Second = 2
  MaxTime = 11
  MaxSkew = 2
SYMMETRY Symmetry
INVARIANTS
  TypeOK
  LogRemembers
  TrailingQuota
  HeadersExact
PROPERTIES
  ImplementsQuota
