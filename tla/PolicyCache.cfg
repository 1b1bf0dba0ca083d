SPECIFICATION Spec
CONSTANTS
  Instance = {i1, i2}
  Reader = {r1}
  Writer = {w1}
  CacheTtl = 1
  SnapshotTtl = 0
  Setting <- Settings
  Slow = 1
  Late = 1
  MaxLate = 1
  MaxVersion = 1
INVARIANTS
  TypeOK
  StalenessBounded
  InvalidationWorks
PROPERTIES
  Converges
