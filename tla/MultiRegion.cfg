SPECIFICATION Spec
CONSTANTS
  Limits = {1, 2, 3, 4}
  Lags = {0, 1, 2, 3, 5}
  Counts <- SomeCounts
  Spacings <- SomeSpacings
CHECK_DEADLOCK FALSE
INVARIANTS
  TypeOK
  NoFalseBlock
  OversubscriptionIsStale
  NoLagNoOversubscription
  StalenessBounded
PROPERTIES
  Converges
