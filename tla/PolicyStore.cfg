SPECIFICATION ProvisioningSpec
CONSTANTS
  Null = Null
  Admin = {a1, a2}
  Session <- Sessions
  Body <- Bodies
  Patch <- Patches
  Traffic <- Calls
  Plan <- Plans
  MaxPolicies = 9
  MaxWrites = 3
SYMMETRY Symmetry
CHECK_DEADLOCK FALSE
INVARIANTS
  TypeOK
  ChangesAnnounced
  RowsValid
  AcknowledgedWasWritten
  KeyTells
  MostSpecificWins
  ProvisioningHolds
PROPERTIES
  DeletedStaysDeleted
