SPECIFICATION Spec
CONSTANTS
  None = None
  Uploads = {u1, u2}
  Restores = {r1, r2}
  MaxDamage = 2
  MaxCrashes = 1
INVARIANTS RowsHaveTheirFiles LeftoversAreTold BackupsRestore
CHECK_DEADLOCK FALSE
