SPECIFICATION FairCrashSpec
CONSTANTS
  User = {u1}
  Req = {r1, r2, r3}
  RefreshToken = {n1, n2}
  NoRow = NoRow
  None = None
  AccessTTL = 1
  RefreshTTL = 0
  MaxTime = 1
  ForeignKeys = TRUE
INVARIANT RotationSpendsOld
PROPERTIES NeverStranded BlacklistDrains
CHECK_DEADLOCK FALSE
