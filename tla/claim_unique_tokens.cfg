SPECIFICATION Spec
CONSTANTS
  User = {u1}
  Req = {r1, r2, r3}
  RefreshToken = {n1, n2}
  NoRow = NoRow
  None = None
  AccessTTL = 1
  RefreshTTL = 1
  MaxTime = 2
  ForeignKeys = TRUE
INVARIANT LoginTokensUnique
CHECK_DEADLOCK FALSE
