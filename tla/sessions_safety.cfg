SPECIFICATION Spec
CONSTANTS
  User = {u1, u2}
  Req = {r1, r2, r3}
  RefreshToken = {n1, n2, n3}
  NoRow = NoRow
  None = None
  AccessTTL = 1
  RefreshTTL = 2
  MaxTime = 2
  ForeignKeys = FALSE
SYMMETRY Symmetry
INVARIANTS TypeOK Tracked SessionsEnded RotationSpendsOld
PROPERTIES NeverStranded NoResurrection PolicySpec
CHECK_DEADLOCK FALSE
