SPECIFICATION Spec
CONSTANTS
  User = {u1, u2}
  Room = {i1,i2}
  RoomUserId = {k1,k2,k3,k4}
  Req = {r1,r2}
  Unused = Unused
  Gone = Gone
  None = None
INVARIANTS DirectRoomUnique
CHECK_DEADLOCK FALSE
