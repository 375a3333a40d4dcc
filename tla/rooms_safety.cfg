SPECIFICATION Spec
CONSTANTS
  User = {u1, u2}
  Room = {i1}
  RoomUserId = {k1, k2, k3}
  Req = {r1, r2, r3}
  Unused = Unused
  Gone = Gone
  None = None
SYMMETRY Symmetry
INVARIANTS TypeOK DirectRoomsClosed PrivateByInvitation RemovalComplete CreateAnswersItsRoom
PROPERTIES DeletionIsFinal OwnerGoverns PolicySpec
CHECK_DEADLOCK FALSE
