SPECIFICATION Spec
CONSTANTS
  User = {u1}
  Room = {i1}
  Socket = {s1, s2}
  Message = {m1}
  Content = {c1, c2}
  Job = {h1, h2}
  MaxRest = 1
  Unused = Unused
  None = None
SYMMETRY Symmetry
INVARIANTS TypeOK ChannelsByRight PresenceFollowsSockets ShownFollowsContent
PROPERTIES PostsByRight
CHECK_DEADLOCK FALSE
