SPECIFICATION Spec
CONSTANTS
  User = {u1, u2}
  Room = {i1}
  Message = {m1, m2, m3}
  Content = {{}, {u1}, {u2}}
  ReactionId = {k1, k2}
  Req = {r1, r2, r3}
  Unused = Unused
  Gone = Gone
  None = None
SYMMETRY Symmetry
INVARIANTS TypeOK MentionsFollowContent ReactionFollowsToggles
PROPERTIES SenderGoverns LogSpec
CHECK_DEADLOCK FALSE
