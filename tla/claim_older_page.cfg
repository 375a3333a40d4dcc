SPECIFICATION Spec
CONSTANTS
  Room = {a}
  Mine = {a}
  Batch = 1
  MaxFetch = 1
  Submission = {}
  MaxLog = 2
  Second = {0, 1}
  MaxWire = 2
  MaxMoves = 2
  None = None
PROPERTY OlderAreNew
CHECK_DEADLOCK FALSE
