SPECIFICATION Spec
CONSTANTS
  Room = {a, b}
  Mine = {}
  Batch = 1
  MaxFetch = 2
  Submission = {}
  MaxLog = 2
  Second = {0, 1}
  MaxWire = 1
  MaxMoves = 2
  None = None
SYMMETRY Symmetry
INVARIANT InStep
CHECK_DEADLOCK FALSE
