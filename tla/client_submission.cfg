SPECIFICATION FairSpec
CONSTANTS
  Room = {a}
  Mine = {a}
  Batch = 1
  MaxFetch = 1
  Submission = {x1}
  MaxLog = 2
  Second = {0}
  MaxWire = 2
  MaxMoves = 3
  None = None
INVARIANTS TypeOK InStep SentOnce
PROPERTIES SubmissionSettles OlderSettles
CHECK_DEADLOCK FALSE
