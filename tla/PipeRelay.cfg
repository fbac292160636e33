CONSTANTS
  Codes = {c1}
  MaxSessions = 2
  MaxConcurrent = 1
  BurnLimit = 2
  Senders = {p1, p2}
  Receivers = {q1, q2}
  Waiters = {}
  Chunks = 2
  TTL = 1
  LastInit = 1
  MaxTime = 3
SPECIFICATION Spec
INVARIANTS
  TypeOK
  StreamIsWhole
  RemovedIsClosed
SYMMETRY Symmetry
CHECK_DEADLOCK FALSE
