CONSTANTS
  Codes = {c1}
  MaxSessions = 3
  MaxConcurrent = 1
  BurnLimit = 2
  Senders = {p1}
  Receivers = {q1}
  Waiters = {w1}
  Chunks = 1
  TTL = 1
  LastInit = 0
  MaxTime = 2
SPECIFICATION FairSpec
PROPERTY EveryCallReturns
CHECK_DEADLOCK FALSE
