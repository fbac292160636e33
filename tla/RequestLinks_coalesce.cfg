CONSTANTS
  Requests = {r1}
  Tokens = {t1}
  Bodies = {b1}
  None = None
  Finalizers = {f1, f2}
  Openers = {o1}
  NoCall = NoCall
  TTL = 2
  ReservationTTL = 1
  MaxGeneration = 2
  MaxCopies = 1
  StreamTimeout = 1
  OpenObjectGrace = 2
  BatchSize = 1
  MaxPuts = 2
  LastCreate = 0
  MaxTime = 3
SPECIFICATION Spec
INVARIANT CoalescesSameAttempt
CHECK_DEADLOCK FALSE
