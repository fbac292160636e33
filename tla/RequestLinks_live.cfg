CONSTANTS
  Requests = {r1}
  Tokens = {t1}
  Bodies = {b1, b2}
  None = None
  Finalizers = {f1}
  Openers = {o1, o2}
  NoCall = NoCall
  TTL = 2
  ReservationTTL = 1
  MaxGeneration = 2
  MaxCopies = 1
  StreamTimeout = 1
  OpenObjectGrace = 2
  BatchSize = 1
  MaxPuts = 1
  LastCreate = 0
  MaxTime = 3
SPECIFICATION FairSpec
PROPERTIES
  ImplementsOneTimeRequest
  NothingRemains
CHECK_DEADLOCK FALSE
