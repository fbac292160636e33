CONSTANTS
  Clients = {c1}
  Strangers = {c2}
  Proxies = {x1}
  Junk = junk
  Handlers = {h1, h2, h3}
  Cost = 2
  Rate = 1
  Burst = 4
  IdleLimit = 6
  MaxSkew = 2
  MaxTime = 12
SPECIFICATION Spec
INVARIANTS TypeOK EvictionIsInvisible AdmissionIsBounded CountedUnderItsClient
CHECK_DEADLOCK FALSE
