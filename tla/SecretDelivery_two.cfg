CONSTANTS
  Secrets = {s1, s2}
  Inline = {s1}
  Large = {s2}
  TTLs = {1}
  PendingTTL = 1
  StreamTimeout = 1
  OpenObjectGrace = 2
  MaxFailedAccess = 1
  BatchSize = 1
  CreateLag = 0
  MaxPuts = 1
  LastCreate = 0
  MaxTime = 2
SPECIFICATION FairSpec
PROPERTY
  EventuallyForgotten
