CONSTANTS
  Secrets = {s1}
  Inline = {s1}
  Large = {s1}
  TTLs = {1, 3}
  PendingTTL = 2
  StreamTimeout = 1
  OpenObjectGrace = 2
  MaxFailedAccess = 2
  BatchSize = 1
  CreateLag = 1
  MaxPuts = 2
  LastCreate = 1
  MaxTime = 7
SPECIFICATION Spec
INVARIANTS
  TypeOK
  OutcomeIsTruthful
  SenderCanAskUntilExpiry
  NoJobForObjectInUse
  GaugeBalanced
PROPERTY ImplementsOneTimeDelivery
