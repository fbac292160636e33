CONSTANTS
  Jobs = {j1}
  Managed = {j1}
  NoJob = NoJob
  Workers = {w1, w2}
  MaxFailures = 2
  ProcessingLease = 2
  JobTimeout = 1
  MaxFaults = 2
SPECIFICATION FairSpec
INVARIANTS
  TypeOK
  OneRunningAttempt
  BudgetIsExact
  HandlersExclude
  NoJobLost
PROPERTIES
  ImplementsJobQueue
  EveryJobEnds
CHECK_DEADLOCK FALSE
