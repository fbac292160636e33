CONSTANTS
  Keys = {1, 2}
  Scanners = {p1, p2}
  Limit = 1
  MaxPuts = 2
  MaxFaults = 2
SPECIFICATION FairSpec
INVARIANTS
  TypeOK
  LiveObjectsAreSpared
  ClaimsMatchJobs
  PassIsComplete
PROPERTY OrphansAreDeleted
CHECK_DEADLOCK FALSE
