CONSTANTS
  Secrets = {s1, s2}
  Openers = {p1, p2}
  User = user
  Nobody = nobody
  MaxAttempts = 2
SPECIFICATION Spec
INVARIANTS TypeOK PayloadSurvives FailedOpenLeavesNothing LinkIsOpenable
PROPERTY NothingOverwritten
SYMMETRY Symmetry
CHECK_DEADLOCK FALSE
