SPECIFICATION Spec
CONSTANTS
  Jobs = {j1}
  MaxAttempts = 2
  MaxVersions = 3
CHECK_DEADLOCK FALSE
INVARIANTS
  ChargedOnce
  WorkersSeeOwnJobs
  SettledRead
PROPERTIES
  JobsFinish
