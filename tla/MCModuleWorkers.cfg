SPECIFICATION Spec
CONSTANTS
  MaxWorkers = 4
  MaxOps = 3
  SuspendAfter = 3
CHECK_DEADLOCK FALSE
INVARIANTS
  OneWorker
  RestartPending
  GoneIsGone
PROPERTIES
  OpsAnswered
