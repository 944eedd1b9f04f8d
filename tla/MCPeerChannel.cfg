SPECIFICATION Spec
CONSTANTS
  c1 = c1
  c2 = c2
  c3 = c3
  c4 = c4
  Calls <- Calls4
  Granted <- Granted4
  Billable <- Billable4
  MaxSends = 2
  MaxDispatches = 1
INVARIANTS
  ExactlyOneAnswer
  WindowsExact
PROPERTIES
  StaleNeverSent
  ImplementsContract
  AnsweredByTransport
CHECK_DEADLOCK FALSE
