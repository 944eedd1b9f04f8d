SPECIFICATION Spec
CONSTANTS
  c1 = c1
  c2 = c2
  c3 = c3
  Calls <- Calls3
  Authorised <- Authorised2
  Billable <- Billable2
INVARIANTS
  OneOwner
PROPERTIES
  ImplementsContract
  AlwaysAnswered
CHECK_DEADLOCK FALSE
