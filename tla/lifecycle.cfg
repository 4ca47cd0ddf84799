SPECIFICATION FairSpec
CONSTANTS
  Roles = {"server", "client"}
  N = 2
  Callers = {c1, c2}
  Completion = TRUE
  Faults = TRUE
  Timeouts = TRUE
  MaxWrites = 1
INVARIANTS
  TypeOK
  CloseIsComplete
  FdClosedOnce
  NoneLeftOpen
PROPERTIES
  CloseReturns
  SetupReturns
CHECK_DEADLOCK FALSE
