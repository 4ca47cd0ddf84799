SPECIFICATION Spec
CONSTANTS
  Roles = {"server"}
  N = 2
  Callers = {c1}
  Completion = TRUE
  Faults = TRUE
  Timeouts = FALSE
  MaxWrites = 0
INVARIANTS
  FailedBindClosesSockets
CHECK_DEADLOCK FALSE
