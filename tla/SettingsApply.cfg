CONSTANTS
  Urls = {u1}
  Secrets = {k1, k2}
  None = none
  MaxFailures = 2
  MaxCommands = 2
SPECIFICATION Spec
INVARIANTS AllOrNothing
CHECK_DEADLOCK FALSE
