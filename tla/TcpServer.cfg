SPECIFICATION Spec
CONSTANTS
  Callers = {c1, c2}
  Clients = {k1}
  NStarts = 2
  NRuns = 2
CHECK_DEADLOCK FALSE
INVARIANTS FieldsHold
PROPERTIES ForeverReturns WaitReturns
