SPECIFICATION Spec
CONSTANTS
  Callers = {c1, c2, c3}
  NoOne = NoOne
  Lease = 2
  WaitFor = 2
  Retry = 1
CHECK_DEADLOCK FALSE
PROPERTIES
  AcquireReturns
