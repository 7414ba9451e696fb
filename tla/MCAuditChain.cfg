SPECIFICATION Spec
CONSTANTS
  Writers = {w1, w2, w3}
  Upgraded = {w1}
  Tenants = {a, b}
  NoTenant = NoTenant
  Forged = Forged
  MaxAttempts = 2
  MaxRecords = 2
CHECK_DEADLOCK FALSE
INVARIANTS
  ChainVerifies
  TamperingShows
PROPERTIES
  WritesEnd
  TrailIsLog
