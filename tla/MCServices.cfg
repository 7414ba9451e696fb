SPECIFICATION Spec
CONSTANTS
  KeyCalls = {k1, k2, k3, k4}
  Keys = {key1, key2}
  NoKey = NoKey
  DeviceCalls = {d1, d2, d3, d4}
  Prints = {f1, f2}
  NoPrint = NoPrint
  NoDevice = NoDevice
  Trust = 2
  MessageCalls = {m1, m2}
  Replicas = {r1, r2}
  Shared = Shared
  NoCall = NoCall
  MaxTransports = 2
  MaxAttempts = 2
  Window = 2
  SinkCalls = {s1, s2, s3}
  MaxBatch = 2
  MaxRecords = 5
  Roles = {ro1, ro2, ro3}
  NoRole = NoRole
  Star = "*"
  NotAsked = NotAsked
  MaxEdits = 1
  MaxTime = 3
  Unused = Unused
SYMMETRY Symmetry
INVARIANTS
  RevocationHolds
  DistrustHolds
  OneNotice
  FailureIsRetried
  MirrorIsComplete
  AnswersMatchRoles
CHECK_DEADLOCK FALSE
