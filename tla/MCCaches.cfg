SPECIFICATION CachesSpec
CONSTANTS
  Callers = {c1, c2, c3}
  NoOne = NoOne
  Lease = 2
  WaitFor = 2
  Retry = 1
  Requests = {q1, q2}
  Replicas = {r1, r2}
  NoReplica = NoReplica
  NoGraph = NoGraph
  NearTtl = 1
  FarTtl = 2
  MaxEdits = 1
  Unused = Unused
SYMMETRY CachesSymmetry
INVARIANTS
  Exclusion
  WindowsClose
  InvalidationBites
CHECK_DEADLOCK FALSE
