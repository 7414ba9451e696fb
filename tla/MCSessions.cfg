SPECIFICATION Spec
CONSTANTS
  Calls = {c1, c2, c3}
  Ids = {s1, s2}
  NoId = NoId
  NoOne = NoOne
  Absent = Absent
  MaxConcurrent = 1
  Idle = 2
  Absolute = 3
  MaxTime = 3
CHECK_DEADLOCK FALSE
INVARIANTS
  LimitHeld
  SurvivorsRaced
PROPERTIES
  CallsReturn
