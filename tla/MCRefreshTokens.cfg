SPECIFICATION Spec
CONSTANTS
  Calls = {c1, c2, c3}
  Tokens = {t1, t2, t3}
  Families = {f1}
  Devices = {d1, d2}
  NoDevice = NoDevice
  NoVersion = NoVersion
  NoToken = NoToken
  NoFamily = NoFamily
  Absent = Absent
  Ttl = 1
  MaxTime = 1
  MaxVersion = 1
SYMMETRY Symmetry
CHECK_DEADLOCK FALSE
INVARIANTS
  AtMostOneHead
  ClaimedOnce
  AlarmIsHonest
  OnlyMidwaySurvives
PROPERTIES
  RevocationIsPermanent
