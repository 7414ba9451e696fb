SPECIFICATION LicensingSpec
CONSTANTS
  Requests = {r1, r2}
  FreshFor = 1
  NoGrowthFor = 2
  ReadOnlyFor = 3
  Timeout = 1
  Skew = 1
  Term = 2
  MaxMoves = 2
  MaxDate = 5
  Kids = {k1, k2}
  Tolerance = 1
  MaxSequence = 2
  MaxClock = 3
  Unused = Unused
SYMMETRY LicensingSymmetry
INVARIANTS
  StaleAccessEnds
  LapseEndsGrowth
  RevocationSticks
CHECK_DEADLOCK FALSE
