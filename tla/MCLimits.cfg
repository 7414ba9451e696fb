SPECIFICATION LimitsSpec
CONSTANTS
  Calls = {c1, c2, c3}
  MaxTime = 4
  Capacity = 2
  Rate = 1
  Cost = 1
  MaxAttempts = 2
  Limit = 2
  Window = 2
  Factor = 2
  MaxEntries = 2
  Sample = 1
  MaxTtl = 2
  MaxCount = 2
  Text = Text
  NoValue = NoValue
  Unused = Unused
SYMMETRY LimitsSymmetry
INVARIANTS
  ExactInOrder
  NoBoundaryBurst
  RecentAreKept
CHECK_DEADLOCK FALSE
