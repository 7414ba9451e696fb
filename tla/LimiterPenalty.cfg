SPECIFICATION LimitsSpec
CONSTANTS
  Calls = {c1, c2, c3}
  MaxTime = 2
  Capacity = 2
  Rate = 1
  Cost = 1
  MaxAttempts = 2
  Limit = 1
  Window = 2
  Factor = 2
  MaxEntries = 1
  Sample = 0
  MaxTtl = 0
  MaxCount = 1
  Text = Text
  NoValue = NoValue
  Unused = Unused
SYMMETRY LimitsSymmetry
INVARIANT ViolationsDoNotPay
CHECK_DEADLOCK FALSE
