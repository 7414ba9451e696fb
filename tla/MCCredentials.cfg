SPECIFICATION Spec
CONSTANTS
  Calls = {c1, c2, c3}
  NoCall = NoCall
  Passwords = {p1, p2}
  NoPassword = NoPassword
  Links = {l1, l2}
  NoLink = NoLink
  MaxAttempts = 2
SYMMETRY Symmetry
INVARIANTS
  ReplacedSignedOut
  OneLinkWorks
  LockoutHolds
CHECK_DEADLOCK FALSE
