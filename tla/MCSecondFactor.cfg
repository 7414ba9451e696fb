SPECIFICATION Spec
CONSTANTS
  Calls = {c1, c2, c3, c4}
  Challenges = {k1}
  NoChallenge = NoChallenge
  Secrets = {s1, s2}
  NoSecret = NoSecret
  MaxAttempts = 2
  Period = 2
  Window = 1
  MaxTime = 8
SYMMETRY Symmetry
INVARIANTS
  CodeIsSpent
  
  EnrollmentIsProven
CHECK_DEADLOCK FALSE
