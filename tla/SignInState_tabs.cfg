SPECIFICATION SignInSpec
CONSTANTS
  States = {s1, s2, s3}
  Browsers = {b1, b2}
  Starts = {x1, x2}
  Callbacks = {k1, k2}
  None = None
  Answers <- MCAnswers
  Lifetime = 1
  Capacity = 2
  MaxClock = 1
SYMMETRY Symmetry
CHECK_DEADLOCK FALSE
INVARIANTS
  SignInTypeOK
  StateSpentOnce
  SignedInWhereStarted
  ConsumedInTime
  WithinCapacity
