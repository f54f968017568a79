SPECIFICATION FairSpec
CONSTANTS
  w1 = w1
  w2 = w2
  a = a
  b = b
  c = c
  r1 = r1
  r2 = r2
  Nobody = Nobody
  Workspaces = {w1, w2}
  People = {a, b, c}
  Roles = {"admin", "operator"}
  Requests = {r1, r2}
  Operations <- PairOperations
  InitialMembers <- MCInitialMembers
  LastAttempt = 1
CONSTRAINTS EachPairOnce OthersStay
INVARIANTS TypeOK AppliedAtMostOnce
PROPERTIES ImplementsLedger EveryRequestEnds
