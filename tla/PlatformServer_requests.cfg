\* A process ends and stays ended.
CHECK_DEADLOCK FALSE
SPECIFICATION FairSpec
CONSTANTS
  r1 = r1
  r2 = r2
  s1 = s1
  s2 = s2
  Requests = {r1, r2}
  Sessions = {s1, s2}
  NoSession = NoSession
  NoToken = NoToken
  Paths <- PathsAsked
  Wired <- AllWired
  PublicBase = "apex"
  Arrivals <- MCArrivals
  EndOf <- Ends
  MaxTokens = 2
  TTL = 3
  MaxClock = 3
  MaxSignals = 2
CONSTRAINTS AloneUnlessWellFormed EachPairOnce TokensAtTheLast
INVARIANT TokenInvariant
INVARIANT StopInvariant
INVARIANT RoutingInvariant
PROPERTY ShutdownEnds
