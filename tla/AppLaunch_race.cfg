SPECIFICATION Spec
CONSTANTS
  Slots = {x1, x2}
  Tokens = {t1}
  Grants = {g1, g2}
  Handles = {h1, h2}
  None = None
  TokenLife = 1
  HandleLife = 2
  SessionExpiry = 2
  Entitlements = {"none", "enabled"}
  MaxClock = 1
  MaxChanges = 1
SYMMETRY Symmetry
CHECK_DEADLOCK FALSE
INVARIANTS
  TypeOK
  DecidedOnLiveFacts
  TokenSpentOnce
  HandleSpentOnce
  FinalizedWithinLaunch
