SPECIFICATION FairSpec
CONSTANTS
  e1 = e1
  e2 = e2
  r1 = r1
  r2 = r2
  r3 = r3
  r4 = r4
  Executors = {e1, e2}
  Rights <- MCRights
  ObjectOf <- MCObjectOf
  Ledger = "ledger"
  PlansFor <- RacingPlans
  Initial = {}
  Drifting = {r1}
  ReadyStates <- MCReady
  MaxFaults = 2
  MaxDrift = 1
CHECK_DEADLOCK FALSE
INVARIANTS TypeOK ReceiptTruthful
PROPERTIES ForwardOnPlannedState EveryCallEnds
