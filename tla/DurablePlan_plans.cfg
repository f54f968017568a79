\* A call is answered once, and the others stop with it.
CONSTANTS
  Catalogues <- MCCatalogues
  PlansFor <- MCPlansFor
  ByHandOps <- MCByHandOps
  Journal = 2
  Historical = {1}
  Elsewhere = {"object", "activation", "membership", "failover"}
  MaxDrift = 1
SPECIFICATION PlanSpec
INVARIANT PlanInvariant
PROPERTY CheckedInverseRestores
CHECK_DEADLOCK FALSE
