CONSTANTS
  Ids = {1, 2, 3}
  Providers = {"p", "q"}
  Models <- TwoModels
  Inputs <- AllInputs
  TriedSets <- Untried
  MaxTime = 3
  None = None
  BackoffBase = 1
  BackoffMax = 4
  RefreshLead = 1
  RefreshDelay = 1
  QuotaCooldownDisabled = FALSE
SPECIFICATION Spec
PROPERTIES
  ImplementsPool
  EvenRotation
INVARIANTS
  TypeOK
  PlacementAgrees
  IndexesAgree
  HeldUntilRetryOnly
