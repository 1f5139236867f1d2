CONSTANTS
  Ids = {1, 2}
  Providers = {"p"}
  Models <- VariantModels
  Inputs <- VariantInputs
  TriedSets <- Untried
  MaxTime = 3
  None = None
  BackoffBase = 1
  BackoffMax = 4
  RefreshLead = 1
  RefreshDelay = 1
  QuotaCooldownDisabled = FALSE
SPECIFICATION Spec
INVARIANT ModelHoldIsFound
