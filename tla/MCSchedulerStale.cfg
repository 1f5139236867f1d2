CONSTANTS
  Ids = {1, 2}
  Providers = {"p"}
  Models <- OneModel
  Inputs <- RefreshInputs
  TriedSets <- Untried
  MaxTime = 2
  None = None
  BackoffBase = 1
  BackoffMax = 4
  RefreshLead = 1
  RefreshDelay = 1
  QuotaCooldownDisabled = FALSE
SPECIFICATION Spec
INVARIANT PickIsLatest
