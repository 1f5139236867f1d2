CONSTANTS
  Ids = {1}
  Logins <- OneLogin
  Providers = {"p", "q"}
  Refreshable = {"p"}
  Clients = {c1}
  Workers = {w1}
  Loops = {l1}
  SemaphoreCap = 1
  Results <- AuthOnly
  MaxTime = 1
  MaxLevel = 1
  MaxToken = 2
  Faults = FALSE
  Crashes = FALSE
  None = None
  Models <- OneModel
  BackoffBase = 1
  BackoffMax = 4
  RefreshLead = 2
  RefreshDelay = 1
  Lifetime = 3
  QuotaCooldownDisabled = FALSE
  c1 = c1
  w1 = w1
  l1 = l1
SPECIFICATION Spec
PROPERTY DisabledStays
