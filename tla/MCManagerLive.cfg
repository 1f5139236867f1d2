CONSTANTS
  Ids = {1, 2}
  Logins <- RivalLogins
  Providers = {"p", "q"}
  Refreshable = {"p"}
  Clients = {c1}
  Workers = {w1}
  Loops = {l1}
  SemaphoreCap = 1
  Results <- NoResults
  MaxTime = 2
  MaxLevel = 1
  MaxToken = 2
  Faults = FALSE
  Crashes = FALSE
  None = None
  Models <- OneModel
  BackoffBase = 1
  BackoffMax = 4
  RefreshLead = 2
  RefreshDelay = 1
  Lifetime = 3
  QuotaCooldownDisabled = FALSE
  c1 = c1
  w1 = w1
  l1 = l1
SPECIFICATION FairSpec
ACTION_CONSTRAINT Apart
INVARIANTS
  TokenIsCurrent
  RefreshingEnds
PROPERTIES
  SlotsReturn
  DueIsServed
