CONSTANTS
  Requests = {q1, q2}
  q1 = q1
  q2 = q2
  Asks <- BothApis
  Serving <- OneOfAKind
  Ids = {1}
  Initial <- Logins
  Errors = {401, 429}
  MaxTime = 2
  MaxToken = 2
  MaxFrames = 1
  Faults = TRUE
  Providers = {"p"}
  Models <- OneModel
  None = None
  BackoffBase = 1
  BackoffMax = 4
  RefreshLead = 1
  RefreshDelay = 1
  QuotaCooldownDisabled = FALSE
SPECIFICATION FairSpec
INVARIANTS
  TypeOK
  BlameIsDeserved
  SecretIsAccounted
  RetriesAreJustified
  ClientAndManagerAgree
PROPERTIES
  
  EveryCallEnds
CHECK_DEADLOCK FALSE
ACTION_CONSTRAINT FewDisturbances
