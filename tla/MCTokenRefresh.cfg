CONSTANTS
  Ids = {1}
  Providers = {"codex", "claude", "gemini"}
  Omits = {"claude", "gemini"}
  MaxRetries = 3
  MaxApps = 2
  MaxToken = 3
  None = None
SPECIFICATION FairSpec
INVARIANTS
  TypeOK
  RefreshingIsUnderWay
  RefreshTokenIsKept
  TokenSurvivesReload
  ReuseHasACause
PROPERTY OldAppFallsSilent
