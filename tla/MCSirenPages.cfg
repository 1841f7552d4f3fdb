CONSTANTS
  None = None
  Peers = {hub}
  Gateway = gw
  Admissions <- NoTokens
  AllowLocal = TRUE
SPECIFICATION Spec
INVARIANTS AffordancesHonoured CrawlFindsAllowed
