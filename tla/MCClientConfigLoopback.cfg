SPECIFICATION Spec
CONSTANTS
  MaxDuration = 8
  MaxJitter = 8
  Urls <- MCUrls
  Tokens = {"token", "other token", "blank"}
  Orgs = {"team"}
  Rests = {"longer timeouts", "bad user agent"}
  Policies <- MCPolicies
  MaxEdits = 2
INVARIANT LocalhostMayUseHttp
