\* A conversation whose account is removed as it is looked for.
CONSTANTS
  a1 = a1
  a2 = a2
  a3 = a3
  Accounts = {a1, a2}
  Requests = {r1}
  Keys = {k1}
  NoKey = NoKey
  NoId = NoId
  Cap = 2
  ConfigOrder <- Order2
  Strategy = "round-robin"
  Kinds = {"chat", "control"}
  Answers <- OkOrServerError
  CooldownOf <- OneTick
  StickyTTL = 1
  UsageLimit <- SecondQuota
  Refreshable = {a1}
  Ageing = {a1}
  Toggled = {a2}
  Polled = {a2}
  Reports = {0, 2}
  Period = 2
  Removable = {a1}
SPECIFICATION FairChurnSpec
PROPERTIES
  FallsBackToRotation
CHECK_DEADLOCK FALSE
