\* A refresh under way during a removal writes into the next account.
CONSTANTS
  a1 = a1
  a2 = a2
  a3 = a3
  Accounts = {a1, a2}
  Requests = {r1, r2}
  Keys = {k1}
  NoKey = NoKey
  NoId = NoId
  Cap = 2
  ConfigOrder <- Order2
  Strategy = "round-robin"
  Kinds = {"chat"}
  Answers <- OkOrServerError
  CooldownOf <- ShortCooldowns
  StickyTTL = 2
  UsageLimit <- NoQuota
  Refreshable = {a1}
  Ageing = {a1}
  Toggled = {}
  Polled = {}
  Reports = {}
  Period = 2
  Removable = {a1}
SYMMETRY RequestSymmetry
SPECIFICATION ChurnSpec
INVARIANTS
  TokenOfItsAccount
