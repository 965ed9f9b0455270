\* A cooldown that is over keeps the binding from being used.
CONSTANTS
  a1 = a1
  a2 = a2
  a3 = a3
  Accounts = {a1, a2}
  Requests = {r1, r2}
  Keys = {k1}
  NoKey = NoKey
  NoId = NoId
  Cap = 2
  ConfigOrder <- Order2
  Strategy = "round-robin"
  Kinds = {"chat"}
  Answers <- OkOrRateLimited
  CooldownOf <- ShortCooldowns
  StickyTTL = 2
  UsageLimit <- NoQuota
  Refreshable = {a1}
  Ageing = {}
  Toggled = {}
  Polled = {}
  Reports = {}
  Period = 2
SYMMETRY RequestSymmetry
SPECIFICATION Spec
PROPERTIES
  StickyRestored
