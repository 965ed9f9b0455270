\* Two accounts, two requests of one conversation: routing, cooldowns, bindings, tokens.
CONSTANTS
  a1 = a1
  a2 = a2
  a3 = a3
  Accounts = {a1, a2}
  Requests = {r1, r2}
  Keys = {k1}
  NoKey = NoKey
  NoId = NoId
  Cap = 2
  ConfigOrder <- Order2
  Strategy = "round-robin"
  Kinds = {"chat"}
  Answers <- OkOrServerError
  CooldownOf <- OneTick
  StickyTTL = 1
  UsageLimit <- NoQuota
  Refreshable = {a1}
  Ageing = {a1}
  Toggled = {}
  Polled = {}
  Reports = {}
  Period = 2
SYMMETRY RequestSymmetry
SPECIFICATION HistorySpec
INVARIANTS
  TypeOK
  RefusedOnlyWhenNoneStayed
  NeverRetriesFailed
  StickyAffinity
