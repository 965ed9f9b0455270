\* Three accounts, one with a quota that is polled.
CONSTANTS
  a1 = a1
  a2 = a2
  a3 = a3
  Accounts = {a1, a2, a3}
  Requests = {r1, r2}
  Keys = {}
  NoKey = NoKey
  NoId = NoId
  Cap = 3
  ConfigOrder <- Order3
  Strategy = "smart"
  Kinds = {"translated"}
  Answers <- OkRejectedOrFailed
  CooldownOf <- OneTick
  StickyTTL = 2
  UsageLimit <- OneQuota
  Refreshable = {}
  Ageing = {}
  Toggled = {}
  Polled = {a1}
  Reports = {0, 2}
  Period = 1
SYMMETRY RequestSymmetry
SPECIFICATION HistorySpec
INVARIANTS
  QuotaOvershoot
  HammerBound
  NeverRetriesFailed
  RefusedOnlyWhenNoneStayed
