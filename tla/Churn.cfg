\* Accounts are removed and added again under a fair request of a conversation.  The
\* pool really may stop: see FallsBackToRotation.
CONSTANTS
  a1 = a1
  a2 = a2
  a3 = a3
  Accounts = {a1, a2}
  Requests = {r1}
  Keys = {k1}
  NoKey = NoKey
  NoId = NoId
  Cap = 2
  ConfigOrder <- Order2
  Strategy = "round-robin"
  Kinds = {"chat"}
  Answers <- OkOrQuota
  CooldownOf <- OneTick
  StickyTTL = 1
  UsageLimit <- NoQuota
  Refreshable = {a1}
  Ageing = {a1}
  Toggled = {a2}
  Polled = {}
  Reports = {0, 2}
  Period = 2
  Removable = {a1, a2}
SPECIFICATION FairListedSpec
INVARIANTS
  LiveIdsDistinct
  WorksWithListed
PROPERTIES
  AnsweredUnderChurn
CHECK_DEADLOCK FALSE
