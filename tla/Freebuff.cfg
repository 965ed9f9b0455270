\* The Freebuff clients: chat calls over rotating proxies, in the scenarios of MCFreebuff.
CONSTANTS
  c1 = c1
  c2 = c2
  p1 = p1
  p2 = p2
  s1 = s1
  s2 = s2
  m1 = m1
  m2 = m2
  alias = alias
  a1 = a1
  a2 = a2
  free = free
  FREE = FREE
  MINI = MINI
  MODELS = MODELS
  Calls = {c1, c2}
  Proxies = {p1, p2}
  NoProxy = NoProxy
  Lists <- MCLists
  MaxFailures = 2
  Names = {FREE, MINI}
  Texts <- MCTexts
  Static <- MCStatic
  DefaultAgent = free
  Canonical <- MCCanonical
  MaxAliasDepth = 1
  Bodies <- MCBodies
  Sessions <- MCSessions
  NoId = NoId
  NoModel = NoModel
  NoAgent = NoAgent
  Attempts = 2
  MaxPolls = 1
  Scenarios <- MCScenarios
SPECIFICATION Spec
INVARIANTS
  TypeOK
  RetriedOnActiveSession
  AgentFitsModel
  ErrorIsReported
PROPERTIES
  EvictedStayOut
  CallsReturn
