\* The panel's handlers, three at a time, in the scenarios of MCAdminPanel.
CONSTANTS
  ms1 = ms1
  ms2 = ms2
  iam1 = iam1
  iam2 = iam2
  bid1 = bid1
  bid2 = bid2
  tok1 = tok1
  tok2 = tok2
  ksk1 = ksk1
  acc1 = acc1
  acc2 = acc2
  key1 = key1
  key2 = key2
  tenant = tenant
  other = other
  braced = braced
  entra = entra
  elsewhere = elsewhere
  client = client
  Handlers <- MCHandlers
  NoHandler = NoHandler
  NoGrant = NoGrant
  Hosts = {entra, elsewhere}
  LoginHosts = {entra}
  Tenants = {tenant, other, braced}
  TenantIds = {tenant, other, braced}
  Braced = {braced}
  Clients = {client}
  Standard = Standard
  NoConfiguration = NoConfiguration
  Sessions = {ms1, ms2}
  MaxSessions = 1
  Lapsing = {ms1}
  Descriptors <- MCDescriptors
  Documents <- MCDocuments
  IamSessions = {iam1, iam2}
  DeviceSessions = {bid1, bid2}
  LapsingLogins = {iam1, bid1}
  Batch <- MCBatch
  NoConf = NoConf
  Empty = Empty
  Torn = Torn
  NoSnapshot = NoSnapshot
  Failing = {3}
  Changeme = "changeme"
  Owner = Owner
  MaxLoginFails = 2
  AdminOps <- MCAdminOps
  ChannelCap = 1
  LogCap = 2
  Keys = {key1, key2}
  CreditLimit = 1
  MaxCost = 2
  Scenarios <- MCScenarios
  OpenSessions = {ms1}
  OpenLogins = {iam1, bid1}
  FirstConfig <- MCFirstConfig
SPECIFICATION Spec
INVARIANTS
  TypeOK
  SecretsWiped
  OneAccountPerLogin
  AckedIsOnDisk
  RotationEndsSessions
  GuessesBounded
  KeyOvershoot
  NoSendOnClosed
  CurrentListWasSent
PROPERTIES
  HandlersReturn
