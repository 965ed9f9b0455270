\* A sound account and one with a malformed region; all kinds of callers.
SPECIFICATION FairSpec
CONSTANTS
    NoId = NoId
    a = a
    b = b
    h = h
    admin = admin
    ticker = ticker
    Accounts = {a, b}
    Malformed = {b}
    Handlers = {h}
    Admins = {admin}
    Ticker = ticker
    MaxCalls = 2
INVARIANTS
    TypeOK
    OneCallAtATime
    NoEntryLeftBehind
PROPERTIES
    WaitersEnd
    GrantsAreStored
CHECK_DEADLOCK FALSE
