\* A panic between the registration of a call and its result.
SPECIFICATION Spec
CONSTANTS
    NoId = NoId
    a = a
    b = b
    h = h
    admin = admin
    ticker = ticker
    Accounts = {a, b}
    Malformed = {b}
    Handlers = {h}
    Admins = {admin}
    Ticker = ticker
    MaxCalls = 2
INVARIANT
    InflightInProgress
CHECK_DEADLOCK FALSE
