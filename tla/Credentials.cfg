SPECIFICATION Spec
CONSTANTS
    r1 = r1
    r2 = r2
    l1 = l1
    h1 = h1
    h2 = h2
    Refreshers = {r1, r2}
    Logins = {l1}
    Handlers = {h1, h2}
    Earlier = Earlier
    NoToken = NoToken
    MaxExpiries = 1
    MaxFaults = 1
CHECK_DEADLOCK FALSE
INVARIANTS
    StoredTokenIsRight
    SuccessIsHeard
PROPERTIES
    TokenHeals
    LoginsEnd
