CONSTANTS
    d1 = d1
    d2 = d2
    t1 = t1
    t2 = t2
    None = None
    Conns = {d1, d2}
    Tokens = {t1, t2}
    FirstToken = t1
    DisabledTokens = {}
    FreshTokens = {t2}
    MaxOps = 1
SPECIFICATION FairSpec
CHECK_DEADLOCK FALSE
INVARIANTS
    DoneClosedOnce
    LoadsHaveOwners
    RevocationComplete
PROPERTIES
    AuthenticationEnds
