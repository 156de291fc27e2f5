SPECIFICATION Spec
CONSTANTS
    None = None
    t1 = t1  t2 = t2  t3 = t3
    Ids = {t1, t2, t3}
    InitTunnels <- MCTunnels
    AutoDomain = TRUE
    Edits <- MCEdits
    MaxInFlight = 2
    MaxSends = 1
PROPERTIES EditKeepsUntouched
