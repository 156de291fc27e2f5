CONSTANTS
    UseQUIC = TRUE
    ReconnectMin = 1
    ReconnectMax = 3
    AckCapacity = 2
    UrgentLimit = 1
    MaxQueue = 2
    MaxSessions = 2
    MaxBeats = 2
    MaxOthers = 1
    MaxPushes = 1
    MaxTraffic = 2
SPECIFICATION Spec
CHECK_DEADLOCK FALSE
INVARIANTS
    SessionsDoNotOverlap
    HeartbeatFlagTrue
