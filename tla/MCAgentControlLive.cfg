CONSTANTS
    UseQUIC = TRUE
    ReconnectMin = 1
    ReconnectMax = 3
    AckCapacity = 2
    UrgentLimit = 1
    MaxQueue = 1
    MaxSessions = 1
    MaxBeats = 3
    MaxOthers = 0
    MaxPushes = 0
    MaxTraffic = 3
SPECIFICATION FairSpec
CHECK_DEADLOCK FALSE
PROPERTIES
    RunStops
    SilentServerNoticed
