SPECIFICATION FairSpec
CONSTANTS
    ack = ack
    open1 = open1
    work = work
    udp1 = udp1
    NoMessage = NoMessage
    Messages <- MCMessages
    Type <- MCType
    Size <- MCSize
    Waits <- MCWaits
    MaxControlQueueMessages = 2
    MaxControlQueueBytes = 4
    UrgentLimit = 1
INVARIANTS
    QueueAccounting
    AnsweredOnce
    TruthfulAnswer
    NormalNotStarved
PROPERTIES
    WaiterAnswered
    ImplementsDelivery
