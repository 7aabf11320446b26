SPECIFICATION FairSpec
CONSTANTS
    MaxMsgs = 3
    Confirmed = {2, 3}
    Size <- MCSize
    WriteDepth = 2
    ReadDepth = 1
    Boundary = 2
    SocketBuffer = 2
INVARIANTS
    TypeOK
    OkMeansFlushed
    StatsExact
PROPERTIES
    ImplementsChannel
    DeliveryResolves
    AcceptedIsProcessed
CHECK_DEADLOCK FALSE
