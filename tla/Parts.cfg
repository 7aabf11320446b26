SPECIFICATION Spec
CONSTANTS
    Thread = {"t1", "t2", "t3"}
    Id = {1, 2, 3, 5}
    Seed = 1
    IdBits = 3
    K = 2
    Worlds <- MCWorlds
    MaxDials = 2
    Puncher = {"alice", "bob", "carol"}
    Nobody = "nobody"
    HOLE_PUNCH_ATTEMPTS = 2
    MaxLosses = 1
    MAX_MESSAGE_LEN = 5
    Tag = 2
    Sizes = {0, 1, 3, 4, 6}
    MaxMessages = 2
    StreamId = {1, 3}
    Opaque = {0, 7}
    MaxPings = 1
    MaxInFlight = 2
    MESSAGE_QUEUE_DEPTH = 2
    Cases <- MCCases
INVARIANTS
    PartsTypeOK
    NoCircularWait
    ExpectedConnections
    RpcsMatched
    ContactsSound
    StoresAtClosest
    PairingSound
    NeverGarbled
    StreamsAgree
PROPERTIES
    BothGreeted
    PartsComplete
CHECK_DEADLOCK FALSE
