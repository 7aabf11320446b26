SPECIFICATION FairSpec
CONSTANTS
    Dials = {"d1", "d2"}
    Accepts = {"i1"}
    Addr = {"a1", "a2", a3, a4}
    AddrOf <- MCAddrOfAll
    Ip = {"v4", "v4mapped", second, third}
    IpOf <- MCIpOf
    to_canonical <- MCto_canonical
    OwnAddr = {"a2"}
    max_connections = 2
    max_connections_per_ip = 2
    max_connecting = 2
    NoConn = NoConn
    d3 = d3
    d4 = d4
    a3 = a3
    a4 = a4
    second = second
    third = third
INVARIANTS
    AccountingExact
    TeardownOwned
    RecoveryHitsOwnInstance
PROPERTIES
    RemovedByOwnFinalizer
    ImplementsRegistry
    QueuedAcceptServed
CHECK_DEADLOCK FALSE
