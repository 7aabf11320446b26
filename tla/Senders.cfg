SPECIFICATION FairSpec
CONSTANTS
    Conn = {"c1", "c2"}
    Addr = {"a"}
    AddrOf <- MCAddrOf
    NoConn = NoConn
INVARIANTS
    LiveConnectionReachable
    WriterOwned
PROPERTY
    WriterGoesWithConnection
CHECK_DEADLOCK FALSE
