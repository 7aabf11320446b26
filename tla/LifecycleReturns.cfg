SPECIFICATION FairSpec
CONSTANTS
    Conn = {c1}
    Addr = {a}
    AddrOf <- MCSameAddr
    NoConn = NoConn
    ABORTABLE = TRUE
    HardAbort = {TRUE, FALSE}
PROPERTY
    ShutdownReturns
CHECK_DEADLOCK FALSE
