SPECIFICATION Spec
CONSTANTS
    Conn = {c1, c2}
    Addr = {a}
    AddrOf <- MCSameAddr
    NoConn = NoConn
    ABORTABLE = TRUE
    HardAbort = {FALSE}
PROPERTIES
    SchedOnlyFalls
CHECK_DEADLOCK FALSE
