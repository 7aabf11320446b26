SPECIFICATION Spec
CONSTANTS
    Conn = {c1, c2}
    Addr = {a}
    AddrOf <- MCSameAddr
    NoConn = NoConn
    ABORTABLE = TRUE
    HardAbort = {FALSE}
SYMMETRY ConnSymmetry
INVARIANTS
    OnDisconnectPaired
    OnConnectNotSkipped
    HookFollowsConnection
CHECK_DEADLOCK FALSE
