SPECIFICATION Spec
CONSTANTS
    Conn = {c1, c2}
    Addr = {a, b}
    AddrOf <- MCOwnAddr
    NoConn = NoConn
    ABORTABLE = FALSE
    HardAbort = {FALSE}
SYMMETRY ConnSymmetry
INVARIANTS
    ShutdownLeavesNothing
    NoLostWakeup
    DetachedRunsToCompletion
CHECK_DEADLOCK FALSE
