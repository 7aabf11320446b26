SPECIFICATION Spec
CONSTANTS
    Conn = {"c1", "c2"}
    Addr = {"a"}
    AddrOf <- MCAddrOf
    NoConn = NoConn
INVARIANT
    ReachableDespiteCancel
CHECK_DEADLOCK FALSE
