----------------------------- MODULE MCLifecycle -----------------------------
(* Small instances of Lifecycle: connections that use one address in turn, or *)
(* one address each.                                                          *)
EXTENDS Lifecycle, TLC

\* All connections use one address.
MCSameAddr == [c \in Conn |-> CHOOSE a \in Addr : TRUE]

\* Every connection has an address of its own.
MCOwnAddr == CHOOSE f \in [Conn -> Addr] : \A c, d \in Conn : c # d => f[c] # f[d]

\* Connections can be exchanged, together with their addresses.
ConnSymmetry ==
    {p \in Permutations(Conn \cup Addr) : \A c \in Conn : p[c] \in Conn /\ AddrOf[p[c]] = p[AddrOf[c]]}

=============================================================================
