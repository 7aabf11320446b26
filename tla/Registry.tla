------------------------------- MODULE Registry -------------------------------
(* What the admission core promises: a set of connections with one at most per *)
(* address, and bounds for each host and for the node, kept by looking at all  *)
(* of them at once. A connection is admitted, then registered, and leaves.     *)
EXTENDS Integers, FiniteSets

CONSTANTS Conn, AddrOf, HostOf, max_connections, max_connections_per_ip

VARIABLES
    admitted,    \* the connections that count: in setup, or registered
    registered   \* those that the node's users can see

registryVars == <<admitted, registered>>

Init == admitted = {} /\ registered = {}

Admit(c) ==
    /\ c \notin admitted
    /\ \A d \in admitted : AddrOf[d] # AddrOf[c]
    /\ Cardinality(admitted) < max_connections
    /\ Cardinality({d \in admitted : HostOf[d] = HostOf[c]}) < max_connections_per_ip
    /\ admitted' = admitted \cup {c}
    /\ UNCHANGED registered

Register(c) ==
    /\ c \in admitted \ registered
    /\ registered' = registered \cup {c}
    /\ UNCHANGED admitted

Leave(c) ==
    /\ c \in admitted
    /\ admitted' = admitted \ {c}
    /\ registered' = registered \ {c}

Next == \E c \in Conn : Admit(c) \/ Register(c) \/ Leave(c)

Spec == Init /\ [][Next]_registryVars

=============================================================================
