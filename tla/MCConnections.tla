---------------------------- MODULE MCConnections ----------------------------
(***************************************************************************)
(* Small instances of Connections.  Two IPs of one host (an IPv4 address   *)
(* and its IPv4-mapped IPv6 form) and one of each of two more; a dial and  *)
(* an accept compete for address "a1", so that an address is reused while  *)
(* guards and finalizers of its previous holder are still around.          *)
(***************************************************************************)
EXTENDS Connections, TLC

CONSTANTS
    d3, d4, a3, a4, second, third  \* two dials that differ in their names only

MCAddrOf == "d1" :> "a1" @@ "d2" :> "a2" @@ d3 :> a3 @@ d4 :> a4 @@ "i1" :> "a1"

MCIpOf == "a1" :> "v4" @@ "a2" :> "v4mapped" @@ a3 :> second @@ a4 :> third

MCto_canonical == "v4" :> "v4" @@ "v4mapped" :> "v4" @@ second :> second @@ third :> third

MCAddrOfAll == [c \in Conn |-> MCAddrOf[c]]

\* The dials of the second and the third host can be exchanged, with all that is theirs.
Exchange ==
    {p \in Permutations({d3, d4, a3, a4, second, third}) : \A d \in {d3, d4} :
        /\ p[d] \in {d3, d4}
        /\ MCAddrOf[p[d]] = p[MCAddrOf[d]]
        /\ MCIpOf[p[MCAddrOf[d]]] = p[MCIpOf[MCAddrOf[d]]]}

\* Nothing is accepted when the limits are checked, so all that the listener could do is fail
\* a dial to the node's own address; at that point the dial can be cancelled as well.
ListenerOff == listener = "off"

=============================================================================
