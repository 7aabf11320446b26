-------------------------------- MODULE MCParts --------------------------------
(* The parts that stand on their own: the lock sections of the library, its    *)
(* connect_nodes, and the protocols of the example programs. They share        *)
(* nothing: each behaviour is one of one of the parts.                         *)
EXTENDS Locks, Dht, Punch, SecureLink, Yamux, Topology

VARIABLE
    demo    \* the part that runs; it never changes

-----------------------------------------------------------------------------
(* The instances *)

Op(o, i) == [op |-> o, node |-> i]

\* Three nodes with one fault at any point of a store and a lookup of its value, and four
\* nodes that discover each other first, with no fault; the keys are near different nodes.
MCWorlds ==
    {[ids |-> {1, 2, 3}, key |-> 0, faults |-> 1,
      program |-> <<Op("store", 2), Op("find_value", 3)>>]}
    \cup {[ids |-> {1, 2, 3, 5}, key |-> k, faults |-> 0,
           program |-> <<Op("find_node", 2), Op("find_node", 3), Op("find_node", 5),
                         Op("store", 2), Op("find_value", 5)>>] : k \in {0, 3, 6}}

Case(s, n, w, h, d) == [shape |-> s, count |-> n, width |-> w, height |-> h, degree |-> d]

\* Too few nodes, grids that do not match their count or have a zero dimension, and
\* degrees that cannot be had are among them.
MCCases ==
    {Case(s, n, 0, 0, 0) : s \in {"Line", "Ring", "Mesh", "Star", "Tree"}, n \in 0..6}
    \cup {Case("Grid", n, w, h, 0) : n \in {2, 4, 6}, w \in 0..3, h \in 0..3}
    \cup {Case("Random", n, 0, 0, d) : n \in 2..4, d \in 0..2}

-----------------------------------------------------------------------------

partVars == <<lockVars, dhtAll, punchVars, secureVars, yamuxVars, topologyVars, demo>>

\* The case of a part that does not run is of no account.
Init ==
    /\ demo \in {"locks", "dht", "punch", "secure", "yamux", "topology"}
    /\ LocksInit /\ DhtInit /\ PunchInit /\ SecureInit /\ YamuxInit /\ TopologyInit
    /\ demo # "dht" => world = CHOOSE w \in Worlds : TRUE
    /\ demo # "secure" => example = "noise"
    /\ demo # "topology" => topology = CHOOSE t \in Cases : TRUE

Next ==
    /\ UNCHANGED demo
    /\ \/ demo = "locks" /\ LocksNext
          /\ UNCHANGED <<dhtAll, punchVars, secureVars, yamuxVars, topologyVars>>
       \/ demo = "dht" /\ DhtNext
          /\ UNCHANGED <<lockVars, punchVars, secureVars, yamuxVars, topologyVars>>
       \/ demo = "punch" /\ PunchNext
          /\ UNCHANGED <<lockVars, dhtAll, secureVars, yamuxVars, topologyVars>>
       \/ demo = "secure" /\ SecureNext
          /\ UNCHANGED <<lockVars, dhtAll, punchVars, yamuxVars, topologyVars>>
       \/ demo = "yamux" /\ YamuxNext
          /\ UNCHANGED <<lockVars, dhtAll, punchVars, secureVars, topologyVars>>
       \/ demo = "topology" /\ TopologyNext
          /\ UNCHANGED <<lockVars, dhtAll, punchVars, secureVars, yamuxVars>>

\* Tasks that can go on do: main and the tasks of the connections of the DHT, each end of a
\* secured connection, each peer that punches and the connections it has, the reading task
\* of a yamux session. A writing task that has ended disconnects the peer. Nothing makes a
\* connection break, a writing task end, a peer die, register or send.
Fairness ==
    /\ WF_dhtVars(demo = "dht" /\ Main)
    /\ WF_dhtVars(demo = "dht" /\ Net)
    /\ \A p \in Puncher :
        /\ WF_punchVars(demo = "punch" /\ PeerStep(p))
        /\ WF_punchVars(demo = "punch" /\ Greeted(p))
        /\ WF_punchVars(demo = "punch" /\ Pair(p))
    /\ \A s \in Side :
        /\ WF_secureVars(demo = "secure" /\ Handshaking(s))
        /\ WF_secureVars(demo = "secure" /\ Receiving(s))
    /\ WF_yamuxVars(demo = "yamux" /\ Process)
    /\ WF_yamuxVars(demo = "yamux" /\ Hear)
    /\ WF_yamuxVars(demo = "yamux" /\ ~writing /\ OnDisconnectPeer)

Spec == Init /\ [][Next]_partVars /\ Fairness

\* The types of all the modules' variables.
PartsTypeOK ==
    /\ LocksTypeOK /\ DhtTypeOK /\ PunchTypeOK
    /\ SecureTypeOK /\ YamuxTypeOK /\ TopologyTypeOK

\* Nothing waits for ever. Every lookup of the DHT ends, whatever is refused, lost or late
\* (the loops of iterative_find_node and find_value, the timeout of rpc); the two ends of a
\* secured connection get through their handshakes, neither waiting for a message the
\* other only sends later (handshake_xx, the libp2p negotiation); and the pings of a yamux
\* session are answered (process_message).
PartsComplete ==
    /\ demo = "dht" => MainEnds
    /\ demo = "secure" => BothRegister
    /\ demo = "yamux" => PingsAnswered

=============================================================================
