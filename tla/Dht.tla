--------------------------------- MODULE Dht ---------------------------------
(* The Kademlia example: nodes that keep a routing table, answer FIND_NODE,    *)
(* STORE and FIND_VALUE, and a main program that performs one lookup at a time.*)
(* A request that is not answered in time is given up, its answer may still    *)
(* come; a connection may break, and its two ends find out separately.         *)
(* An operator named <Def>_<fault> is Def with a plausible mistake in it.      *)
EXTENDS Integers, Sequences, FiniteSetsExt

CONSTANTS
    Id,         \* the nodes, by their NodeId
    Seed,       \* the node everybody bootstraps from
    IdBits,     \* the bits of a NodeId
    K,          \* contacts returned by a lookup
    Worlds,     \* the cases [ids, key, program, faults]: the nodes that run, the key of the
                \* stored value, the lookups of main after the bootstrap (a sequence of
                \* [op, node]), and the bound on broken links, refused connections, slow
                \* answers and slow hooks
    MaxDials    \* bound on the connections one node opens to another

ASSUME DhtAssumption ==
    /\ Seed \in Id
    /\ \A w \in Worlds : w.program \in Seq([op : {"find_node", "store", "find_value"}, node : Id])

\* A connection, its dialer first. The dialer knows it by the listening address of `to',
\* the node that accepted it by an address of its own (an ephemeral port).
Link == {l \in [from : Id, to : Id, n : 1..MaxDials] : l.from # l.to}
Listening(i) == [port |-> "listening", of |-> i]
Ephemeral(l) == [port |-> "ephemeral", of |-> l]

\* The ends of the connections, <<node, connection>>.
End == {e \in Id \X Link : e[1] \in {e[2].from, e[2].to}}

NoLink == [from |-> Seed, to |-> Seed, n |-> 0]
NoReply == [kind |-> "none"]

VARIABLES
    peer_info,      \* per node, the connections with an entry in peer_info
    routing_table,  \* per node, a set of contacts [id, addr]
    storage,        \* the nodes that hold a value for Key
    next_rpc_id,
    pending_rpcs,   \* per node, the ids with a waiting oneshot
    setup,          \* ends of connections: past the handshake, not registered yet,
    up,             \*   registered,
    closing,        \*   or still registered with on_disconnect done
    hooks,          \* ends of connections whose on_connect has not run yet
    wire,           \* per end of a connection, the messages it has not read yet
    broken,         \* connections whose TCP stream is gone
    call,           \* where the main program is
    reply,          \* what the oneshot of the current rpc holds
    found,          \* what find_value returned
    faults,         \* faults so far
    world           \* the case of Worlds; it never changes

endVars == <<setup, up, closing>>
netVars == <<endVars, hooks, wire, broken>>
rpcVars == <<next_rpc_id, pending_rpcs, reply>>
dhtVars == <<peer_info, routing_table, storage, rpcVars, netVars, call, found, faults>>
dhtAll == <<dhtVars, world>>

Key == world.key
Program == world.program
FaultAllowed == faults < world.faults /\ faults' = faults + 1

Peer(i, l) == IF l.from = i THEN l.to ELSE l.from
AddrAt(i, l) == IF l.from = i THEN Listening(l.to) ELSE Ephemeral(l)
Registered(i, l) == <<i, l>> \in up \cup closing

-----------------------------------------------------------------------------
(* The routing table *)

IdBit(a, k) == (a \div 2^k) % 2

\* The exclusive or: the bits in which two ids differ.
distance(a, b) == SumSet({2^k : k \in {k \in 0..(IdBits - 1) : IdBit(a, k) # IdBit(b, k)}})

\* closest_contacts: sorted by distance (ids differ, so distances do), the first k kept.
Closest(contacts, target, k) ==
    {c \in contacts : Cardinality({d \in contacts :
        distance(d.id, target) < distance(c.id, target)}) < k}

\* The closest of a set that is not empty.
First(contacts, target) == CHOOSE c \in Closest(contacts, target, 1) : TRUE

\* add_contact, for a set of contacts that has no two of one id.
AddContact(table, me, contacts) ==
    table \cup {c \in contacts : c.id # me /\ \A d \in table : d.id # c.id}

\* The contact that the entry of a connection gives, if peer_info has one for its address.
KnownPeer(i, l) ==
    {[id |-> Peer(i, k), addr |-> Listening(Peer(i, k))] :
        k \in {k \in peer_info[i] : AddrAt(i, k) = AddrAt(i, l)}}

\* The connection a node reaches an address through, if it has one.
Route(i, addr) == {e[2] : e \in {e \in up \cup closing : e[1] = i /\ AddrAt(i, e[2]) = addr}}

-----------------------------------------------------------------------------
(* Connections *)

\* The accepting node reads the dialer's id and port, writes its own and adds the entry to
\* peer_info, all before the connection is registered.
HandshakeAccepted(l) ==
    /\ call.pc = "connecting" /\ call.link = l
    /\ <<l.to, l>> \notin setup \cup up \cup closing /\ l \notin broken
    /\ peer_info' = [peer_info EXCEPT ![l.to] = @ \cup {l}]
    /\ setup' = setup \cup {<<l.to, l>>}
    /\ UNCHANGED <<routing_table, storage, rpcVars, up, closing, hooks, wire, broken, call, found, faults>>

\* The accepted connection is registered, and its on_connect hook started.
Accepted(l) ==
    /\ <<l.to, l>> \in setup
    /\ setup' = setup \ {<<l.to, l>>}
    /\ up' = up \cup {<<l.to, l>>}
    /\ hooks' = hooks \cup {<<l.to, l>>}
    /\ UNCHANGED <<peer_info, routing_table, storage, rpcVars, closing, wire, broken, call, found, faults>>

\* The dialer has read the reply: connect returns. If the stream broke after the reply was
\* sent it may or may not have arrived.
HandshakeDialed(l) ==
    /\ call.pc = "connecting" /\ call.link = l
    /\ <<l.to, l>> \in setup \cup up \/ l \in broken
    /\ peer_info' = [peer_info EXCEPT ![l.from] = @ \cup {l}]
    /\ up' = up \cup {<<l.from, l>>}
    /\ hooks' = hooks \cup {<<l.from, l>>}
    /\ call' = [call EXCEPT !.pc = "connected"]
    /\ UNCHANGED <<routing_table, storage, rpcVars, setup, closing, wire, broken, found, faults>>

\* on_connect; the hook is not abortable, and may run after the connection is gone.
OnConnect(i, l) ==
    /\ <<i, l>> \in hooks
    /\ hooks' = hooks \ {<<i, l>>}
    /\ routing_table' = [routing_table EXCEPT ![i] =
            AddContact(@, i, KnownPeer(i, l))]
    /\ UNCHANGED <<peer_info, storage, rpcVars, endVars, wire, broken, call, found, faults>>

\* A TCP stream breaks.
LinkBreaks(l) ==
    /\ l \notin broken
    /\ \E i \in {l.from, l.to} : <<i, l>> \in up
    /\ FaultAllowed
    /\ broken' = broken \cup {l}
    /\ UNCHANGED <<peer_info, routing_table, storage, rpcVars, endVars, hooks, wire, call, found>>

\* on_disconnect, at one of the ends.
OnDisconnect(i, l) ==
    /\ l \in broken /\ <<i, l>> \in up
    /\ up' = up \ {<<i, l>>}
    /\ closing' = closing \cup {<<i, l>>}
    /\ peer_info' = [peer_info EXCEPT ![i] = @ \ {l}]
    /\ routing_table' = [routing_table EXCEPT ![i] = {c \in @ : c.id # Peer(i, l)}]
    /\ UNCHANGED <<storage, rpcVars, setup, hooks, wire, broken, call, found, faults>>

\* Once on_disconnect has returned the connection is removed and its tasks aborted.
Removed(i, l) ==
    /\ <<i, l>> \in closing
    /\ closing' = closing \ {<<i, l>>}
    /\ wire' = [wire EXCEPT ![<<i, l>>] = <<>>]
    /\ UNCHANGED <<peer_info, routing_table, storage, rpcVars, setup, up, hooks, broken, call, found, faults>>

-----------------------------------------------------------------------------
(* process_message *)

\* A message is read, in the order of its connection, while that has a reading task.
Reads(i, l, kinds) ==
    /\ Registered(i, l) /\ wire[<<i, l>>] # <<>>
    /\ Head(wire[<<i, l>>]).kind \in kinds

Respond(i, l, response) ==
    wire' = [wire EXCEPT ![<<i, l>>] = Tail(@), ![<<Peer(i, l), l>>] = Append(@, response)]

SenderAddr_source(i, l) == AddrAt(i, l)

\* The sender's listening address, or the address the connection has here if there is no
\* entry for it any more.
SenderAddr(i, l) ==
    IF KnownPeer(i, l) # {} THEN Listening(Peer(i, l)) ELSE AddrAt(i, l)

FindNode(i, l) == LET msg == Head(wire[<<i, l>>]) IN
    /\ Reads(i, l, {"FindNode"})
    /\ LET table == AddContact(routing_table[i], i,
                        {[id |-> msg.sender_id, addr |-> SenderAddr(i, l)]})
       IN /\ routing_table' = [routing_table EXCEPT ![i] = table]
          /\ Respond(i, l, [kind |-> "FindNodeResult", rpc_id |-> msg.rpc_id, of |-> msg,
                            contacts |-> Closest(table, msg.target, K)])
    /\ UNCHANGED <<peer_info, storage, rpcVars, endVars, hooks, broken, call, found, faults>>

Store(i, l) == LET msg == Head(wire[<<i, l>>]) IN
    /\ Reads(i, l, {"Store"})
    /\ storage' = storage \cup {i}
    /\ Respond(i, l, [kind |-> "StoreResult", rpc_id |-> msg.rpc_id, of |-> msg])
    /\ UNCHANGED <<peer_info, routing_table, rpcVars, endVars, hooks, broken, call, found, faults>>

\* The value, or the closest contacts to look for it next.
FindValue(i, l) == LET msg == Head(wire[<<i, l>>]) IN
    /\ Reads(i, l, {"FindValue"})
    /\ Respond(i, l, [kind |-> "FindValueResult", rpc_id |-> msg.rpc_id, of |-> msg,
                      value |-> i \in storage,
                      contacts |-> IF i \in storage THEN {}
                                   ELSE Closest(routing_table[i], msg.key, K)])
    /\ UNCHANGED <<peer_info, routing_table, storage, rpcVars, endVars, hooks, broken, call, found, faults>>

\* A response goes to the oneshot registered under its id. Nobody may hold the other half
\* of the oneshot any more: the call it belongs to has just timed out.
Response(i, l) == LET msg == Head(wire[<<i, l>>]) IN
    /\ Reads(i, l, {"FindNodeResult", "StoreResult", "FindValueResult"})
    /\ pending_rpcs' = [pending_rpcs EXCEPT ![i] = @ \ {msg.rpc_id}]
    /\ reply' = IF msg.rpc_id \in pending_rpcs[i] /\ call.pc = "await" THEN msg ELSE reply
    /\ wire' = [wire EXCEPT ![<<i, l>>] = Tail(@)]
    /\ UNCHANGED <<peer_info, routing_table, storage, next_rpc_id, endVars, hooks, broken, call, found, faults>>

-----------------------------------------------------------------------------
(* The lookups of main *)

NoContact == [id |-> Seed, addr |-> Listening(Seed)]
Idle == [pc |-> "start", step |-> 1, op |-> "none", node |-> Seed, target |-> Seed,
         shortlist |-> {}, queried |-> {}, contact |-> NoContact, link |-> NoLink,
         request |-> NoReply]

\* Back at the head of the loop.
Continue == [call EXCEPT !.pc = "pick", !.contact = NoContact, !.link = NoLink, !.request = NoReply]

\* find_node, store and find_value all begin with the closest contacts known. Nothing makes
\* main wait for the on_connect hooks to have told them: beginning before that is a fault.
Begin ==
    /\ call.pc = "start" /\ call.step <= Len(Program)
    /\ \/ hooks = {} /\ UNCHANGED faults
       \/ hooks # {} /\ FaultAllowed
    /\ LET p == Program[call.step]
           target == IF p.op = "find_node" THEN p.node ELSE Key
       IN call' = [call EXCEPT !.pc = "pick", !.op = p.op, !.node = p.node, !.target = target,
                               !.queried = {},
                               !.shortlist = Closest(routing_table[p.node], target, K)]
    /\ UNCHANGED <<peer_info, routing_table, storage, rpcVars, netVars, found>>

Unqueried == {c \in call.shortlist : c.id \notin call.queried}

Finish(outcome) ==
    /\ call' = [Idle EXCEPT !.step = call.step + 1]
    /\ found' = outcome

\* The lookup is over: store goes on with its K contacts, find_value has found nothing.
Exhausted ==
    /\ call.pc = "pick" /\ Unqueried = {}
    /\ IF call.op = "store"
       THEN /\ call' = [call EXCEPT !.op = "put", !.queried = {},
                                    !.shortlist = Closest(@, call.target, K)]
            /\ UNCHANGED found
       ELSE Finish(IF call.op = "find_value" THEN "no" ELSE found)
    /\ UNCHANGED <<peer_info, routing_table, storage, rpcVars, netVars, faults>>

\* The closest contact that was not queried yet; it counts as queried whatever follows.
Pick ==
    /\ call.pc = "pick" /\ Unqueried # {}
    /\ LET c == First(Unqueried, call.target)
       IN call' = [call EXCEPT !.pc = "ensure", !.contact = c, !.queried = @ \cup {c.id}]
    /\ UNCHANGED <<peer_info, routing_table, storage, rpcVars, netVars, found, faults>>

\* ensure_connected finds a connection ...
AlreadyConnected ==
    /\ call.pc = "ensure" /\ Route(call.node, call.contact.addr) # {}
    /\ call' = [call EXCEPT !.pc = "send"]
    /\ UNCHANGED <<peer_info, routing_table, storage, rpcVars, netVars, found, faults>>

\* ... or opens one ...
Connect ==
    /\ call.pc = "ensure" /\ Route(call.node, call.contact.addr) = {}
    /\ call.contact.addr.port = "listening"
    /\ \E l \in Link :
        /\ l.from = call.node /\ l.to = call.contact.addr.of
        /\ l.n = 1 + Cardinality({k \in Link : k.from = l.from /\ k.to = l.to /\ k \in broken})
        /\ call' = [call EXCEPT !.pc = "connecting", !.link = l]
    /\ UNCHANGED <<peer_info, routing_table, storage, rpcVars, netVars, found, faults>>

\* ... or cannot: nobody listens on an ephemeral port, a peer may refuse, and the stream may
\* break in the handshake.
ConnectFails ==
    /\ \/ /\ call.pc = "ensure" /\ Route(call.node, call.contact.addr) = {}
          /\ \/ call.contact.addr.port = "ephemeral" /\ UNCHANGED faults
             \/ FaultAllowed
       \/ call.pc = "connecting" /\ call.link \in broken /\ UNCHANGED faults
    /\ call' = Continue
    /\ UNCHANGED <<peer_info, routing_table, storage, rpcVars, netVars, found>>

\* After connect the handshake's entry gives the contact to add, unless it is gone again.
Connected ==
    /\ call.pc = "connected"
    /\ routing_table' = [routing_table EXCEPT ![call.node] = AddContact(@, call.node,
            KnownPeer(call.node, call.link))]
    /\ call' = [call EXCEPT !.pc = "send"]
    /\ UNCHANGED <<peer_info, storage, rpcVars, netVars, found, faults>>

Request ==
    LET id == next_rpc_id[call.node]
    IN CASE call.op \in {"find_node", "store"} ->
              [kind |-> "FindNode", rpc_id |-> id, sender_id |-> call.node, target |-> call.target]
         [] call.op = "put" -> [kind |-> "Store", rpc_id |-> id, key |-> Key]
         [] call.op = "find_value" -> [kind |-> "FindValue", rpc_id |-> id, key |-> Key]

NextId_constant(i) == UNCHANGED next_rpc_id

NextId(i) == next_rpc_id' = [next_rpc_id EXCEPT ![i] = @ + 1]

\* rpc: the oneshot is registered before the request is queued.
Rpc ==
    /\ call.pc = "send"
    /\ \E l \in Route(call.node, call.contact.addr) :
        /\ NextId(call.node)
        /\ pending_rpcs' = [pending_rpcs EXCEPT ![call.node] = @ \cup {next_rpc_id[call.node]}]
        /\ reply' = NoReply
        /\ wire' = [wire EXCEPT ![<<Peer(call.node, l), l>>] = Append(@, Request)]
        /\ call' = [call EXCEPT !.pc = "await", !.request = Request, !.link = l]
    /\ UNCHANGED <<peer_info, routing_table, storage, endVars, hooks, broken, found, faults>>

\* The connection is gone: unicast_fast fails, and the oneshot is taken back.
RpcNotSent ==
    /\ call.pc = "send" /\ Route(call.node, call.contact.addr) = {}
    /\ NextId(call.node)
    /\ call' = Continue
    /\ UNCHANGED <<peer_info, routing_table, storage, pending_rpcs, reply, netVars, found, faults>>

\* Two seconds pass without an answer: for once, or because none can come any more.
TimedOut ==
    /\ call.pc = "await" /\ reply = NoReply
    /\ \/ call.link \in broken /\ UNCHANGED faults
       \/ FaultAllowed
    /\ call' = [call EXCEPT !.pc = "timed_out"]
    /\ UNCHANGED <<peer_info, routing_table, storage, rpcVars, netVars, found>>

\* The oneshot is removed, timeout or not.
Reclaim ==
    pending_rpcs' = [pending_rpcs EXCEPT ![call.node] = @ \ {call.request.rpc_id}]

GiveUp ==
    /\ call.pc = "timed_out"
    /\ Reclaim
    /\ call' = Continue
    /\ UNCHANGED <<peer_info, routing_table, storage, next_rpc_id, reply, netVars, found, faults>>

Absorb_unlisted(contacts) ==
    /\ routing_table' = [routing_table EXCEPT ![call.node] = AddContact(@, call.node, contacts)]
    /\ call' = Continue

\* absorb_contacts: into the routing table and the shortlist, never the node itself.
Absorb(contacts) ==
    /\ routing_table' = [routing_table EXCEPT ![call.node] = AddContact(@, call.node, contacts)]
    /\ call' = [Continue EXCEPT !.shortlist = AddContact(@, call.node, contacts)]

\* The caller gets its answer. One of another kind than asked for would be ignored.
Answered ==
    /\ call.pc = "await" /\ reply # NoReply
    /\ Reclaim
    /\ CASE call.op \in {"find_node", "store"} /\ reply.kind = "FindNodeResult" ->
              Absorb(reply.contacts) /\ UNCHANGED found
         [] call.op = "find_value" /\ reply.kind = "FindValueResult" /\ ~reply.value ->
              Absorb(reply.contacts) /\ UNCHANGED found
         [] call.op = "find_value" /\ reply.kind = "FindValueResult" /\ reply.value ->
              Finish("yes") /\ UNCHANGED routing_table
         [] OTHER -> call' = Continue /\ UNCHANGED <<routing_table, found>>
    /\ reply' = NoReply
    /\ UNCHANGED <<peer_info, storage, next_rpc_id, netVars, faults>>

-----------------------------------------------------------------------------

\* Every node but the seed has just connected to the seed.
Bootstrap == {l \in Link : l.from \in world.ids /\ l.to = Seed /\ l.n = 1}

DhtInit ==
    /\ world \in Worlds
    /\ peer_info = [i \in Id |-> {l \in Bootstrap : i \in {l.from, l.to}}]
    /\ routing_table = [i \in Id |-> {}]
    /\ storage = {}
    /\ next_rpc_id = [i \in Id |-> 0]
    /\ pending_rpcs = [i \in Id |-> {}]
    /\ setup = {}
    /\ up = {e \in End : e[2] \in Bootstrap}
    /\ closing = {}
    /\ hooks = up
    /\ wire = [e \in End |-> <<>>]
    /\ broken = {}
    /\ call = Idle
    /\ reply = NoReply
    /\ found = "none"
    /\ faults = 0

Main ==
    \/ Begin \/ Exhausted \/ Pick \/ AlreadyConnected \/ Connect \/ ConnectFails \/ Connected
    \/ Rpc \/ RpcNotSent \/ TimedOut \/ GiveUp \/ Answered

Net ==
    \/ \E l \in Link : HandshakeAccepted(l) \/ Accepted(l) \/ HandshakeDialed(l)
    \/ \E e \in up \cup closing \cup hooks :
        OnConnect(e[1], e[2]) \/ OnDisconnect(e[1], e[2]) \/ Removed(e[1], e[2])
    \/ \E e \in up \cup closing :
        FindNode(e[1], e[2]) \/ Store(e[1], e[2]) \/ FindValue(e[1], e[2]) \/ Response(e[1], e[2])

DhtNext == (Main \/ Net \/ \E l \in Link : LinkBreaks(l)) /\ UNCHANGED world

DhtSpec == DhtInit /\ [][DhtNext]_dhtAll

DhtTypeOK ==
    /\ \A i \in Id : peer_info[i] \subseteq {l \in Link : i \in {l.from, l.to}}
    /\ \A c \in UNION {routing_table[j] : j \in Id} \cup call.shortlist :
        c.id \in Id /\ c.addr \in {Listening(c.id)} \cup {Ephemeral(l) : l \in Link}
    /\ storage \subseteq Id
    /\ \A i \in Id : next_rpc_id[i] \in Nat /\ pending_rpcs[i] \subseteq 0..next_rpc_id[i]
    /\ setup \cup up \cup closing \cup hooks \subseteq Id \X Link /\ broken \subseteq Link
    /\ setup \cap up = {} /\ up \cap closing = {}
    /\ found \in {"none", "yes", "no"} /\ faults \in 0..world.faults

-----------------------------------------------------------------------------
(* Properties *)

\* Requests and answers are matched. An answer is only ever handed to the call that asked for
\* it: with a request given up after two seconds and its answer on the way, the next call
\* (maybe to the same peer, maybe for the same target) still gets its own. And the oneshot
\* of a call is reclaimed on every way out of rpc, whichever of the timeout, the late answer
\* and the failure to send comes first (rpc, process_message).
RpcsMatched ==
    /\ (call.pc = "await" /\ reply # NoReply) => reply.of = call.request
    /\ \A i \in Id : pending_rpcs[i] \subseteq
        (IF i = call.node /\ call.pc \in {"await", "timed_out"} THEN {call.request.rpc_id} ELSE {})

\* A table or a shortlist holds one contact per node and never the node itself, however
\* handshakes, hooks, requests and answers add to it, and at an address others can connect
\* to: only a FIND_NODE that is read between on_disconnect and the end of the reading task
\* makes a contact of the connection's own address (add_contact, absorb_contacts).
ContactsSound ==
    /\ \A i \in Id : \A c \in routing_table[i] :
        /\ c.id # i /\ \A d \in routing_table[i] : d.id = c.id => d = c
        /\ c.addr = Listening(c.id) \/ \E l \in broken : c.addr = Ephemeral(l) /\ l.from = c.id
    /\ \A c, d \in call.shortlist : c.id = d.id => c = d

\* "Discover the k closest contacts to target": when nothing went wrong, and the nodes have
\* looked themselves up or are three at most, the contacts store writes to are the K nodes
\* closest to the key, of all but the storing node. (Before that an answer that spends a
\* place on the asking node can make it miss one.) And find_value finds what was stored.
StoresAtClosest ==
    faults = 0 =>
        /\ call.op = "put" => call.shortlist =
               Closest({[id |-> i, addr |-> Listening(i)] : i \in world.ids \ {call.node}}, Key, K)
        /\ call.step > Len(Program) => found = "yes"

\* Every lookup ends, whatever is refused, lost or late: main gets to its end.
MainEnds == <>(call.step > Len(Program))

-----------------------------------------------------------------------------
(* The invariant behind RpcsMatched and ContactsSound: every request and every *)
(* answer in flight is traced to the call that asked, and every contact to the *)
(* connection it came from.                                                    *)

Target == Id \cup {w.key : w \in Worlds}
Contact == [id : Id, addr : {Listening(i) : i \in Id} \cup {Ephemeral(l) : l \in Link}]

RequestMessage ==
    [kind : {"FindNode"}, rpc_id : Nat, sender_id : Id, target : Target]
    \cup [kind : {"Store", "FindValue"}, rpc_id : Nat, key : Target]

ResponseMessage ==
    [kind : {"FindNodeResult"}, rpc_id : Nat, of : RequestMessage, contacts : SUBSET Contact]
    \cup [kind : {"StoreResult"}, rpc_id : Nat, of : RequestMessage]
    \cup [kind : {"FindValueResult"}, rpc_id : Nat, of : RequestMessage, value : BOOLEAN,
          contacts : SUBSET Contact]

CallTypes ==
    /\ DOMAIN call = {"pc", "step", "op", "node", "target", "shortlist", "queried", "contact", "link",
                      "request"}
    /\ call.pc \in {"start", "pick", "ensure", "connecting", "connected", "send", "await", "timed_out"}
    /\ call.step \in Nat \ {0} /\ call.node \in Id /\ call.target \in Target
    /\ call.shortlist \subseteq Contact
    /\ call.op \in {"none", "find_node", "store", "put", "find_value"}
    /\ call.pc # "start" => call.op # "none"
    /\ call.pc \in {"connecting", "connected"} => call.link \in Link /\ call.link.from = call.node
    /\ call.pc \in {"await", "timed_out"} => call.request \in RequestMessage

DhtTypes ==
    /\ world \in Worlds /\ CallTypes
    /\ peer_info \in [Id -> SUBSET Link]
    /\ \A i \in Id : \A l \in peer_info[i] : i \in {l.from, l.to}
    /\ routing_table \in [Id -> SUBSET Contact]
    /\ next_rpc_id \in [Id -> Nat] /\ pending_rpcs \in [Id -> SUBSET Nat]
    /\ setup \cup up \cup closing \cup hooks \subseteq End
    /\ wire \in [End -> Seq(RequestMessage \cup ResponseMessage)]
    /\ reply \in ResponseMessage \cup {NoReply}

\* The node that an rpc of main is waiting at.
InCall(i) == call.node = i /\ call.pc \in {"await", "timed_out"}

\* A request is one that node i numbered, and if it has the number of the rpc that i waits
\* for it is the request of that rpc.
Numbered(i, request) ==
    /\ request.rpc_id < next_rpc_id[i]
    /\ InCall(i) /\ request.rpc_id = call.request.rpc_id => request = call.request

Traced(e, m) ==
    IF m \in RequestMessage THEN Numbered(Peer(e[1], e[2]), m)
    ELSE m.rpc_id = m.of.rpc_id /\ Numbered(e[1], m.of)

RpcsInv ==
    /\ \A e \in End : \A k \in 1..Len(wire[e]) : Traced(e, wire[e][k])
    /\ reply # NoReply => call.pc = "await" /\ reply.of = call.request
    /\ InCall(call.node) => call.request.rpc_id < next_rpc_id[call.node]
    /\ \A i \in Id : \A n \in pending_rpcs[i] : InCall(i) /\ n = call.request.rpc_id

\* No two contacts of a set have the same id, and others can connect to them.
OneEach(contacts) == \A c, d \in contacts : c.id = d.id => c = d

Reachable(contacts) == \A c \in contacts :
    c.addr = Listening(c.id) \/ \E l \in broken : c.addr = Ephemeral(l) /\ l.from = c.id

Honest(e, m) ==
    /\ m.kind = "FindNode" => m.sender_id = Peer(e[1], e[2])
    /\ m.kind \in {"FindNodeResult", "FindValueResult"} =>
        OneEach(m.contacts) /\ Reachable(m.contacts)

\* An end that reads has its entry in peer_info, or is closing because its stream broke.
EntriesKept ==
    /\ \A e \in setup : e[1] = e[2].to /\ e \notin up
    /\ \A e \in setup \cup up : e[2] \in peer_info[e[1]]
    /\ \A e \in closing : e[2] \in broken

ContactsInv ==
    /\ EntriesKept
    /\ \A i \in Id : /\ OneEach(routing_table[i]) /\ Reachable(routing_table[i])
                     /\ \A c \in routing_table[i] : c.id # i
    /\ OneEach(call.shortlist)
    /\ \A e \in End : \A k \in 1..Len(wire[e]) : Honest(e, wire[e][k])
    /\ reply # NoReply /\ reply.kind \in {"FindNodeResult", "FindValueResult"} =>
        OneEach(reply.contacts) /\ Reachable(reply.contacts)

DhtInv == DhtTypes /\ RpcsInv /\ ContactsInv

=============================================================================
