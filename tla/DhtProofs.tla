------------------------------ MODULE DhtProofs ------------------------------
(* Theorems about Dht, for any nodes, keys, programs of main and faults: an    *)
(* answer goes to the call that asked, and contacts stay sound.                *)
EXTENDS Dht, SequenceTheorems, TLAPS

\* A leaf that needs no arithmetic cites Zenon. The others are given to SMT, with
\* time for the longer ones, and then to Zenon.
USE SMTT(30), Zenon

Message == RequestMessage \cup ResponseMessage

-----------------------------------------------------------------------------
(* Messages, ends of connections, contacts. *)

\* The fields of a message; a request is no response.
LEMMA MessageFields ==
    /\ \A m \in RequestMessage :
        /\ m.rpc_id \in Nat
        /\ m.kind \in {"FindNode", "Store", "FindValue"}
        /\ m.kind = "FindNode" => m.sender_id \in Id /\ m.target \in Target
        /\ m.kind # "FindNode" => m.key \in Target
    /\ \A m \in ResponseMessage :
        /\ m.rpc_id \in Nat /\ m.of \in RequestMessage
        /\ m.kind \in {"FindNodeResult", "StoreResult", "FindValueResult"}
        /\ m.kind # "StoreResult" => m.contacts \subseteq Contact
    /\ \A m \in ResponseMessage : m \notin RequestMessage /\ m # NoReply
<1>1. \A m \in RequestMessage :
        /\ m.rpc_id \in Nat
        /\ m.kind \in {"FindNode", "Store", "FindValue"}
        /\ m.kind = "FindNode" => m.sender_id \in Id /\ m.target \in Target
        /\ m.kind # "FindNode" => m.key \in Target
      BY Zenon DEF RequestMessage
<1>2. \A m \in ResponseMessage :
        /\ m.rpc_id \in Nat /\ m.of \in RequestMessage
        /\ m.kind \in {"FindNodeResult", "StoreResult", "FindValueResult"}
        /\ m.kind # "StoreResult" => m.contacts \subseteq Contact
      BY Zenon DEF ResponseMessage
<1>3. \A m \in ResponseMessage : m \notin RequestMessage /\ m # NoReply
      BY <1>1, <1>2 DEF NoReply
<1> QED
      BY <1>1, <1>2, <1>3, Zenon

\* A connection has two ends, at different nodes.
LEMMA EndFacts ==
    ASSUME NEW e \in End
    PROVE  /\ e[1] \in Id /\ e[2] \in Link /\ e = <<e[1], e[2]>>
           /\ e[2].from \in Id /\ e[2].to \in Id /\ e[2].from # e[2].to
           /\ e[1] \in {e[2].from, e[2].to}
           /\ Peer(e[1], e[2]) \in Id /\ Peer(e[1], e[2]) # e[1]
           /\ Peer(Peer(e[1], e[2]), e[2]) = e[1]
           /\ <<Peer(e[1], e[2]), e[2]>> \in End
<1>1. /\ e[1] \in Id /\ e[2] \in Link /\ e = <<e[1], e[2]>>
      /\ e[2].from \in Id /\ e[2].to \in Id /\ e[2].from # e[2].to
      /\ e[1] \in {e[2].from, e[2].to}
      BY DEF End, Link
<1>2. /\ Peer(e[1], e[2]) \in {e[2].from, e[2].to} /\ Peer(e[1], e[2]) # e[1]
      /\ Peer(Peer(e[1], e[2]), e[2]) = e[1]
      BY <1>1 DEF Peer
<1>3. <<Peer(e[1], e[2]), e[2]>> \in End
      BY <1>1, <1>2, Zenon DEF End
<1> QED
      BY <1>1, <1>2, <1>3, Zenon

\* Both <<from, l>> and <<to, l>> are ends.
LEMMA LinkEnds ==
    ASSUME NEW l \in Link
    PROVE  /\ l.from \in Id /\ l.to \in Id /\ l.from # l.to
           /\ <<l.from, l>> \in End /\ <<l.to, l>> \in End
      BY Zenon DEF End, Link

\* The two kinds of addresses.
LEMMA Addresses ==
    /\ \A i, j : Listening(i) = Listening(j) => i = j
    /\ \A l, k : Ephemeral(l) = Ephemeral(k) => l = k
    /\ \A i, l : Listening(i) # Ephemeral(l)
    /\ \A i \in Id : [id |-> i, addr |-> Listening(i)] \in Contact
    /\ \A i \in Id, l \in Link : [id |-> i, addr |-> Ephemeral(l)] \in Contact
<1>1. /\ \A i : Listening(i).port = "listening" /\ Listening(i).of = i
      /\ \A l : Ephemeral(l).port = "ephemeral" /\ Ephemeral(l).of = l
      BY Zenon DEF Listening, Ephemeral
<1>2. /\ \A i, j : Listening(i) = Listening(j) => i = j
      /\ \A l, k : Ephemeral(l) = Ephemeral(k) => l = k
      /\ \A i, l : Listening(i) # Ephemeral(l)
      BY <1>1
<1>3. /\ \A i \in Id : [id |-> i, addr |-> Listening(i)] \in Contact
      /\ \A i \in Id, l \in Link : [id |-> i, addr |-> Ephemeral(l)] \in Contact
      BY Zenon DEF Contact
<1> QED
      BY <1>2, <1>3, Zenon

\* What add_contact does to a set of contacts.
LEMMA AddContactFacts ==
    ASSUME NEW table, NEW me, NEW contacts
    PROVE  /\ table \subseteq Contact /\ contacts \subseteq Contact =>
                AddContact(table, me, contacts) \subseteq Contact
           /\ OneEach(table) /\ OneEach(contacts) => OneEach(AddContact(table, me, contacts))
           /\ Reachable(table) /\ Reachable(contacts) => Reachable(AddContact(table, me, contacts))
           /\ (\A c \in table : c.id # me) => \A c \in AddContact(table, me, contacts) : c.id # me
<1>1. table \subseteq Contact /\ contacts \subseteq Contact =>
                AddContact(table, me, contacts) \subseteq Contact
      BY Zenon DEF AddContact
<1>2. OneEach(table) /\ OneEach(contacts) => OneEach(AddContact(table, me, contacts))
      BY Zenon DEF AddContact, OneEach
<1>3. Reachable(table) /\ Reachable(contacts) => Reachable(AddContact(table, me, contacts))
      BY Zenon DEF AddContact, Reachable
<1>4. (\A c \in table : c.id # me) => \A c \in AddContact(table, me, contacts) : c.id # me
      BY Zenon DEF AddContact
<1> QED
      BY <1>1, <1>2, <1>3, <1>4, Zenon

\* closest_contacts leaves out some contacts and adds none.
LEMMA ClosestFacts ==
    ASSUME NEW contacts, NEW target, NEW k
    PROVE  /\ Closest(contacts, target, k) \subseteq contacts
           /\ OneEach(contacts) => OneEach(Closest(contacts, target, k))
           /\ Reachable(contacts) => Reachable(Closest(contacts, target, k))
<1>1. Closest(contacts, target, k) \subseteq contacts
      BY Zenon DEF Closest
<1>2. OneEach(contacts) => OneEach(Closest(contacts, target, k))
      BY <1>1, Zenon DEF OneEach
<1>3. Reachable(contacts) => Reachable(Closest(contacts, target, k))
      BY <1>1, Zenon DEF Reachable
<1> QED
      BY <1>1, <1>2, <1>3, Zenon

\* An address leads to one peer: the entries of peer_info that have it give one contact.
LEMMA KnownPeerFacts ==
    ASSUME DhtTypes, NEW i \in Id, NEW l \in Link, i \in {l.from, l.to}
    PROVE  /\ KnownPeer(i, l) \subseteq {[id |-> Peer(i, l), addr |-> Listening(Peer(i, l))]}
           /\ KnownPeer(i, l) \subseteq Contact
           /\ OneEach(KnownPeer(i, l)) /\ Reachable(KnownPeer(i, l))
           /\ l \in peer_info[i] => KnownPeer(i, l) # {}
<1> DEFINE c(p) == [id |-> p, addr |-> Listening(p)]
<1>1. ASSUME NEW k \in peer_info[i], AddrAt(i, k) = AddrAt(i, l)
      PROVE  Peer(i, k) = Peer(i, l)
  <2>1. k \in Link /\ i \in {k.from, k.to}
        BY Zenon DEF DhtTypes
  <2>2. CASE l.from = i
        BY <1>1, <2>1, <2>2, Addresses, Zenon DEF AddrAt, Peer
  <2>3. CASE l.from # i
        BY <1>1, <2>1, <2>3, Addresses, Zenon DEF AddrAt, Peer
  <2> QED
        BY <2>2, <2>3, Zenon
<1>2. KnownPeer(i, l) \subseteq {c(Peer(i, l))}
      BY <1>1, Zenon DEF KnownPeer
<1>3. c(Peer(i, l)) \in Contact
      BY LinkEnds, Addresses, Zenon DEF Peer
<1>4. OneEach(KnownPeer(i, l)) /\ Reachable(KnownPeer(i, l))
      BY <1>2 DEF OneEach, Reachable
<1>5. l \in peer_info[i] => KnownPeer(i, l) # {}
      BY Zenon DEF KnownPeer
<1> QED
      BY <1>2, <1>3, <1>4, <1>5, Zenon

-----------------------------------------------------------------------------
(* What the steps do to the messages in flight. *)

InFlight(e, m) == \E j \in 1..Len(wire[e]) : wire[e][j] = m

\* All that is in flight after a step was so before it, but for r on its way to d.
Arrives(d, r) ==
    /\ wire' \in [End -> Seq(Message)]
    /\ \A x \in End : \A k \in 1..Len(wire'[x]) :
        InFlight(x, wire'[x][k]) \/ (x = d /\ wire'[x][k] = r)

OldOnly ==
    /\ wire' \in [End -> Seq(Message)]
    /\ \A x \in End : \A k \in 1..Len(wire'[x]) : InFlight(x, wire'[x][k])

\* The message at the head of the queue of an end.
LEMMA HeadInFlight ==
    ASSUME wire \in [End -> Seq(Message)], NEW e \in End, wire[e] # <<>>
    PROVE  /\ Head(wire[e]) \in Message /\ InFlight(e, Head(wire[e]))
           /\ 1 \in 1..Len(wire[e]) /\ Head(wire[e]) = wire[e][1]
<1>1. wire[e] \in Seq(Message)
      BY Zenon
<1>2. 1 \in 1..Len(wire[e]) /\ Head(wire[e]) = wire[e][1]
      BY <1>1, EmptySeq
<1>3. Head(wire[e]) \in Message
      BY <1>1, HeadTailProperties, Zenon
<1> QED
      BY <1>2, <1>3, Zenon DEF InFlight

\* A message is read.
LEMMA WireTail ==
    ASSUME wire \in [End -> Seq(Message)], NEW e \in End, wire[e] # <<>>,
           wire' = [wire EXCEPT ![e] = Tail(@)]
    PROVE  OldOnly
<1> DEFINE t == Tail(wire[e])
<1>1. /\ wire[e] \in Seq(Message) /\ Len(wire[e]) \in Nat /\ t \in Seq(Message)
      /\ Len(t) = Len(wire[e]) - 1 /\ \A i \in 1..Len(t) : t[i] = wire[e][i + 1]
      BY HeadTailProperties, LenProperties, Zenon
<1>2. wire' \in [End -> Seq(Message)] /\ wire'[e] = t
      BY <1>1, Zenon
<1> HIDE DEF t
<1>3. ASSUME NEW x \in End, NEW k \in 1..Len(wire'[x])
      PROVE  InFlight(x, wire'[x][k])
  <2>1. CASE x = e
    <3>1. wire'[x] = t
          BY <1>2, <2>1, Zenon
    <3>2. wire'[x][k] = wire[e][k + 1] /\ k + 1 \in 1..Len(wire[e])
          BY <1>1, <3>1
    <3> QED
          BY <2>1, <3>2, Zenon DEF InFlight
  <2>2. CASE x # e
        BY <2>2, Zenon DEF InFlight
  <2> QED
        BY <2>1, <2>2, Zenon
<1> QED
      BY <1>2, <1>3, Zenon DEF OldOnly

\* A reading task ends.
LEMMA WireClear ==
    ASSUME wire \in [End -> Seq(Message)], NEW e \in End, wire' = [wire EXCEPT ![e] = <<>>]
    PROVE  OldOnly
<1>1. <<>> \in Seq(Message) /\ Len(<<>>) = 0
      BY EmptySeq, Zenon
<1>2. wire' \in [End -> Seq(Message)]
      BY <1>1, Zenon
<1>3. ASSUME NEW x \in End, NEW k \in 1..Len(wire'[x])
      PROVE  InFlight(x, wire'[x][k])
      BY <1>1, <1>3 DEF InFlight
<1> QED
      BY <1>2, <1>3, Zenon DEF OldOnly

\* A message is sent.
LEMMA WireAppend ==
    ASSUME wire \in [End -> Seq(Message)], NEW d \in End, NEW r \in Message,
           wire' = [wire EXCEPT ![d] = Append(@, r)]
    PROVE  Arrives(d, r)
<1> DEFINE a == Append(wire[d], r)
<1>1. /\ wire[d] \in Seq(Message) /\ Len(wire[d]) \in Nat /\ a \in Seq(Message)
      /\ Len(a) = Len(wire[d]) + 1 /\ a[Len(wire[d]) + 1] = r
      /\ \A i \in 1..Len(wire[d]) : a[i] = wire[d][i]
      BY AppendProperties, LenProperties
<1> HIDE DEF a
<1>2. wire' = [wire EXCEPT ![d] = a]
      BY Zenon DEF a
<1>3. wire' \in [End -> Seq(Message)]
      BY <1>1, <1>2, Zenon
<1>4. ASSUME NEW x \in End, NEW k \in 1..Len(wire'[x])
      PROVE  InFlight(x, wire'[x][k]) \/ (x = d /\ wire'[x][k] = r)
  <2>1. CASE x = d
    <3>1. wire'[x] = a
          BY <1>2, <2>1, Zenon
    <3>2. CASE k = Len(wire[d]) + 1
          BY <1>1, <2>1, <3>1, <3>2, Zenon
    <3>3. CASE k # Len(wire[d]) + 1
      <4>1. k \in 1..Len(wire[d]) /\ a[k] = wire[d][k]
            BY <1>1, <3>1, <3>3
      <4> QED
            BY <2>1, <3>1, <4>1, Zenon DEF InFlight
    <3> QED
          BY <3>2, <3>3, Zenon
  <2>2. CASE x # d
        BY <1>2, <2>2, Zenon DEF InFlight
  <2> QED
        BY <2>1, <2>2, Zenon
<1> QED
      BY <1>3, <1>4, Zenon DEF Arrives

\* A message is read and answered.
LEMMA WireRespond ==
    ASSUME wire \in [End -> Seq(Message)], NEW i, NEW l, <<i, l>> \in End, wire[<<i, l>>] # <<>>,
           NEW r \in Message, Respond(i, l, r)
    PROVE  Arrives(<<Peer(i, l), l>>, r)
<1> DEFINE e == <<i, l>>
           d == <<Peer(i, l), l>>
           t == Tail(wire[e])
           a == Append(wire[d], r)
<1>0. e \in End /\ e[1] = i /\ e[2] = l
      BY Zenon
<1>1. d \in End /\ d # e
  <2>1. <<Peer(e[1], e[2]), e[2]>> \in End /\ Peer(e[1], e[2]) # e[1]
        BY <1>0, EndFacts, Zenon
  <2> QED
        BY <1>0, <2>1, Zenon
<1>2. /\ wire[e] \in Seq(Message) /\ Len(wire[e]) \in Nat /\ t \in Seq(Message)
      /\ Len(t) = Len(wire[e]) - 1 /\ \A k \in 1..Len(t) : t[k] = wire[e][k + 1]
      BY HeadTailProperties, LenProperties, Zenon
<1>3. /\ wire[d] \in Seq(Message) /\ Len(wire[d]) \in Nat /\ a \in Seq(Message)
      /\ Len(a) = Len(wire[d]) + 1 /\ a[Len(wire[d]) + 1] = r
      /\ \A k \in 1..Len(wire[d]) : a[k] = wire[d][k]
      BY <1>1, AppendProperties, LenProperties
<1>4. /\ wire'[e] = t /\ wire'[d] = a
      /\ wire' \in [End -> Seq(Message)]
      /\ \A x \in End : x # e /\ x # d => wire'[x] = wire[x]
      BY <1>1, <1>2, <1>3, Zenon DEF Respond
<1> HIDE DEF a, t, e, d
<1>5. ASSUME NEW x \in End, NEW k \in 1..Len(wire'[x])
      PROVE  InFlight(x, wire'[x][k]) \/ (x = d /\ wire'[x][k] = r)
  <2>1. CASE x = d
    <3>1. CASE k = Len(wire[d]) + 1
          BY <1>3, <1>4, <2>1, <3>1, Zenon
    <3>2. CASE k # Len(wire[d]) + 1
      <4>1. k \in 1..Len(wire[d]) /\ a[k] = wire[d][k]
            BY <1>3, <1>4, <2>1, <3>2
      <4> QED
            BY <1>4, <2>1, <4>1, Zenon DEF InFlight
    <3> QED
          BY <3>1, <3>2, Zenon
  <2>2. CASE x = e
    <3>1. wire'[x][k] = wire[e][k + 1] /\ k + 1 \in 1..Len(wire[e])
          BY <1>2, <1>4, <2>2
    <3> QED
          BY <2>2, <3>1, Zenon DEF InFlight
  <2>3. CASE x # d /\ x # e
        BY <1>4, <2>3, Zenon DEF InFlight
  <2> QED
        BY <2>1, <2>2, <2>3, Zenon
<1> QED
      BY <1>4, <1>5, Zenon DEF Arrives, d

-----------------------------------------------------------------------------
(* The parts of the invariant, one lemma each, one step for each action. *)

\* The nodes have just connected to the seed.
LEMMA DhtInitInv == DhtInit => DhtInv
<1> SUFFICES ASSUME DhtInit PROVE DhtInv
    BY Zenon
<1>1. Bootstrap \subseteq Link /\ <<>> \in Seq(Message) /\ Len(<<>>) = 0
      BY EmptySeq, Zenon DEF Bootstrap
<1>2. CallTypes
      BY DhtAssumption DEF DhtInit, CallTypes, Idle, Target
<1>3. wire \in [End -> Seq(RequestMessage \cup ResponseMessage)] /\ \A e \in End : Len(wire[e]) = 0
      BY <1>1, Zenon DEF DhtInit, Message
<1>4. /\ peer_info \in [Id -> SUBSET Link]
      /\ \A i \in Id : \A l \in peer_info[i] : i \in {l.from, l.to}
      BY <1>1, Zenon DEF DhtInit
<1>5. /\ routing_table \in [Id -> SUBSET Contact]
      /\ next_rpc_id \in [Id -> Nat] /\ pending_rpcs \in [Id -> SUBSET Nat]
      /\ setup \cup up \cup closing \cup hooks \subseteq End
      /\ reply = NoReply /\ world \in Worlds
      BY Zenon DEF DhtInit
<1>6. DhtTypes
      BY <1>2, <1>3, <1>4, <1>5, Zenon DEF DhtTypes
<1>7. RpcsInv
      BY <1>3, <1>5 DEF DhtInit, RpcsInv, InCall, Idle
<1>8. EntriesKept
  <2>1. \A e \in up : e[2] \in peer_info[e[1]]
        BY EndFacts, Zenon DEF DhtInit
  <2> QED
        BY <2>1, Zenon DEF DhtInit, EntriesKept
<1>9. ContactsInv
  <2>1. \A i \in Id : routing_table[i] = {}
        BY Zenon DEF DhtInit
  <2>2. call.shortlist = {}
        BY Zenon DEF DhtInit, Idle
  <2> QED
        BY <1>3, <1>5, <1>8, <2>1, <2>2 DEF ContactsInv, OneEach, Reachable
<1> QED
      BY <1>6, <1>7, <1>9, Zenon DEF DhtInv

\* The types that do not change when their variables do not.
LEMMA TypesFrame ==
    ASSUME DhtTypes, CallTypes', UNCHANGED world,
           peer_info' \in [Id -> SUBSET Link],
           \A i \in Id : \A l \in peer_info'[i] : i \in {l.from, l.to},
           routing_table' \in [Id -> SUBSET Contact],
           next_rpc_id' \in [Id -> Nat], pending_rpcs' \in [Id -> SUBSET Nat],
           setup' \cup up' \cup closing' \cup hooks' \subseteq End,
           wire' \in [End -> Seq(Message)], reply' \in ResponseMessage \cup {NoReply}
    PROVE  DhtTypes'
      BY Zenon DEF DhtTypes, Message

\* Every step of a connection or of a node that reads keeps the types.
LEMMA NetTypes ==
    ASSUME DhtTypes, DhtNext, Net \/ \E l \in Link : LinkBreaks(l)
    PROVE  DhtTypes'
<1> USE DEF rpcVars, endVars, netVars
<1>0. /\ DhtTypes /\ CallTypes /\ UNCHANGED world
      /\ peer_info \in [Id -> SUBSET Link]
      /\ \A i \in Id : \A l \in peer_info[i] : i \in {l.from, l.to}
      /\ routing_table \in [Id -> SUBSET Contact]
      /\ next_rpc_id \in [Id -> Nat] /\ pending_rpcs \in [Id -> SUBSET Nat]
      /\ setup \subseteq End /\ up \subseteq End /\ closing \subseteq End /\ hooks \subseteq End
      /\ wire \in [End -> Seq(Message)] /\ reply \in ResponseMessage \cup {NoReply}
      BY Zenon DEF DhtTypes, DhtNext, Message
<1>1. ASSUME NEW l \in Link, HandshakeAccepted(l)
      PROVE  DhtTypes'
  <2>0. /\ l.to \in Id /\ <<l.to, l>> \in End
        /\ peer_info' = [peer_info EXCEPT ![l.to] = @ \cup {l}]
        /\ setup' = setup \cup {<<l.to, l>>}
        BY <1>1, LinkEnds, Zenon DEF HandshakeAccepted
  <2>1. CallTypes'
        BY <1>0, <1>1, Zenon DEF HandshakeAccepted, CallTypes
  <2>2. /\ peer_info' \in [Id -> SUBSET Link]
        /\ \A i \in Id : \A k \in peer_info'[i] : i \in {k.from, k.to}
        BY <1>0, <2>0
  <2>3. setup' \subseteq End
        BY <1>0, <2>0, Zenon
  <2>4. UNCHANGED <<routing_table, rpcVars, up, closing, hooks, wire>>
        BY <1>1, Zenon DEF HandshakeAccepted
  <2> QED
        BY <1>0, <2>1, <2>2, <2>3, <2>4, TypesFrame, Zenon
<1>2. ASSUME NEW l \in Link, Accepted(l)
      PROVE  DhtTypes'
  <2>1. CallTypes'
        BY <1>0, <1>2, Zenon DEF Accepted, CallTypes
  <2>2. setup' \subseteq End /\ up' \subseteq End /\ hooks' \subseteq End
        BY <1>0, <1>2, LinkEnds, Zenon DEF Accepted
  <2>3. UNCHANGED <<peer_info, routing_table, rpcVars, closing, wire>>
        BY <1>2, Zenon DEF Accepted
  <2> QED
        BY <1>0, <2>1, <2>2, <2>3, TypesFrame, Zenon
<1>3. ASSUME NEW l \in Link, HandshakeDialed(l)
      PROVE  DhtTypes'
  <2>1. CallTypes'
        BY <1>0, <1>3, Zenon DEF HandshakeDialed, CallTypes
  <2>2. /\ peer_info' \in [Id -> SUBSET Link]
        /\ \A i \in Id : \A k \in peer_info'[i] : i \in {k.from, k.to}
        BY <1>0, <1>3, LinkEnds, ZenonT(30) DEF HandshakeDialed
  <2>3. up' \subseteq End /\ hooks' \subseteq End
        BY <1>0, <1>3, LinkEnds DEF HandshakeDialed
  <2>4. UNCHANGED <<routing_table, rpcVars, setup, closing, wire>>
        BY <1>3, Zenon DEF HandshakeDialed
  <2> QED
        BY <1>0, <2>1, <2>2, <2>3, <2>4, TypesFrame, Zenon
<1>4. ASSUME NEW e \in up \cup closing \cup hooks, OnConnect(e[1], e[2])
      PROVE  DhtTypes'
  <2>1. e \in End /\ e[1] \in Id /\ e[2] \in Link /\ e[1] \in {e[2].from, e[2].to}
        BY <1>0, EndFacts, Zenon
  <2>2. CallTypes'
        BY <1>0, <1>4, Zenon DEF OnConnect, CallTypes
  <2>3. AddContact(routing_table[e[1]], e[1], KnownPeer(e[1], e[2])) \subseteq Contact
        BY <1>0, <2>1, KnownPeerFacts, AddContactFacts, Zenon
  <2>4. routing_table' \in [Id -> SUBSET Contact] /\ hooks' \subseteq End
        BY <1>0, <1>4, <2>1, <2>3, Zenon DEF OnConnect
  <2>5. UNCHANGED <<peer_info, rpcVars, endVars, wire>>
        BY <1>4, Zenon DEF OnConnect
  <2> QED
        BY <1>0, <2>2, <2>4, <2>5, TypesFrame, Zenon
<1>5. ASSUME NEW e \in up \cup closing \cup hooks, OnDisconnect(e[1], e[2])
      PROVE  DhtTypes'
  <2>1. e \in End /\ e[1] \in Id /\ e[2] \in Link /\ <<e[1], e[2]>> \in End
        BY <1>0, EndFacts, Zenon
  <2>2. CallTypes'
        BY <1>0, <1>5, Zenon DEF OnDisconnect, CallTypes
  <2>3. /\ peer_info' \in [Id -> SUBSET Link]
        /\ \A i \in Id : \A k \in peer_info'[i] : i \in {k.from, k.to}
        BY <1>0, <1>5, <2>1 DEF OnDisconnect
  <2>4. routing_table' \in [Id -> SUBSET Contact] /\ up' \subseteq End /\ closing' \subseteq End
        BY <1>0, <1>5, <2>1, Zenon DEF OnDisconnect
  <2>5. UNCHANGED <<rpcVars, setup, hooks, wire>>
        BY <1>5, Zenon DEF OnDisconnect
  <2> QED
        BY <1>0, <2>2, <2>3, <2>4, <2>5, TypesFrame, Zenon
<1>6. ASSUME NEW e \in up \cup closing \cup hooks, Removed(e[1], e[2])
      PROVE  DhtTypes'
  <2>1. <<e[1], e[2]>> \in End
        BY <1>0, EndFacts, Zenon
  <2>2. CallTypes'
        BY <1>0, <1>6, Zenon DEF Removed, CallTypes
  <2>3. wire' \in [End -> Seq(Message)]
    <3>1. wire' = [wire EXCEPT ![<<e[1], e[2]>>] = <<>>]
          BY <1>6, Zenon DEF Removed
    <3> QED
          BY <1>0, <2>1, <3>1, WireClear, Zenon DEF OldOnly
  <2>4. closing' \subseteq End /\ UNCHANGED <<peer_info, routing_table, rpcVars, setup, up, hooks>>
        BY <1>0, <1>6, Zenon DEF Removed
  <2> QED
        BY <1>0, <2>2, <2>3, <2>4, TypesFrame, Zenon
<1>7. ASSUME NEW e \in up \cup closing, FindNode(e[1], e[2])
      PROVE  DhtTypes'
  <2> DEFINE i == e[1]
             l == e[2]
             msg == Head(wire[<<i, l>>])
             table == AddContact(routing_table[i], i,
                        {[id |-> msg.sender_id, addr |-> SenderAddr(i, l)]})
             r == [kind |-> "FindNodeResult", rpc_id |-> msg.rpc_id, of |-> msg,
                   contacts |-> Closest(table, msg.target, K)]
  <2>1. e \in End /\ i \in Id /\ l \in Link /\ i \in {l.from, l.to} /\ e = <<i, l>>
        /\ Peer(i, l) \in Id
        BY <1>0, EndFacts, Zenon
  <2>2. wire[<<i, l>>] # <<>> /\ msg.kind = "FindNode"
        BY <1>7, Zenon DEF FindNode, Reads
  <2>3. msg \in RequestMessage /\ msg.rpc_id \in Nat /\ msg.sender_id \in Id
        BY <1>0, <2>1, <2>2, HeadInFlight, MessageFields, ZenonT(30) DEF Message
  <2>4. [id |-> msg.sender_id, addr |-> SenderAddr(i, l)] \in Contact
        BY <2>1, <2>3, Zenon DEF Contact, SenderAddr, AddrAt, Link
  <2>5. table \subseteq Contact
    <3> DEFINE new == {[id |-> msg.sender_id, addr |-> SenderAddr(i, l)]}
    <3>1. new \subseteq Contact /\ routing_table[i] \subseteq Contact
          BY <1>0, <2>1, <2>4, Zenon
    <3> HIDE DEF new
    <3>2. AddContact(routing_table[i], i, new) \subseteq Contact
          BY <3>1, AddContactFacts, Zenon
    <3> QED
          BY <3>2, Zenon DEF new
  <2>6. r \in Message
    <3>1. Closest(table, msg.target, K) \in SUBSET Contact
          BY <2>5, ClosestFacts, Zenon
    <3> HIDE DEF table, msg
    <3> QED
          BY <2>3, <3>1, Zenon DEF Message, ResponseMessage
  <2>7. Respond(i, l, r) /\ routing_table' = [routing_table EXCEPT ![i] = table]
        BY <1>7, Zenon DEF FindNode
  <2>8. UNCHANGED <<peer_info, rpcVars, endVars, hooks, call>>
        BY <1>7, Zenon DEF FindNode
  <2> HIDE DEF r, table, msg
  <2>9. wire' \in [End -> Seq(Message)]
        BY <1>0, <2>1, <2>2, <2>6, <2>7, WireRespond, Zenon DEF Arrives
  <2>10. routing_table' \in [Id -> SUBSET Contact] /\ CallTypes'
        BY <1>0, <2>1, <2>5, <2>7, <2>8, Zenon DEF CallTypes
  <2> QED
        BY <1>0, <2>8, <2>9, <2>10, TypesFrame, Zenon
<1>8. ASSUME NEW e \in up \cup closing, Store(e[1], e[2])
      PROVE  DhtTypes'
  <2> DEFINE i == e[1]
             l == e[2]
             msg == Head(wire[<<i, l>>])
             r == [kind |-> "StoreResult", rpc_id |-> msg.rpc_id, of |-> msg]
  <2>1. e \in End /\ e = <<i, l>>
        BY <1>0, EndFacts, Zenon
  <2>2. wire[<<i, l>>] # <<>> /\ msg.kind = "Store"
        BY <1>8, Zenon DEF Store, Reads
  <2>3. msg \in RequestMessage /\ msg.rpc_id \in Nat
        BY <1>0, <2>1, <2>2, HeadInFlight, MessageFields, ZenonT(30) DEF Message
  <2>4. Respond(i, l, r) /\ UNCHANGED <<peer_info, routing_table, rpcVars, endVars, hooks, call>>
        BY <1>8, Zenon DEF Store
  <2> HIDE DEF msg
  <2>5. r \in Message
        BY <2>3, Zenon DEF Message, ResponseMessage
  <2> HIDE DEF r
  <2>6. wire' \in [End -> Seq(Message)]
        BY <1>0, <2>1, <2>2, <2>4, <2>5, WireRespond, Zenon DEF Arrives, msg
  <2>7. CallTypes'
        BY <1>0, <2>4, Zenon DEF CallTypes
  <2> QED
        BY <1>0, <2>4, <2>6, <2>7, TypesFrame, Zenon
<1>9. ASSUME NEW e \in up \cup closing, FindValue(e[1], e[2])
      PROVE  DhtTypes'
  <2> DEFINE i == e[1]
             l == e[2]
             msg == Head(wire[<<i, l>>])
             cs == IF i \in storage THEN {} ELSE Closest(routing_table[i], msg.key, K)
             r == [kind |-> "FindValueResult", rpc_id |-> msg.rpc_id, of |-> msg,
                   value |-> i \in storage, contacts |-> cs]
  <2>1. e \in End /\ e = <<i, l>> /\ i \in Id
        BY <1>0, EndFacts, Zenon
  <2>2. wire[<<i, l>>] # <<>> /\ msg.kind = "FindValue"
        BY <1>9, Zenon DEF FindValue, Reads
  <2>3. msg \in RequestMessage /\ msg.rpc_id \in Nat
        BY <1>0, <2>1, <2>2, HeadInFlight, MessageFields, ZenonT(30) DEF Message
  <2>4. Respond(i, l, r) /\ UNCHANGED <<peer_info, routing_table, rpcVars, endVars, hooks, call>>
        BY <1>9, Zenon DEF FindValue
  <2>5. cs \in SUBSET Contact
        BY <1>0, <2>1, ClosestFacts, Zenon
  <2> HIDE DEF msg, cs
  <2>6. r \in Message
    <3>1. (i \in storage) \in BOOLEAN
          OBVIOUS
    <3> QED
        BY <2>3, <2>5, <3>1, Zenon DEF Message, ResponseMessage
  <2> HIDE DEF r
  <2>7. wire' \in [End -> Seq(Message)]
        BY <1>0, <2>1, <2>2, <2>4, <2>6, WireRespond, Zenon DEF Arrives, msg
  <2>8. CallTypes'
        BY <1>0, <2>4, Zenon DEF CallTypes
  <2> QED
        BY <1>0, <2>4, <2>7, <2>8, TypesFrame, Zenon
<1>10. ASSUME NEW e \in up \cup closing, Response(e[1], e[2])
      PROVE  DhtTypes'
  <2> DEFINE i == e[1]
             l == e[2]
             msg == Head(wire[<<i, l>>])
  <2>1. e \in End /\ e = <<i, l>> /\ i \in Id
        BY <1>0, EndFacts, Zenon
  <2>2. /\ wire[<<i, l>>] # <<>>
        /\ msg.kind \in {"FindNodeResult", "StoreResult", "FindValueResult"}
        BY <1>10, Zenon DEF Response, Reads
  <2>3. msg \in ResponseMessage
        BY <1>0, <2>1, <2>2, HeadInFlight, MessageFields, Zenon DEF Message
  <2>4. wire' = [wire EXCEPT ![<<i, l>>] = Tail(@)]
        BY <1>10, Zenon DEF Response
  <2>5. wire' \in [End -> Seq(Message)]
        BY <1>0, <2>1, <2>2, <2>4, WireTail, Zenon DEF OldOnly
  <2>6. pending_rpcs' \in [Id -> SUBSET Nat] /\ reply' \in ResponseMessage \cup {NoReply}
        BY <1>0, <1>10, <2>1, <2>3, Zenon DEF Response
  <2>7. UNCHANGED <<peer_info, routing_table, next_rpc_id, endVars, hooks, call>>
        BY <1>10, Zenon DEF Response
  <2>8. CallTypes'
        BY <1>0, <2>7, Zenon DEF CallTypes
  <2> QED
        BY <1>0, <2>5, <2>6, <2>7, <2>8, TypesFrame, Zenon
<1>11. ASSUME NEW l \in Link, LinkBreaks(l)
      PROVE  DhtTypes'
  <2>1. CallTypes'
        BY <1>0, <1>11, Zenon DEF LinkBreaks, CallTypes
  <2>2. UNCHANGED <<peer_info, routing_table, rpcVars, endVars, hooks, wire>>
        BY <1>11, Zenon DEF LinkBreaks
  <2> QED
        BY <1>0, <2>1, <2>2, TypesFrame, Zenon
<1> QED
      BY <1>1, <1>2, <1>3, <1>4, <1>5, <1>6, <1>7, <1>8, <1>9, <1>10, <1>11, Zenon DEF Net

\* The request of the rpc that is about to be sent.
LEMMA RequestFacts ==
    ASSUME DhtTypes, call.pc = "send"
    PROVE  /\ Request \in RequestMessage /\ Request.rpc_id = next_rpc_id[call.node]
           /\ Request.kind = "FindNode" => Request.sender_id = call.node
<1>1. /\ call.node \in Id /\ call.target \in Target /\ next_rpc_id[call.node] \in Nat
      /\ call.op \in {"find_node", "store", "put", "find_value"}
      BY Zenon DEF DhtTypes, CallTypes
<1>2. Key \in Target
      BY Zenon DEF DhtTypes, Key, Target
<1>3. CASE call.op \in {"find_node", "store"}
      BY <1>1, <1>3, Zenon DEF Request, RequestMessage
<1>4. CASE call.op = "put"
      BY <1>1, <1>2, <1>4, Zenon DEF Request, RequestMessage
<1>5. CASE call.op = "find_value"
      BY <1>1, <1>2, <1>5, Zenon DEF Request, RequestMessage
<1> QED
      BY <1>1, <1>3, <1>4, <1>5, Zenon

\* The connection that a node reaches an address through ends at that node.
LEMMA RouteFacts ==
    ASSUME DhtTypes, NEW i \in Id, NEW addr, NEW l \in Route(i, addr)
    PROVE  <<i, l>> \in End
<1>1. PICK e \in up \cup closing : e[1] = i /\ e[2] = l
      BY Zenon DEF Route
<1>2. e \in End
      BY Zenon DEF DhtTypes
<1> QED
      BY <1>1, <1>2, EndFacts, Zenon

\* Every step of main keeps the types.
LEMMA MainTypes ==
    ASSUME DhtTypes, Main, UNCHANGED world
    PROVE  DhtTypes'
<1> USE DEF rpcVars, endVars, netVars
<1>0. /\ CallTypes
      /\ peer_info \in [Id -> SUBSET Link]
      /\ \A i \in Id : \A l \in peer_info[i] : i \in {l.from, l.to}
      /\ routing_table \in [Id -> SUBSET Contact]
      /\ next_rpc_id \in [Id -> Nat] /\ pending_rpcs \in [Id -> SUBSET Nat]
      /\ setup \subseteq End /\ up \subseteq End /\ closing \subseteq End /\ hooks \subseteq End
      /\ wire \in [End -> Seq(Message)] /\ reply \in ResponseMessage \cup {NoReply}
      BY Zenon DEF DhtTypes, Message
<1>1. ASSUME CallTypes', UNCHANGED <<peer_info, routing_table, rpcVars, netVars>>
      PROVE  DhtTypes'
      BY <1>0, <1>1, TypesFrame, Zenon
<1>15. ASSUME call' = [Idle EXCEPT !.step = call.step + 1]
       PROVE  CallTypes'
  <2>1. call.step + 1 \in Nat \ {0} /\ Seed \in Id /\ Seed \in Target
        BY <1>0, DhtAssumption DEF CallTypes, Target
  <2> QED
        BY <1>15, <2>1, Zenon DEF Idle, CallTypes
<1>2. CASE Begin
  <2> DEFINE p == Program[call.step]
             target == IF p.op = "find_node" THEN p.node ELSE Key
  <2>1. Program \in Seq([op : {"find_node", "store", "find_value"}, node : Id])
        BY DhtAssumption, Zenon DEF DhtTypes, Program
  <2>2. call.step \in 1..Len(Program)
        BY <1>0, <1>2, <2>1, LenProperties DEF Begin, CallTypes
  <2>3. p.op \in {"find_node", "store", "find_value"} /\ p.node \in Id
    <3>1. p \in [op : {"find_node", "store", "find_value"}, node : Id]
          BY <2>1, <2>2, ElementOfSeq, Zenon
    <3> HIDE DEF p
    <3> QED
          BY <3>1, Zenon
  <2>4. target \in Target
        BY <2>3, Zenon DEF Target, Key, DhtTypes
  <2>5. Closest(routing_table[p.node], target, K) \subseteq Contact
        BY <1>0, <2>3, ClosestFacts, Zenon
  <2>6. call' = [call EXCEPT !.pc = "pick", !.op = p.op, !.node = p.node, !.target = target,
                             !.queried = {},
                             !.shortlist = Closest(routing_table[p.node], target, K)]
        BY <1>2, Zenon DEF Begin
  <2> HIDE DEF p, target
  <2>7. CallTypes'
        BY <1>0, <2>3, <2>4, <2>5, <2>6, Zenon DEF CallTypes
  <2> QED
        BY <1>1, <1>2, <2>7, Zenon DEF Begin
<1>3. CASE Exhausted
  <2>1. CASE call.op = "store"
    <3>1. Closest(call.shortlist, call.target, K) \subseteq Contact
          BY <1>0, ClosestFacts, Zenon DEF CallTypes
    <3>2. CallTypes'
          BY <1>0, <1>3, <2>1, <3>1, ZenonT(30) DEF Exhausted, CallTypes
    <3> QED
          BY <1>1, <1>3, <3>2, Zenon DEF Exhausted
  <2>2. CASE call.op # "store"
    <3>1. CallTypes'
          BY <1>3, <1>15, <2>2, Zenon DEF Exhausted, Finish
    <3> QED
          BY <1>1, <1>3, <3>1, Zenon DEF Exhausted
  <2> QED
        BY <2>1, <2>2, Zenon
<1>4. CASE Pick
  <2>1. CallTypes'
        BY <1>0, <1>4, Zenon DEF Pick, CallTypes
  <2> QED
        BY <1>1, <1>4, <2>1, Zenon DEF Pick
<1>5. CASE AlreadyConnected
  <2>1. CallTypes'
        BY <1>0, <1>5, Zenon DEF AlreadyConnected, CallTypes
  <2> QED
        BY <1>1, <1>5, <2>1, Zenon DEF AlreadyConnected
<1>6. CASE Connect
  <2>1. CallTypes'
        BY <1>0, <1>6 DEF Connect, CallTypes
  <2> QED
        BY <1>1, <1>6, <2>1, Zenon DEF Connect
<1>7. ASSUME call' = Continue, call.pc # "start"
      PROVE  CallTypes'
      BY <1>0, <1>7, Zenon DEF Continue, CallTypes
<1>8. CASE ConnectFails
  <2>1. call' = Continue /\ call.pc # "start"
        BY <1>8, Zenon DEF ConnectFails
  <2> QED
        BY <1>1, <1>7, <1>8, <2>1, Zenon DEF ConnectFails
<1>9. CASE Connected
  <2>1. call.link \in Link /\ call.link.from = call.node /\ call.node \in Id
        BY <1>0, <1>9, Zenon DEF Connected, CallTypes
  <2>2. CallTypes'
        BY <1>0, <1>9, Zenon DEF Connected, CallTypes
  <2>3. AddContact(routing_table[call.node], call.node, KnownPeer(call.node, call.link))
            \subseteq Contact
        BY <1>0, <2>1, KnownPeerFacts, AddContactFacts, Zenon
  <2>4. routing_table' \in [Id -> SUBSET Contact]
        BY <1>0, <1>9, <2>1, <2>3, Zenon DEF Connected
  <2>5. UNCHANGED <<peer_info, rpcVars, netVars>>
        BY <1>9, Zenon DEF Connected
  <2> QED
        BY <1>0, <2>2, <2>4, <2>5, TypesFrame, Zenon
<1>10. CASE Rpc
  <2>1. PICK l \in Route(call.node, call.contact.addr) :
            /\ NextId(call.node)
            /\ pending_rpcs' = [pending_rpcs EXCEPT ![call.node] = @ \cup {next_rpc_id[call.node]}]
            /\ reply' = NoReply
            /\ wire' = [wire EXCEPT ![<<Peer(call.node, l), l>>] = Append(@, Request)]
            /\ call' = [call EXCEPT !.pc = "await", !.request = Request, !.link = l]
        BY <1>10, Zenon DEF Rpc
  <2>2. call.node \in Id /\ <<call.node, l>> \in End
        BY <1>0, RouteFacts, Zenon DEF CallTypes
  <2>3. <<Peer(call.node, l), l>> \in End
        BY <2>2, EndFacts, Zenon
  <2>4. Request \in RequestMessage
        BY <1>10, RequestFacts, Zenon DEF Rpc
  <2>5. wire' \in [End -> Seq(Message)]
        BY <1>0, <2>1, <2>3, <2>4, WireAppend, Zenon DEF Arrives, Message
  <2>6. CallTypes'
    <3>1. call.op # "none"
          BY <1>0, <1>10, Zenon DEF Rpc, CallTypes
    <3> QED
          BY <1>0, <2>1, <2>4, <3>1, Zenon DEF CallTypes
  <2>7. next_rpc_id' \in [Id -> Nat] /\ pending_rpcs' \in [Id -> SUBSET Nat]
        BY <1>0, <2>1, <2>2 DEF NextId
  <2>8. UNCHANGED <<peer_info, routing_table, endVars, hooks>>
        BY <1>10, Zenon DEF Rpc
  <2> QED
        BY <1>0, <2>1, <2>5, <2>6, <2>7, <2>8, TypesFrame, Zenon
<1>11. CASE RpcNotSent
  <2>1. call' = Continue /\ call.pc # "start"
        BY <1>11, Zenon DEF RpcNotSent
  <2>2. CallTypes'
        BY <1>7, <2>1, Zenon
  <2>3. next_rpc_id' \in [Id -> Nat]
        BY <1>0, <1>11 DEF RpcNotSent, NextId, CallTypes
  <2>4. UNCHANGED <<peer_info, routing_table, pending_rpcs, reply, netVars>>
        BY <1>11, Zenon DEF RpcNotSent
  <2> QED
        BY <1>0, <2>2, <2>3, <2>4, TypesFrame, Zenon
<1>12. CASE TimedOut
  <2>1. CallTypes'
        BY <1>0, <1>12, Zenon DEF TimedOut, CallTypes
  <2> QED
        BY <1>1, <1>12, <2>1, Zenon DEF TimedOut
<1>13. CASE GiveUp
  <2>1. call' = Continue /\ call.pc # "start"
        BY <1>13, Zenon DEF GiveUp
  <2>2. CallTypes'
        BY <1>7, <2>1, Zenon
  <2>3. pending_rpcs' \in [Id -> SUBSET Nat]
        BY <1>0, <1>13, Zenon DEF GiveUp, Reclaim, CallTypes
  <2>4. UNCHANGED <<peer_info, routing_table, next_rpc_id, reply, netVars>>
        BY <1>13, Zenon DEF GiveUp
  <2> QED
        BY <1>0, <2>2, <2>3, <2>4, TypesFrame, Zenon
<1>14. CASE Answered
  <2>1. reply \in ResponseMessage /\ call.node \in Id /\ call.pc = "await"
        BY <1>0, <1>14, Zenon DEF Answered, CallTypes
  <2>2. pending_rpcs' \in [Id -> SUBSET Nat] /\ reply' = NoReply
        BY <1>0, <1>14, Zenon DEF Answered, Reclaim, CallTypes
  <2>3. UNCHANGED <<peer_info, next_rpc_id, netVars>>
        BY <1>14, Zenon DEF Answered
  <2>4. CASE reply.kind # "StoreResult" /\ Absorb(reply.contacts)
    <3>1. reply.contacts \subseteq Contact
          BY <2>1, <2>4, MessageFields, Zenon
    <3>2. AddContact(routing_table[call.node], call.node, reply.contacts) \subseteq Contact
          BY <1>0, <2>1, <3>1, AddContactFacts, Zenon
    <3>3. AddContact(call.shortlist, call.node, reply.contacts) \subseteq Contact
          BY <1>0, <3>1, AddContactFacts, Zenon DEF CallTypes
    <3>4. routing_table' \in [Id -> SUBSET Contact]
          BY <1>0, <2>1, <2>4, <3>2, Zenon DEF Absorb
    <3>5. CallTypes'
      <4>1. call' = [Continue EXCEPT !.shortlist = AddContact(@, call.node, reply.contacts)]
            BY <2>4, Zenon DEF Absorb
      <4> QED
            BY <1>0, <2>1, <3>3, <4>1, Zenon DEF Continue, CallTypes
    <3> QED
          BY <1>0, <2>2, <2>3, <3>4, <3>5, TypesFrame, Zenon
  <2>5. CASE Finish("yes") /\ UNCHANGED routing_table
    <3>1. CallTypes'
          BY <1>15, <2>5, Zenon DEF Finish
    <3> QED
          BY <1>0, <2>2, <2>3, <2>5, <3>1, TypesFrame, Zenon
  <2>6. CASE call' = Continue /\ UNCHANGED routing_table
    <3>1. CallTypes'
          BY <1>7, <2>1, <2>6, Zenon
    <3> QED
          BY <1>0, <2>2, <2>3, <2>6, <3>1, TypesFrame, Zenon
  <2> QED
        BY <1>14, <2>4, <2>5, <2>6, Zenon DEF Answered
<1> QED
      BY <1>2, <1>3, <1>4, <1>5, <1>6, <1>8, <1>9, <1>10, <1>11, <1>12, <1>13, <1>14, Zenon DEF Main

\* The rpc that is waited for, if there is one, stays the one it was.
CallKept == \A i \in Id : InCall(i)' => InCall(i) /\ call'.request = call.request

\* A message stays traced while its rpc goes on, and when it ends.
LEMMA TracedFrame ==
    ASSUME DhtTypes, CallKept, \A i \in Id : next_rpc_id'[i] \in Nat /\ next_rpc_id[i] <= next_rpc_id'[i],
           NEW e \in End, NEW m \in Message, Traced(e, m)
    PROVE  Traced(e, m)'
<1>1. ASSUME NEW i \in Id, NEW q \in RequestMessage, Numbered(i, q)
      PROVE  Numbered(i, q)'
  <2>1. q.rpc_id \in Nat /\ next_rpc_id[i] \in Nat
        BY MessageFields, Zenon DEF DhtTypes
  <2>2. q.rpc_id < next_rpc_id'[i]
        BY <1>1, <2>1 DEF Numbered
  <2>3. InCall(i)' /\ q.rpc_id = call'.request.rpc_id => q = call'.request
        BY <1>1, Zenon DEF Numbered, CallKept
  <2> QED
        BY <2>2, <2>3, Zenon DEF Numbered
<1>2. e[1] \in Id /\ Peer(e[1], e[2]) \in Id
      BY EndFacts, Zenon
<1>3. CASE m \in RequestMessage
      BY <1>1, <1>2, <1>3, Zenon DEF Traced
<1>4. CASE m \notin RequestMessage
  <2>1. m.of \in RequestMessage
        BY <1>4, MessageFields, Zenon DEF Message
  <2> QED
        BY <1>1, <1>2, <1>4, <2>1, Zenon DEF Traced
<1> QED
      BY <1>3, <1>4, Zenon

\* The messages in flight are traced.
LEMMA InFlightTraced ==
    ASSUME DhtTypes, RpcsInv, NEW e \in End, NEW m, InFlight(e, m)
    PROVE  m \in Message /\ Traced(e, m)
<1>1. PICK j \in 1..Len(wire[e]) : wire[e][j] = m
      BY Zenon DEF InFlight
<1>2. wire[e] \in Seq(Message)
      BY Zenon DEF DhtTypes, Message
<1> QED
      BY <1>1, <1>2, ElementOfSeq, Zenon DEF RpcsInv

\* Each message in flight after a step is traced.
LEMMA WireTraced ==
    ASSUME wire' \in [End -> Seq(Message)],
           \A e \in End, m \in Message :
                (\E k \in 1..Len(wire'[e]) : wire'[e][k] = m) => Traced(e, m)'
    PROVE  (\A e \in End : \A k \in 1..Len(wire[e]) : Traced(e, wire[e][k]))'
<1>1. \A e \in End : \A k \in 1..Len(wire'[e]) : wire'[e][k] \in Message
      BY ElementOfSeq, Zenon
<1> QED
      BY <1>1, Zenon DEF Traced, Numbered, InCall

\* A step that puts one traced message on the wire leaves every message there traced.
LEMMA ArrivesTraced ==
    ASSUME DhtTypes, RpcsInv, NEW d \in End, NEW r \in Message, Arrives(d, r), Traced(d, r)',
           \A e \in End, m \in Message : Traced(e, m) => Traced(e, m)'
    PROVE  (\A e \in End : \A k \in 1..Len(wire[e]) : Traced(e, wire[e][k]))'
<1>1. ASSUME NEW e \in End, NEW m \in Message, NEW k \in 1..Len(wire'[e]), wire'[e][k] = m
      PROVE  Traced(e, m)'
  <2>1. CASE InFlight(e, m)
        BY <2>1, InFlightTraced, Zenon
  <2>2. CASE e = d /\ m = r
        BY <2>2, Zenon
  <2> QED
        BY <1>1, <2>1, <2>2, Zenon DEF Arrives
<1> QED
      BY <1>1, WireTraced, Zenon DEF Arrives

\* So does a step that puts none there.
LEMMA OldTraced ==
    ASSUME DhtTypes, RpcsInv, OldOnly,
           \A e \in End, m \in Message : Traced(e, m) => Traced(e, m)'
    PROVE  (\A e \in End : \A k \in 1..Len(wire[e]) : Traced(e, wire[e][k]))'
<1>1. ASSUME NEW e \in End, NEW m \in Message, NEW k \in 1..Len(wire'[e]), wire'[e][k] = m
      PROVE  Traced(e, m)'
      BY <1>1, InFlightTraced, Zenon DEF OldOnly
<1> QED
      BY <1>1, WireTraced, Zenon DEF OldOnly

\* A step that leaves the wire alone puts nothing new on it.
LEMMA WireSame ==
    ASSUME DhtTypes, UNCHANGED wire
    PROVE  OldOnly
      BY Zenon DEF DhtTypes, OldOnly, InFlight, Message

\* What the three handlers that answer have in common: the answer carries the number of the
\* request, it goes back where that came from, and its contacts are from the routing table.
LEMMA Answers ==
    ASSUME DhtTypes, NEW e \in up \cup closing,
           FindNode(e[1], e[2]) \/ Store(e[1], e[2]) \/ FindValue(e[1], e[2])
    PROVE  \E msg \in RequestMessage, r \in ResponseMessage :
              /\ e \in End /\ InFlight(e, msg) /\ r.rpc_id = msg.rpc_id /\ r.of = msg
              /\ Arrives(<<Peer(e[1], e[2]), e[2]>>, r)
              /\ r.kind # "StoreResult" => r.contacts \subseteq routing_table'[e[1]]
              /\ UNCHANGED <<peer_info, next_rpc_id, pending_rpcs, reply, call, broken, setup, up, closing>>
<1> USE DEF rpcVars, endVars, netVars
<1> DEFINE i == e[1]
           l == e[2]
           msg == Head(wire[<<i, l>>])
<1>1. /\ wire \in [End -> Seq(Message)] /\ up \subseteq End /\ closing \subseteq End
      /\ routing_table \in [Id -> SUBSET Contact]
      BY Zenon DEF DhtTypes, Message
<1>2. e \in End /\ e = <<i, l>> /\ i \in Id /\ l \in Link /\ Peer(i, l) \in Id
      BY <1>1, EndFacts, Zenon
<1>3. wire[<<i, l>>] # <<>> /\ msg.kind \in {"FindNode", "Store", "FindValue"}
      BY Zenon DEF FindNode, Store, FindValue, Reads
<1>4. /\ msg \in RequestMessage /\ msg.rpc_id \in Nat /\ InFlight(e, msg)
      /\ msg.kind = "FindNode" => msg.sender_id \in Id
      BY <1>1, <1>2, <1>3, HeadInFlight, MessageFields, Zenon DEF Message
<1>5. UNCHANGED <<peer_info, next_rpc_id, pending_rpcs, reply, call, broken, setup, up, closing>>
      BY Zenon DEF FindNode, Store, FindValue
<1>6. ASSUME NEW r \in ResponseMessage, r.rpc_id = msg.rpc_id, r.of = msg, Respond(i, l, r),
             r.kind # "StoreResult" => r.contacts \subseteq routing_table'[i]
      PROVE  \E q \in RequestMessage, x \in ResponseMessage :
              /\ e \in End /\ InFlight(e, q) /\ x.rpc_id = q.rpc_id /\ x.of = q
              /\ Arrives(<<Peer(e[1], e[2]), e[2]>>, x)
              /\ x.kind # "StoreResult" => x.contacts \subseteq routing_table'[e[1]]
              /\ UNCHANGED <<peer_info, next_rpc_id, pending_rpcs, reply, call, broken, setup, up, closing>>
  <2> HIDE DEF msg
  <2>1. r \in Message
        BY Zenon DEF Message
  <2>2. Arrives(<<Peer(i, l), l>>, r)
        BY <1>1, <1>2, <1>3, <1>6, <2>1, WireRespond, Zenon
  <2> QED
        BY <1>2, <1>4, <1>5, <1>6, <2>2, Zenon
<1>7. CASE FindNode(i, l)
  <2> DEFINE new == {[id |-> msg.sender_id, addr |-> SenderAddr(i, l)]}
             table == AddContact(routing_table[i], i, new)
             cs == Closest(table, msg.target, K)
             r == [kind |-> "FindNodeResult", rpc_id |-> msg.rpc_id, of |-> msg, contacts |-> cs]
  <2>1. Respond(i, l, r) /\ routing_table' = [routing_table EXCEPT ![i] = table]
        BY <1>7, Zenon DEF FindNode
  <2>2. new \subseteq Contact
    <3>1. msg.kind = "FindNode"
          BY <1>7, Zenon DEF FindNode, Reads
    <3>2. PICK s \in Id : s = msg.sender_id
          BY <1>4, <3>1, Zenon
    <3>3. SenderAddr(i, l) \in {Listening(n) : n \in Id} \cup {Ephemeral(k) : k \in Link}
          BY <1>2, Zenon DEF SenderAddr, AddrAt, Link
    <3> HIDE DEF msg
    <3> QED
          BY <3>2, <3>3 DEF Contact
  <2> HIDE DEF new
  <2>3. table \subseteq Contact
        BY <1>1, <1>2, <2>2, AddContactFacts, Zenon
  <2>4. cs \subseteq table /\ routing_table'[i] = table
        BY <1>1, <1>2, <2>1, ClosestFacts, Zenon
  <2> HIDE DEF cs, table, msg
  <2>5. r \in ResponseMessage /\ r.rpc_id = msg.rpc_id /\ r.of = msg /\ r.contacts = cs
        BY <1>4, <2>3, <2>4, Zenon DEF ResponseMessage
  <2> QED
        BY <1>6, <2>1, <2>4, <2>5, Zenon
<1>8. CASE Store(i, l)
  <2> DEFINE r == [kind |-> "StoreResult", rpc_id |-> msg.rpc_id, of |-> msg]
  <2>1. Respond(i, l, r)
        BY <1>8, Zenon DEF Store
  <2> HIDE DEF msg
  <2>2. r \in ResponseMessage /\ r.rpc_id = msg.rpc_id /\ r.of = msg /\ r.kind = "StoreResult"
        BY <1>4, Zenon DEF ResponseMessage
  <2> QED
        BY <1>6, <2>1, <2>2, Zenon
<1>9. CASE FindValue(i, l)
  <2> DEFINE cs == IF i \in storage THEN {} ELSE Closest(routing_table[i], msg.key, K)
             r == [kind |-> "FindValueResult", rpc_id |-> msg.rpc_id, of |-> msg,
                   value |-> i \in storage, contacts |-> cs]
  <2>1. Respond(i, l, r) /\ UNCHANGED routing_table
        BY <1>9, Zenon DEF FindValue
  <2>2. cs \subseteq routing_table'[i] /\ cs \subseteq Contact
        BY <1>1, <1>2, <2>1, ClosestFacts, Zenon
  <2> HIDE DEF cs, msg
  <2>3. (i \in storage) \in BOOLEAN
        OBVIOUS
  <2>4. r \in ResponseMessage /\ r.rpc_id = msg.rpc_id /\ r.of = msg /\ r.contacts = cs
        BY <1>4, <2>2, <2>3, Zenon DEF ResponseMessage
  <2> QED
        BY <1>6, <2>1, <2>2, <2>4, Zenon
<1> QED
      BY <1>7, <1>8, <1>9, Zenon

\* Requests and answers stay matched.
LEMMA NextRpcs ==
    ASSUME DhtInv, [DhtNext]_dhtAll
    PROVE  RpcsInv'
<1> USE DEF rpcVars, endVars, netVars
<1>0. /\ DhtTypes /\ RpcsInv /\ CallTypes
      /\ next_rpc_id \in [Id -> Nat] /\ pending_rpcs \in [Id -> SUBSET Nat]
      /\ wire \in [End -> Seq(Message)] /\ call.node \in Id
      /\ up \subseteq End /\ closing \subseteq End /\ hooks \subseteq End
      BY Zenon DEF DhtInv, DhtTypes, CallTypes, Message
<1>1. ASSUME OldOnly, UNCHANGED <<rpcVars, call>>
      PROVE  RpcsInv'
  <2>1. CallKept
        BY <1>1, Zenon DEF CallKept, InCall
  <2>2. \A e \in End, m \in Message : Traced(e, m) => Traced(e, m)'
        BY <1>0, <1>1, <2>1, TracedFrame
  <2>3. (\A e \in End : \A k \in 1..Len(wire[e]) : Traced(e, wire[e][k]))'
        BY <1>0, <1>1, <2>2, OldTraced, Zenon
  <2>4. reply' # NoReply => call'.pc = "await" /\ reply'.of = call'.request
        BY <1>0, <1>1, Zenon DEF RpcsInv
  <2>5. InCall(call.node)' => call'.request.rpc_id < next_rpc_id'[call'.node]
        BY <1>0, <1>1, Zenon DEF RpcsInv, InCall
  <2>6. \A i \in Id : \A n \in pending_rpcs'[i] : InCall(i)' /\ n = call'.request.rpc_id
        BY <1>0, <1>1, Zenon DEF RpcsInv, InCall
  <2> QED
        BY <2>3, <2>4, <2>5, <2>6, Zenon DEF RpcsInv, InCall
<1>2. ASSUME UNCHANGED wire, UNCHANGED reply, UNCHANGED pending_rpcs,
             next_rpc_id' \in [Id -> Nat], \A i \in Id : next_rpc_id[i] <= next_rpc_id'[i],
             call.pc \notin {"await", "timed_out"}, call'.pc \notin {"await", "timed_out"}
      PROVE  RpcsInv'
  <2>1. CallKept
        BY <1>2, Zenon DEF CallKept, InCall
  <2>2. \A e \in End, m \in Message : Traced(e, m) => Traced(e, m)'
        BY <1>0, <1>2, <2>1, TracedFrame, Zenon
  <2>3. (\A e \in End : \A k \in 1..Len(wire[e]) : Traced(e, wire[e][k]))'
        BY <1>0, <1>2, <2>2, WireSame, OldTraced, Zenon
  <2>4. reply' = NoReply /\ \A i \in Id : pending_rpcs'[i] = {}
        BY <1>0, <1>2, Zenon DEF RpcsInv, InCall
  <2>5. ~InCall(call.node)'
        BY <1>2, Zenon DEF InCall
  <2> QED
        BY <2>3, <2>4, <2>5, Zenon DEF RpcsInv, InCall
<1>3. ASSUME NEW l \in Link, HandshakeAccepted(l) \/ Accepted(l) \/ LinkBreaks(l)
      PROVE  RpcsInv'
  <2>1. UNCHANGED <<rpcVars, call, wire>>
        BY <1>3, Zenon DEF HandshakeAccepted, Accepted, LinkBreaks
  <2> QED
        BY <1>0, <1>1, <2>1, WireSame, Zenon
<1>4. ASSUME NEW e, OnConnect(e[1], e[2]) \/ OnDisconnect(e[1], e[2])
      PROVE  RpcsInv'
  <2>1. UNCHANGED <<rpcVars, call, wire>>
        BY <1>4, Zenon DEF OnConnect, OnDisconnect
  <2> QED
        BY <1>0, <1>1, <2>1, WireSame, Zenon
<1>5. ASSUME NEW e \in up \cup closing \cup hooks, Removed(e[1], e[2])
      PROVE  RpcsInv'
  <2>1. <<e[1], e[2]>> \in End
        BY <1>0, EndFacts, Zenon
  <2>2. wire' = [wire EXCEPT ![<<e[1], e[2]>>] = <<>>] /\ UNCHANGED <<rpcVars, call>>
        BY <1>5, Zenon DEF Removed
  <2>3. OldOnly
        BY <1>0, <2>1, <2>2, WireClear, Zenon
  <2> QED
        BY <1>1, <2>2, <2>3, Zenon
<1>6. ASSUME NEW l \in Link, HandshakeDialed(l)
      PROVE  RpcsInv'
  <2>1. call.pc = "connecting" /\ call'.pc = "connected" /\ UNCHANGED <<rpcVars, wire>>
        BY <1>0, <1>6, Zenon DEF HandshakeDialed, CallTypes
  <2> QED
        BY <1>0, <1>2, <2>1
<1>7. ASSUME NEW e \in up \cup closing,
             FindNode(e[1], e[2]) \/ Store(e[1], e[2]) \/ FindValue(e[1], e[2])
      PROVE  RpcsInv'
  <2> DEFINE d == <<Peer(e[1], e[2]), e[2]>>
  <2>1. PICK msg \in RequestMessage, r \in ResponseMessage :
              /\ e \in End /\ InFlight(e, msg) /\ r.rpc_id = msg.rpc_id /\ r.of = msg
              /\ Arrives(d, r)
              /\ UNCHANGED <<next_rpc_id, pending_rpcs, reply, call>>
        BY <1>0, <1>7, Answers, Zenon
  <2>2. r \in Message /\ r \notin RequestMessage
        BY MessageFields, Zenon DEF Message
  <2>3. d \in End /\ d[1] = Peer(e[1], e[2])
        BY <2>1, EndFacts, Zenon
  <2>4. Numbered(d[1], msg)
        BY <1>0, <2>1, <2>3, InFlightTraced, Zenon DEF Traced
  <2>5. Traced(d, r)
        BY <2>1, <2>2, <2>4, Zenon DEF Traced
  <2>6. CallKept
        BY <2>1, Zenon DEF CallKept, InCall
  <2> HIDE DEF d
  <2>7. \A x \in End, m \in Message : Traced(x, m) => Traced(x, m)'
        BY <1>0, <2>1, <2>6, TracedFrame
  <2>8. (\A x \in End : \A k \in 1..Len(wire[x]) : Traced(x, wire[x][k]))'
        BY <1>0, <2>1, <2>2, <2>3, <2>5, <2>7, ArrivesTraced, Zenon
  <2>9. reply' # NoReply => call'.pc = "await" /\ reply'.of = call'.request
        BY <1>0, <2>1, Zenon DEF RpcsInv
  <2>10. InCall(call.node)' => call'.request.rpc_id < next_rpc_id'[call'.node]
        BY <1>0, <2>1, Zenon DEF RpcsInv, InCall
  <2>11. \A i \in Id : \A n \in pending_rpcs'[i] : InCall(i)' /\ n = call'.request.rpc_id
        BY <1>0, <2>1, Zenon DEF RpcsInv, InCall
  <2> QED
        BY <2>8, <2>9, <2>10, <2>11, Zenon DEF RpcsInv, InCall
<1>8. ASSUME NEW e \in up \cup closing, Response(e[1], e[2])
      PROVE  RpcsInv'
  <2> DEFINE msg == Head(wire[<<e[1], e[2]>>])
  <2>1. e \in End /\ e = <<e[1], e[2]>> /\ e[1] \in Id
        BY <1>0, EndFacts, Zenon
  <2>2. /\ wire[e] # <<>> /\ wire' = [wire EXCEPT ![e] = Tail(@)]
        /\ msg.kind \in {"FindNodeResult", "StoreResult", "FindValueResult"}
        /\ pending_rpcs' = [pending_rpcs EXCEPT ![e[1]] = @ \ {msg.rpc_id}]
        /\ reply' = IF msg.rpc_id \in pending_rpcs[e[1]] /\ call.pc = "await" THEN msg ELSE reply
        /\ UNCHANGED <<next_rpc_id, call>>
        BY <1>8, <2>1, Zenon DEF Response, Reads
  <2>3. /\ msg \in ResponseMessage /\ msg \in Message /\ msg \notin RequestMessage
        /\ InFlight(e, msg)
        BY <1>0, <2>1, <2>2, HeadInFlight, MessageFields, Zenon DEF Message
  <2> HIDE DEF msg
  <2>4. msg.rpc_id = msg.of.rpc_id /\ Numbered(e[1], msg.of)
        BY <1>0, <2>1, <2>3, InFlightTraced, Zenon DEF Traced
  <2>5. msg.rpc_id \in pending_rpcs[e[1]] => msg.of = call.request
        BY <1>0, <2>1, <2>4, Zenon DEF RpcsInv, Numbered
  <2>6. OldOnly
        BY <1>0, <2>1, <2>2, WireTail, Zenon
  <2>7. CallKept
        BY <2>2, Zenon DEF CallKept, InCall
  <2>8. \A x \in End, m \in Message : Traced(x, m) => Traced(x, m)'
        BY <1>0, <2>2, <2>7, TracedFrame
  <2>9. (\A x \in End : \A k \in 1..Len(wire[x]) : Traced(x, wire[x][k]))'
        BY <1>0, <2>6, <2>8, OldTraced, Zenon
  <2>10. reply' # NoReply => call'.pc = "await" /\ reply'.of = call'.request
        BY <1>0, <2>2, <2>5, Zenon DEF RpcsInv
  <2>11. InCall(call.node)' => call'.request.rpc_id < next_rpc_id'[call'.node]
        BY <1>0, <2>2, Zenon DEF RpcsInv, InCall
  <2>12. \A i \in Id : \A n \in pending_rpcs'[i] : InCall(i)' /\ n = call'.request.rpc_id
        BY <1>0, <2>1, <2>2, Zenon DEF RpcsInv, InCall
  <2> QED
        BY <2>9, <2>10, <2>11, <2>12, Zenon DEF RpcsInv, InCall
<1>9. ASSUME Begin \/ Exhausted \/ Pick \/ AlreadyConnected \/ Connect \/ ConnectFails \/ Connected
      PROVE  RpcsInv'
  <2>1. UNCHANGED <<rpcVars, wire>>
        BY <1>9, Zenon DEF Begin, Exhausted, Pick, AlreadyConnected, Connect, ConnectFails, Connected
  <2>2. call.pc \in {"start", "pick", "ensure", "connecting", "connected"}
        BY <1>9, Zenon DEF Begin, Exhausted, Pick, AlreadyConnected, Connect, ConnectFails, Connected
  <2>3. call'.pc \notin {"await", "timed_out"}
        BY <1>0, <1>9, <2>2, ZenonT(30) DEF Begin, Exhausted, Pick, AlreadyConnected, Connect, ConnectFails,
                                Connected, Finish, Idle, Continue, CallTypes
  <2> QED
        BY <1>0, <1>2, <2>1, <2>2, <2>3
<1>10. CASE Rpc
  <2> DEFINE i == call.node
  <2>1. PICK l \in Route(i, call.contact.addr) :
              /\ NextId(i)
              /\ pending_rpcs' = [pending_rpcs EXCEPT ![i] = @ \cup {next_rpc_id[i]}]
              /\ reply' = NoReply
              /\ wire' = [wire EXCEPT ![<<Peer(i, l), l>>] = Append(@, Request)]
              /\ call' = [call EXCEPT !.pc = "await", !.request = Request, !.link = l]
        BY <1>10, Zenon DEF Rpc
  <2> DEFINE d == <<Peer(i, l), l>>
  <2>2. call.pc = "send"
        BY <1>10, Zenon DEF Rpc
  <2>3. <<i, l>> \in End
        BY <1>0, <2>1, RouteFacts, Zenon
  <2>4. d \in End /\ Peer(d[1], d[2]) = i
    <3> DEFINE e == <<i, l>>
    <3>1. e \in End /\ e[1] = i /\ e[2] = l
          BY <2>3, Zenon
    <3> HIDE DEF e
    <3>2. <<Peer(e[1], e[2]), e[2]>> \in End /\ Peer(Peer(e[1], e[2]), e[2]) = e[1]
          BY <3>1, EndFacts, Zenon
    <3> QED
          BY <3>1, <3>2, Zenon
  <2>5. Request \in RequestMessage /\ Request.rpc_id = next_rpc_id[i] /\ Request \in Message
        BY <1>0, <2>2, RequestFacts, Zenon DEF Message
  <2>6. /\ call'.pc = "await" /\ call'.request = Request /\ call'.node = i
        /\ next_rpc_id' = [next_rpc_id EXCEPT ![i] = @ + 1]
        BY <1>0, <2>1, Zenon DEF CallTypes, NextId
  <2>7. Arrives(d, Request)
        BY <1>0, <2>1, <2>4, <2>5, WireAppend, Zenon
  <2>8. next_rpc_id' \in [Id -> Nat] /\ next_rpc_id[i] \in Nat /\ i \in Id
        /\ next_rpc_id'[i] = next_rpc_id[i] + 1 /\ \A j \in Id : j # i => next_rpc_id'[j] = next_rpc_id[j]
        BY <1>0, <2>6
  <2>9. PICK dest, req : dest = d /\ req = Request
        BY Zenon
  <2>10. Traced(dest, req)'
        BY <2>4, <2>5, <2>6, <2>8, <2>9 DEF Traced, Numbered, InCall
  <2>11. \A x \in End, m \in Message : Traced(x, m) => Traced(x, m)'
    <3>1. ASSUME NEW j \in Id, NEW m \in RequestMessage, Numbered(j, m)
          PROVE  Numbered(j, m)'
      <4>1. m.rpc_id \in Nat /\ m.rpc_id < next_rpc_id[j] /\ next_rpc_id[j] \in Nat
            BY <1>0, <3>1, MessageFields, Zenon DEF Numbered
      <4>2. CASE j = i
            BY <2>5, <2>6, <2>8, <4>1, <4>2 DEF Numbered, InCall
      <4>3. CASE j # i
            BY <2>6, <2>8, <4>1, <4>3, Zenon DEF Numbered, InCall
      <4> QED
            BY <4>2, <4>3, Zenon
    <3>2. ASSUME NEW x \in End, NEW m \in Message, Traced(x, m)
          PROVE  Traced(x, m)'
      <4>1. x[1] \in Id /\ Peer(x[1], x[2]) \in Id
            BY EndFacts, Zenon
      <4>2. CASE m \in RequestMessage
            BY <3>1, <3>2, <4>1, <4>2, Zenon DEF Traced
      <4>3. CASE m \notin RequestMessage
        <5>1. m.of \in RequestMessage
              BY <4>3, MessageFields, Zenon DEF Message
        <5> QED
              BY <3>1, <3>2, <4>1, <4>3, <5>1, Zenon DEF Traced
      <4> QED
            BY <4>2, <4>3, Zenon
    <3> QED
          BY <3>2, Zenon
  <2>12. (\A x \in End : \A k \in 1..Len(wire[x]) : Traced(x, wire[x][k]))'
    <3>1. dest \in End /\ req \in Message /\ Arrives(dest, req)
          BY <2>4, <2>5, <2>7, <2>9, Zenon
    <3> QED
          BY <1>0, <2>10, <2>11, <3>1, ArrivesTraced, Zenon
  <2>13. \A j \in Id : pending_rpcs[j] = {}
        BY <1>0, <2>2, Zenon DEF RpcsInv, InCall
  <2>14. \A j \in Id : \A n \in pending_rpcs'[j] : InCall(j)' /\ n = call'.request.rpc_id
        BY <1>0, <2>1, <2>5, <2>6, <2>13, Zenon DEF InCall
  <2>15. call'.request.rpc_id < next_rpc_id'[call'.node]
        BY <2>5, <2>6, <2>8
  <2> QED
        BY <2>1, <2>12, <2>14, <2>15, Zenon DEF RpcsInv, InCall
<1>11. CASE RpcNotSent
  <2>1. UNCHANGED <<wire, reply, pending_rpcs>> /\ call.pc = "send" /\ call'.pc = "pick"
        BY <1>0, <1>11, Zenon DEF RpcNotSent, Continue, CallTypes
  <2>2. next_rpc_id' = [next_rpc_id EXCEPT ![call.node] = @ + 1]
        BY <1>11, Zenon DEF RpcNotSent, NextId
  <2>3. next_rpc_id' \in [Id -> Nat] /\ \A i \in Id : next_rpc_id[i] <= next_rpc_id'[i]
        BY <1>0, <2>2
  <2> QED
        BY <1>0, <1>2, <2>1, <2>3, Zenon
<1>12. ASSUME UNCHANGED wire, UNCHANGED next_rpc_id, reply' = NoReply, CallKept, call'.node \in Id,
             \A i \in Id : pending_rpcs'[i] \subseteq pending_rpcs[i]
                           /\ (pending_rpcs'[i] # {} => InCall(i)' /\ call'.request = call.request)
      PROVE  RpcsInv'
  <2>1. \A e \in End, m \in Message : Traced(e, m) => Traced(e, m)'
        BY <1>0, <1>12, TracedFrame
  <2>2. (\A e \in End : \A k \in 1..Len(wire[e]) : Traced(e, wire[e][k]))'
        BY <1>0, <1>12, <2>1, WireSame, OldTraced, Zenon
  <2>3. InCall(call.node)' => call'.request.rpc_id < next_rpc_id'[call'.node]
        BY <1>0, <1>12, Zenon DEF RpcsInv, InCall, CallKept
  <2>4. \A i \in Id : \A n \in pending_rpcs'[i] : InCall(i)' /\ n = call'.request.rpc_id
        BY <1>0, <1>12, Zenon DEF RpcsInv
  <2> QED
        BY <1>12, <2>2, <2>3, <2>4, Zenon DEF RpcsInv, InCall
<1>13. CASE TimedOut
  <2>1. /\ call.pc = "await" /\ call'.pc = "timed_out" /\ call'.request = call.request
        /\ call'.node = call.node
        /\ UNCHANGED <<wire, next_rpc_id, pending_rpcs>> /\ reply' = NoReply
        BY <1>0, <1>13, Zenon DEF TimedOut, CallTypes
  <2>2. CallKept
        BY <2>1, Zenon DEF CallKept, InCall
  <2>3. \A i \in Id : pending_rpcs'[i] # {} => InCall(i)' /\ call'.request = call.request
        BY <1>0, <2>1, Zenon DEF RpcsInv, InCall
  <2> QED
        BY <1>0, <1>12, <2>1, <2>2, <2>3, Zenon
<1>14. CASE GiveUp \/ Answered
  <2>1. Reclaim /\ UNCHANGED <<wire, next_rpc_id>>
        BY <1>14, Zenon DEF GiveUp, Answered
  <2>2. call.pc \in {"await", "timed_out"} /\ reply' = NoReply
        BY <1>0, <1>14, Zenon DEF GiveUp, Answered, RpcsInv
  <2>3. call'.pc \notin {"await", "timed_out"} /\ call'.node \in Id
    <3>1. CASE call' = Continue
          BY <1>0, <3>1, Zenon DEF Continue, CallTypes
    <3>2. CASE \E cs : call' = [Continue EXCEPT !.shortlist = AddContact(@, call.node, cs)]
          BY <1>0, <3>2, Zenon DEF Continue, CallTypes
    <3>3. CASE call' = [Idle EXCEPT !.step = call.step + 1]
          BY <3>3, DhtAssumption, Zenon DEF Idle
    <3> QED
          BY <1>14, <3>1, <3>2, <3>3, Zenon DEF GiveUp, Answered, Absorb, Finish
  <2>4. CallKept
        BY <2>3, Zenon DEF CallKept, InCall
  <2>5. \A i \in Id : pending_rpcs'[i] = {}
        BY <1>0, <2>1, Zenon DEF Reclaim, RpcsInv, InCall
  <2> QED
        BY <1>12, <2>1, <2>2, <2>3, <2>4, <2>5, Zenon
<1>15. CASE UNCHANGED dhtAll
  <2>1. UNCHANGED <<rpcVars, call, wire>>
        BY <1>15, Zenon DEF dhtAll, dhtVars
  <2> QED
        BY <1>0, <1>1, <2>1, WireSame, Zenon
<1> QED
      BY <1>3, <1>4, <1>5, <1>6, <1>7, <1>8, <1>9, <1>10, <1>11, <1>13, <1>14, <1>15, Zenon
      DEF DhtNext, Main, Net

\* Each message in flight after a step is honest.
LEMMA WireHonest ==
    ASSUME wire' \in [End -> Seq(Message)],
           \A e \in End, m \in Message :
                (\E k \in 1..Len(wire'[e]) : wire'[e][k] = m) => Honest(e, m)'
    PROVE  (\A e \in End : \A k \in 1..Len(wire[e]) : Honest(e, wire[e][k]))'
<1>1. \A e \in End : \A k \in 1..Len(wire'[e]) : wire'[e][k] \in Message
      BY ElementOfSeq, Zenon
<1> QED
      BY <1>1, Zenon DEF Honest, OneEach, Reachable

\* The messages in flight are honest.
LEMMA InFlightHonest ==
    ASSUME ContactsInv, NEW e \in End, NEW m, InFlight(e, m)
    PROVE  Honest(e, m)
      BY Zenon DEF InFlight, ContactsInv

\* What is reachable stays so while streams break and none is mended.
LEMMA ReachableKept ==
    ASSUME broken \subseteq broken', NEW contacts, Reachable(contacts)
    PROVE  Reachable(contacts)'
      BY Zenon DEF Reachable

\* A message stays honest as more links break.
LEMMA HonestKept ==
    ASSUME broken \subseteq broken', NEW e, NEW m, Honest(e, m)
    PROVE  Honest(e, m)'
<1>1. \A contacts : Reachable(contacts) => Reachable(contacts)'
      BY ReachableKept, Zenon
<1> QED
      BY <1>1, Zenon DEF Honest, OneEach

\* A step that puts one honest message on the wire leaves every message there honest.
LEMMA ArrivesHonest ==
    ASSUME ContactsInv, broken \subseteq broken',
           NEW d \in End, NEW r \in Message, Arrives(d, r), Honest(d, r)'
    PROVE  (\A e \in End : \A k \in 1..Len(wire[e]) : Honest(e, wire[e][k]))'
<1>1. ASSUME NEW e \in End, NEW m \in Message, NEW k \in 1..Len(wire'[e]), wire'[e][k] = m
      PROVE  Honest(e, m)'
  <2>1. CASE InFlight(e, m)
        BY <2>1, InFlightHonest, HonestKept, Zenon
  <2>2. CASE e = d /\ m = r
        BY <2>2, Zenon
  <2> QED
        BY <1>1, <2>1, <2>2, Zenon DEF Arrives
<1> QED
      BY <1>1, WireHonest, Zenon DEF Arrives

\* So does a step that puts none there.
LEMMA OldHonest ==
    ASSUME ContactsInv, broken \subseteq broken', OldOnly
    PROVE  (\A e \in End : \A k \in 1..Len(wire[e]) : Honest(e, wire[e][k]))'
<1>1. ASSUME NEW e \in End, NEW m \in Message, NEW k \in 1..Len(wire'[e]), wire'[e][k] = m
      PROVE  Honest(e, m)'
      BY <1>1, InFlightHonest, HonestKept, Zenon DEF OldOnly
<1> QED
      BY <1>1, WireHonest, Zenon DEF OldOnly

\* A routing table is sound.
SoundTable(i, table) ==
    OneEach(table) /\ Reachable(table) /\ \A c \in table : c.id # i

\* The parts of ContactsInv after a step, put together.
LEMMA ContactsFrame ==
    ASSUME ContactsInv, DhtTypes, broken \subseteq broken', EntriesKept',
           \A i \in Id : \E table : table = routing_table'[i] /\ SoundTable(i, table)',
           OneEach(call'.shortlist), OldOnly,
           reply' \in {reply, NoReply}
    PROVE  ContactsInv'
<1>1. \A i \in Id : /\ OneEach(routing_table[i])' /\ Reachable(routing_table[i])'
                    /\ \A c \in routing_table'[i] : c.id # i
      BY DEF SoundTable, OneEach, Reachable
<1>2. (reply # NoReply /\ reply.kind \in {"FindNodeResult", "FindValueResult"} =>
        OneEach(reply.contacts) /\ Reachable(reply.contacts))'
      BY Zenon DEF ContactsInv, OneEach, Reachable
<1>3. (\A e \in End : \A k \in 1..Len(wire[e]) : Honest(e, wire[e][k]))'
      BY OldHonest, Zenon
<1>4. OneEach(call.shortlist)'
      BY Zenon DEF OneEach
<1> QED
      BY <1>1, <1>2, <1>3, <1>4, Zenon DEF ContactsInv

\* Contacts stay sound.
LEMMA NextContacts ==
    ASSUME DhtInv, [DhtNext]_dhtAll
    PROVE  ContactsInv'
<1> USE DEF rpcVars, endVars, netVars
<1>0. /\ DhtTypes /\ ContactsInv /\ EntriesKept /\ CallTypes
      /\ peer_info \in [Id -> SUBSET Link] /\ routing_table \in [Id -> SUBSET Contact]
      /\ \A i \in Id : \A l \in peer_info[i] : i \in {l.from, l.to}
      /\ wire \in [End -> Seq(Message)] /\ call.node \in Id
      /\ setup \subseteq End /\ up \subseteq End /\ closing \subseteq End /\ hooks \subseteq End
      /\ OneEach(call.shortlist)
      /\ \A i \in Id : SoundTable(i, routing_table[i])
      BY Zenon DEF DhtInv, DhtTypes, CallTypes, Message, ContactsInv, SoundTable
<1> DEFINE Tables == \A i \in Id : \E table : table = routing_table'[i] /\ SoundTable(i, table)'
<1>1. ASSUME broken \subseteq broken', NEW i, NEW t, SoundTable(i, t)
      PROVE  SoundTable(i, t)'
      BY <1>1, ReachableKept, Zenon DEF SoundTable, OneEach
<1>2. ASSUME broken \subseteq broken', UNCHANGED routing_table
      PROVE  Tables
      BY <1>0, <1>1, <1>2, Zenon
<1>3. ASSUME broken \subseteq broken', NEW i \in Id, NEW t, SoundTable(i, t),
             routing_table' = [routing_table EXCEPT ![i] = t]
      PROVE  Tables
  <2>1. ASSUME NEW j \in Id
        PROVE  \E table : table = routing_table'[j] /\ SoundTable(j, table)'
    <3>1. CASE j = i
          BY <1>0, <1>1, <1>3, <3>1, Zenon
    <3>2. CASE j # i
          BY <1>0, <1>1, <1>3, <3>2, Zenon
    <3> QED
          BY <3>1, <3>2, Zenon
  <2> QED
        BY <2>1, Zenon
<1>4. ASSUME NEW i \in Id, NEW contacts, OneEach(contacts), Reachable(contacts)
      PROVE  SoundTable(i, AddContact(routing_table[i], i, contacts))
      BY <1>0, <1>4, AddContactFacts, Zenon DEF SoundTable
<1> HIDE DEF Tables
<1>5. ASSUME broken \subseteq broken', EntriesKept', Tables, OldOnly, OneEach(call'.shortlist),
             reply' \in {reply, NoReply}
      PROVE  ContactsInv'
      BY <1>0, <1>5, ContactsFrame, Zenon DEF Tables
<1>6. ASSUME NEW l \in Link, HandshakeAccepted(l)
      PROVE  ContactsInv'
  <2>1. /\ peer_info' = [peer_info EXCEPT ![l.to] = @ \cup {l}]
        /\ setup' = setup \cup {<<l.to, l>>} /\ <<l.to, l>> \notin up
        /\ UNCHANGED <<routing_table, rpcVars, up, closing, wire, broken, call>>
        BY <1>6, Zenon DEF HandshakeAccepted
  <2>2. EntriesKept'
    <3>1. \A i \in Id : peer_info[i] \subseteq peer_info'[i]
          BY <1>0, <2>1, Zenon
    <3>2. l.to \in Id /\ l \in peer_info'[l.to]
          BY <1>0, <2>1, LinkEnds, Zenon
    <3>3. \A x \in setup \cup up : x[1] \in Id
          BY <1>0, EndFacts, Zenon
    <3> QED
          BY <1>0, <2>1, <3>1, <3>2, <3>3 DEF EntriesKept
  <2> QED
        BY <1>0, <1>2, <1>5, <2>1, <2>2, WireSame, Zenon
<1>7. ASSUME NEW l \in Link, Accepted(l)
      PROVE  ContactsInv'
  <2>1. /\ <<l.to, l>> \in setup /\ setup' = setup \ {<<l.to, l>>} /\ up' = up \cup {<<l.to, l>>}
        /\ UNCHANGED <<peer_info, routing_table, rpcVars, closing, wire, broken, call>>
        BY <1>7, Zenon DEF Accepted
  <2>2. EntriesKept'
        BY <1>0, <2>1, Zenon DEF EntriesKept
  <2> QED
        BY <1>0, <1>2, <1>5, <2>1, <2>2, WireSame, Zenon
<1>8. ASSUME NEW l \in Link, HandshakeDialed(l)
      PROVE  ContactsInv'
  <2>1. /\ peer_info' = [peer_info EXCEPT ![l.from] = @ \cup {l}] /\ up' = up \cup {<<l.from, l>>}
        /\ UNCHANGED <<routing_table, rpcVars, setup, closing, wire, broken>>
        /\ call' = [call EXCEPT !.pc = "connected"]
        BY <1>8, Zenon DEF HandshakeDialed
  <2>2. EntriesKept'
    <3>1. \A i \in Id : peer_info[i] \subseteq peer_info'[i]
          BY <1>0, <2>1, Zenon
    <3>2. l.from \in Id /\ l \in peer_info'[l.from] /\ l.from # l.to
          BY <1>0, <2>1, LinkEnds, Zenon
    <3>3. \A x \in setup \cup up : x[1] \in Id
          BY <1>0, EndFacts, Zenon
    <3> QED
          BY <1>0, <2>1, <3>1, <3>2, <3>3 DEF EntriesKept
  <2>3. call'.shortlist = call.shortlist
        BY <1>0, <2>1, Zenon DEF CallTypes
  <2> QED
        BY <1>0, <1>2, <1>5, <2>1, <2>2, <2>3, WireSame, Zenon
<1>9. ASSUME NEW e \in up \cup closing \cup hooks, OnConnect(e[1], e[2])
      PROVE  ContactsInv'
  <2>1. e[1] \in Id /\ e[2] \in Link /\ e[1] \in {e[2].from, e[2].to}
        BY <1>0, EndFacts, Zenon
  <2>2. PICK t : t = AddContact(routing_table[e[1]], e[1], KnownPeer(e[1], e[2]))
        BY Zenon
  <2>3. SoundTable(e[1], t)
        BY <1>0, <1>4, <2>1, <2>2, KnownPeerFacts, Zenon
  <2>4. /\ routing_table' = [routing_table EXCEPT ![e[1]] = t]
        /\ UNCHANGED <<peer_info, rpcVars, endVars, wire, broken, call>>
        BY <1>9, <2>2, Zenon DEF OnConnect
  <2>5. EntriesKept'
        BY <1>0, <2>4, Zenon DEF EntriesKept
  <2>6. Tables
        BY <1>3, <2>1, <2>3, <2>4, Zenon
  <2> QED
        BY <1>0, <1>5, <2>4, <2>5, <2>6, WireSame, Zenon
<1>10. ASSUME NEW e \in up \cup closing \cup hooks, OnDisconnect(e[1], e[2])
      PROVE  ContactsInv'
  <2>1. e \in End /\ e = <<e[1], e[2]>> /\ e[1] \in Id /\ e[2] \in Link
        BY <1>0, EndFacts, Zenon
  <2>2. PICK t : t = {c \in routing_table[e[1]] : c.id # Peer(e[1], e[2])}
        BY Zenon
  <2>3. SoundTable(e[1], t)
        BY <1>0, <2>1, <2>2 DEF SoundTable, OneEach, Reachable
  <2>4. /\ e[2] \in broken /\ e \in up /\ up' = up \ {e} /\ closing' = closing \cup {e}
        /\ peer_info' = [peer_info EXCEPT ![e[1]] = @ \ {e[2]}]
        /\ routing_table' = [routing_table EXCEPT ![e[1]] = t]
        /\ UNCHANGED <<rpcVars, setup, wire, broken, call>>
        BY <1>10, <2>1, <2>2, Zenon DEF OnDisconnect
  <2>5. EntriesKept'
    <3>1. ASSUME NEW x \in setup' \cup up'
          PROVE  x[2] \in peer_info'[x[1]]
      <4>1. x \in End /\ x = <<x[1], x[2]>> /\ x[1] \in Id
            BY <1>0, <2>4, EndFacts, Zenon
      <4>2. x # e /\ x[2] \in peer_info[x[1]]
            BY <1>0, <2>4, Zenon DEF EntriesKept
      <4> QED
            BY <1>0, <2>1, <2>4, <4>1, <4>2, Zenon
    <3> QED
          BY <1>0, <2>4, <3>1, Zenon DEF EntriesKept
  <2>6. Tables
        BY <1>3, <2>1, <2>3, <2>4, Zenon
  <2> QED
        BY <1>0, <1>5, <2>4, <2>5, <2>6, WireSame, Zenon
<1>11. ASSUME NEW e \in up \cup closing \cup hooks, Removed(e[1], e[2])
      PROVE  ContactsInv'
  <2>1. <<e[1], e[2]>> \in End
        BY <1>0, EndFacts, Zenon
  <2>2. /\ wire' = [wire EXCEPT ![<<e[1], e[2]>>] = <<>>] /\ closing' \subseteq closing
        /\ UNCHANGED <<peer_info, routing_table, rpcVars, setup, up, broken, call>>
        BY <1>11, Zenon DEF Removed
  <2>3. OldOnly
        BY <1>0, <2>1, <2>2, WireClear, Zenon
  <2>4. EntriesKept'
        BY <1>0, <2>2, Zenon DEF EntriesKept
  <2> QED
        BY <1>0, <1>2, <1>5, <2>2, <2>3, <2>4, Zenon
<1>12. ASSUME NEW l \in Link, LinkBreaks(l)
      PROVE  ContactsInv'
  <2>1. /\ broken \subseteq broken'
        /\ UNCHANGED <<peer_info, routing_table, rpcVars, endVars, wire, call>>
        BY <1>12, Zenon DEF LinkBreaks
  <2>2. EntriesKept'
        BY <1>0, <2>1, Zenon DEF EntriesKept
  <2> QED
        BY <1>0, <1>2, <1>5, <2>1, <2>2, WireSame, Zenon
<1>13. ASSUME NEW e \in up \cup closing,
             FindNode(e[1], e[2]) \/ Store(e[1], e[2]) \/ FindValue(e[1], e[2])
      PROVE  ContactsInv'
  <2>1. PICK msg \in RequestMessage, r \in ResponseMessage :
              /\ e \in End /\ Arrives(<<Peer(e[1], e[2]), e[2]>>, r)
              /\ r.kind # "StoreResult" => r.contacts \subseteq routing_table'[e[1]]
              /\ UNCHANGED <<peer_info, reply, call, broken, setup, up, closing>>
        BY <1>0, <1>13, Answers, Zenon
  <2>2. /\ e[1] \in Id /\ e[2] \in Link /\ e = <<e[1], e[2]>> /\ e[1] \in {e[2].from, e[2].to}
        /\ <<Peer(e[1], e[2]), e[2]>> \in End
        BY <2>1, EndFacts, Zenon
  <2>3. Tables
    <3>1. CASE FindNode(e[1], e[2])
      <4> DEFINE q == Head(wire[e])
                 c == [id |-> q.sender_id, addr |-> SenderAddr(e[1], e[2])]
      <4>1. wire[e] # <<>> /\ q.kind = "FindNode"
            BY <2>2, <3>1, Zenon DEF FindNode, Reads
      <4>2. q.sender_id = Peer(e[1], e[2])
            BY <1>0, <2>1, <4>1, HeadInFlight, InFlightHonest, Zenon DEF Honest
      <4>3. \/ SenderAddr(e[1], e[2]) = Listening(Peer(e[1], e[2]))
            \/ /\ SenderAddr(e[1], e[2]) = Ephemeral(e[2])
               /\ e[2] \in broken /\ e[2].from = Peer(e[1], e[2])
        <5>1. CASE KnownPeer(e[1], e[2]) # {}
              BY <5>1, Zenon DEF SenderAddr
        <5>2. CASE KnownPeer(e[1], e[2]) = {}
          <6>1. e[2] \notin peer_info[e[1]]
                BY <1>0, <2>2, <5>2, KnownPeerFacts, Zenon
          <6>2. e[2] \in broken
                BY <1>0, <6>1, Zenon DEF EntriesKept
          <6> QED
                BY <2>2, <5>2, <6>2, Zenon DEF SenderAddr, AddrAt, Peer
        <5> QED
              BY <5>1, <5>2, Zenon
      <4>4. c.id = q.sender_id /\ c.addr = SenderAddr(e[1], e[2])
            BY Zenon
      <4> HIDE DEF q, c
      <4>5. OneEach({c}) /\ Reachable({c})
            BY <4>2, <4>3, <4>4, Zenon DEF OneEach, Reachable
      <4>6. PICK t : t = AddContact(routing_table[e[1]], e[1], {c})
            BY Zenon
      <4>7. SoundTable(e[1], t)
            BY <1>4, <2>2, <4>5, <4>6, Zenon
      <4>8. routing_table' = [routing_table EXCEPT ![e[1]] = t]
            BY <2>2, <3>1, <4>6, Zenon DEF FindNode, c, q
      <4> QED
            BY <1>3, <2>1, <2>2, <4>7, <4>8, Zenon
    <3>2. CASE ~FindNode(e[1], e[2])
      <4>1. UNCHANGED routing_table
            BY <1>13, <3>2, Zenon DEF Store, FindValue
      <4> QED
            BY <1>2, <2>1, <4>1, Zenon
    <3> QED
          BY <3>1, <3>2, Zenon
  <2>4. PICK table : table = routing_table'[e[1]] /\ SoundTable(e[1], table)'
        BY <2>2, <2>3, Zenon DEF Tables
  <2>5. Honest(<<Peer(e[1], e[2]), e[2]>>, r)'
    <3>1. r.kind # "StoreResult" => OneEach(r.contacts) /\ Reachable(r.contacts)'
          BY <2>1, <2>4, Zenon DEF SoundTable, OneEach, Reachable
    <3>2. r.kind # "FindNode"
          BY MessageFields, Zenon
    <3> QED
          BY <3>1, <3>2, Zenon DEF Honest, OneEach
  <2>6. (\A x \in End : \A k \in 1..Len(wire[x]) : Honest(x, wire[x][k]))'
        BY <1>0, <2>1, <2>2, <2>5, ArrivesHonest, Zenon DEF Message
  <2>7. \A i \in Id : /\ OneEach(routing_table[i])' /\ Reachable(routing_table[i])'
                      /\ \A c \in routing_table'[i] : c.id # i
    <3> TAKE i \in Id
    <3>1. PICK t : t = routing_table'[i] /\ SoundTable(i, t)'
          BY <2>3, Zenon DEF Tables
    <3>2. OneEach(t) /\ Reachable(t)' /\ \A c \in t : c.id # i
          BY <3>1, Zenon DEF SoundTable, OneEach
    <3> QED
          BY <3>1, <3>2, Zenon DEF OneEach, Reachable
  <2>8. (reply # NoReply /\ reply.kind \in {"FindNodeResult", "FindValueResult"} =>
        OneEach(reply.contacts) /\ Reachable(reply.contacts))'
        BY <1>0, <2>1, Zenon DEF ContactsInv, OneEach, Reachable
  <2>9. OneEach(call.shortlist)' /\ EntriesKept'
        BY <1>0, <2>1, Zenon DEF OneEach, EntriesKept
  <2> QED
        BY <2>6, <2>7, <2>8, <2>9, Zenon DEF ContactsInv
<1>14. ASSUME NEW e \in up \cup closing, Response(e[1], e[2])
      PROVE  ContactsInv'
  <2>1. e \in End /\ e = <<e[1], e[2]>>
        BY <1>0, EndFacts, Zenon
  <2> DEFINE msg == Head(wire[e])
  <2>2. /\ wire[e] # <<>> /\ wire' = [wire EXCEPT ![e] = Tail(@)]
        /\ reply' \in {msg, reply}
        /\ UNCHANGED <<peer_info, routing_table, broken, setup, up, closing, call>>
        BY <1>14, <2>1, Zenon DEF Response, Reads
  <2>3. Honest(e, msg)
        BY <1>0, <2>1, <2>2, HeadInFlight, InFlightHonest, Zenon
  <2>4. OldOnly
        BY <1>0, <2>1, <2>2, WireTail, Zenon
  <2> HIDE DEF msg
  <2>5. (\A x \in End : \A k \in 1..Len(wire[x]) : Honest(x, wire[x][k]))'
        BY <1>0, <2>2, <2>4, OldHonest, Zenon
  <2>6. (reply # NoReply /\ reply.kind \in {"FindNodeResult", "FindValueResult"} =>
        OneEach(reply.contacts) /\ Reachable(reply.contacts))'
        BY <1>0, <2>2, <2>3, Zenon DEF ContactsInv, OneEach, Reachable, Honest
  <2>7. \A i \in Id : /\ OneEach(routing_table[i])' /\ Reachable(routing_table[i])'
                      /\ \A c \in routing_table'[i] : c.id # i
        BY <1>0, <2>2, Zenon DEF SoundTable, OneEach, Reachable
  <2>8. OneEach(call.shortlist)' /\ EntriesKept'
        BY <1>0, <2>2, Zenon DEF OneEach, EntriesKept
  <2> QED
        BY <2>5, <2>6, <2>7, <2>8, Zenon DEF ContactsInv
<1>15. ASSUME UNCHANGED <<peer_info, broken, setup, up, closing, wire>>, reply' \in {reply, NoReply},
             Tables, OneEach(call'.shortlist)
      PROVE  ContactsInv'
  <2>1. EntriesKept'
        BY <1>0, <1>15, Zenon DEF EntriesKept
  <2> QED
        BY <1>0, <1>5, <1>15, <2>1, WireSame, Zenon
<1>16. ASSUME Begin \/ Exhausted \/ Pick \/ AlreadyConnected \/ Connect \/ ConnectFails \/ RpcNotSent
             \/ TimedOut \/ GiveUp
      PROVE  ContactsInv'
  <2>1. UNCHANGED <<peer_info, broken, setup, up, closing, wire, reply, routing_table>>
        BY <1>16, Zenon DEF Begin, Exhausted, Pick, AlreadyConnected, Connect, ConnectFails, RpcNotSent,
                     TimedOut, GiveUp
  <2>2. OneEach(call'.shortlist)
    <3>1. CASE Begin
      <4>1. world \in Worlds /\ call.step \in 1..Len(Program)
            BY <1>0, <3>1 DEF Begin, CallTypes, DhtTypes, Program
      <4>2. Program \in Seq([op : {"find_node", "store", "find_value"}, node : Id])
            BY <4>1, DhtAssumption, Zenon DEF Program
      <4> DEFINE p == Program[call.step]
      <4>3. p \in [op : {"find_node", "store", "find_value"}, node : Id]
            BY <4>1, <4>2, ElementOfSeq, Zenon
      <4>4. \E target : call'.shortlist = Closest(routing_table[p.node], target, K)
            BY <1>0, <3>1, Zenon DEF Begin, CallTypes
      <4> HIDE DEF p
      <4>5. OneEach(routing_table[p.node])
            BY <1>0, <4>3, Zenon DEF SoundTable
      <4> QED
            BY <4>4, <4>5, ClosestFacts, Zenon
    <3>2. CASE Exhausted
      <4>1. \/ call'.shortlist = Closest(call.shortlist, call.target, K)
            \/ call'.shortlist = {}
            BY <1>0, <3>2, Zenon DEF Exhausted, Finish, Idle, CallTypes
      <4>2. OneEach({})
            BY Zenon DEF OneEach
      <4> QED
        <5>1. OneEach(Closest(call.shortlist, call.target, K))
              BY <1>0, ClosestFacts, Zenon
        <5>2. ASSUME NEW t, OneEach(t), call'.shortlist = t
              PROVE  OneEach(call'.shortlist)
              BY <5>2, Zenon
        <5> QED
              BY <4>1, <4>2, <5>1, <5>2, Zenon
    <3>3. CASE ~Begin /\ ~Exhausted
      <4>1. call'.shortlist = call.shortlist
            BY <1>0, <1>16, <3>3, Zenon DEF Pick, AlreadyConnected, Connect, ConnectFails, RpcNotSent,
                                     TimedOut, GiveUp, Continue, CallTypes
      <4> QED
            BY <1>0, <4>1, Zenon
    <3> QED
          BY <3>1, <3>2, <3>3, Zenon
  <2> QED
        BY <1>2, <1>15, <2>1, <2>2, Zenon
<1>17. CASE Connected
  <2>1. call.link \in Link /\ call.link.from = call.node
        BY <1>0, <1>17, Zenon DEF Connected, CallTypes
  <2>2. PICK t, i : i = call.node /\ t = AddContact(routing_table[i], i, KnownPeer(i, call.link))
        BY Zenon
  <2>3. SoundTable(i, t)
        BY <1>0, <1>4, <2>1, <2>2, KnownPeerFacts, Zenon
  <2>4. /\ routing_table' = [routing_table EXCEPT ![i] = t]
        /\ UNCHANGED <<peer_info, broken, setup, up, closing, wire, reply>>
        /\ call'.shortlist = call.shortlist
        BY <1>0, <1>17, <2>2, Zenon DEF Connected, CallTypes
  <2>5. Tables
        BY <1>0, <1>3, <2>2, <2>3, <2>4, Zenon
  <2> QED
        BY <1>0, <1>15, <2>4, <2>5, Zenon
<1>18. CASE Rpc
  <2>1. PICK l \in Route(call.node, call.contact.addr) :
              /\ reply' = NoReply
              /\ wire' = [wire EXCEPT ![<<Peer(call.node, l), l>>] = Append(@, Request)]
              /\ call' = [call EXCEPT !.pc = "await", !.request = Request, !.link = l]
        BY <1>18, Zenon DEF Rpc
  <2>2. PICK d, req, i : d = <<Peer(i, l), l>> /\ req = Request /\ i = call.node
        BY Zenon
  <2>3. i \in Id /\ <<i, l>> \in End
        BY <1>0, <2>1, <2>2, RouteFacts, Zenon
  <2>4. d \in End /\ Peer(d[1], d[2]) = i
    <3> DEFINE e == <<i, l>>
    <3>1. e \in End /\ e[1] = i /\ e[2] = l
          BY <2>3, Zenon
    <3> HIDE DEF e
    <3>2. <<Peer(e[1], e[2]), e[2]>> \in End /\ Peer(Peer(e[1], e[2]), e[2]) = e[1]
          BY <3>1, EndFacts, Zenon
    <3> QED
          BY <2>2, <3>1, <3>2, Zenon
  <2>5. req \in RequestMessage /\ (req.kind = "FindNode" => req.sender_id = i)
        BY <1>0, <1>18, <2>2, RequestFacts, Zenon DEF Rpc
  <2>6. Arrives(d, req)
        BY <1>0, <2>1, <2>2, <2>4, <2>5, WireAppend, Zenon DEF Message
  <2>7. Honest(d, req)'
    <3>1. req.kind \notin {"FindNodeResult", "FindValueResult"}
          BY <2>5, MessageFields, Zenon
    <3> QED
          BY <2>4, <2>5, <3>1, Zenon DEF Honest
  <2>8. UNCHANGED <<peer_info, routing_table, broken, setup, up, closing>>
        /\ call'.shortlist = call.shortlist
        BY <1>0, <1>18, <2>1, Zenon DEF Rpc, CallTypes
  <2>9. (\A x \in End : \A k \in 1..Len(wire[x]) : Honest(x, wire[x][k]))'
        BY <1>0, <2>4, <2>5, <2>6, <2>7, <2>8, ArrivesHonest, Zenon DEF Message
  <2>10. \A j \in Id : /\ OneEach(routing_table[j])' /\ Reachable(routing_table[j])'
                      /\ \A c \in routing_table'[j] : c.id # j
        BY <1>0, <2>8, Zenon DEF SoundTable, OneEach, Reachable
  <2>11. OneEach(call.shortlist)' /\ EntriesKept'
        BY <1>0, <2>8, Zenon DEF OneEach, EntriesKept
  <2> QED
        BY <2>1, <2>9, <2>10, <2>11, Zenon DEF ContactsInv
<1>19. CASE Answered
  <2>1. /\ UNCHANGED <<peer_info, broken, setup, up, closing, wire>> /\ reply' = NoReply
        /\ reply # NoReply
        BY <1>19, Zenon DEF Answered
  <2>2. ASSUME Absorb(reply.contacts), reply.kind \in {"FindNodeResult", "FindValueResult"}
        PROVE  ContactsInv'
    <3>1. OneEach(reply.contacts) /\ Reachable(reply.contacts)
          BY <1>0, <2>1, <2>2, Zenon DEF ContactsInv
    <3>2. PICK t, i : i = call.node /\ t = AddContact(routing_table[i], i, reply.contacts)
          BY Zenon
    <3>3. SoundTable(i, t)
          BY <1>0, <1>4, <3>1, <3>2, Zenon
    <3>4. Tables
          BY <1>0, <1>3, <2>1, <2>2, <3>2, <3>3, Zenon DEF Absorb
    <3>5. call'.shortlist = AddContact(call.shortlist, call.node, reply.contacts)
          BY <1>0, <2>2, Zenon DEF Absorb, Continue, CallTypes
    <3>6. OneEach(call'.shortlist)
      <4>1. OneEach(call.shortlist)
            BY <1>0, Zenon DEF ContactsInv
      <4>2. OneEach(AddContact(call.shortlist, call.node, reply.contacts))
            BY <3>1, <4>1, AddContactFacts, Zenon
      <4> QED
            BY <3>5, <4>2, Zenon
    <3> QED
          BY <1>15, <2>1, <3>4, <3>6, Zenon
  <2>3. ASSUME UNCHANGED routing_table,
               call' = Continue \/ call' = [Idle EXCEPT !.step = call.step + 1]
        PROVE  ContactsInv'
    <3>1. call'.shortlist = call.shortlist \/ call'.shortlist = {}
          BY <1>0, <2>3, Zenon DEF Continue, Idle, CallTypes
    <3>2. OneEach(call'.shortlist)
          BY <1>0, <3>1, Zenon DEF OneEach
    <3> QED
          BY <1>2, <1>15, <2>1, <2>3, <3>2, Zenon
  <2> QED
        BY <1>19, <2>2, <2>3, Zenon DEF Answered, Finish
<1>20. CASE UNCHANGED dhtAll
  <2>1. UNCHANGED <<peer_info, broken, setup, up, closing, wire, reply, routing_table, call>>
        BY <1>20, Zenon DEF dhtAll, dhtVars
  <2> QED
        BY <1>0, <1>2, <1>15, <2>1, Zenon
<1> QED
      BY <1>6, <1>7, <1>8, <1>9, <1>10, <1>11, <1>12, <1>13, <1>14, <1>16, <1>17, <1>18, <1>19, <1>20, Zenon
      DEF DhtNext, Main, Net

-----------------------------------------------------------------------------

\* Every step of main, of a connection or of a node that reads keeps the invariant.
LEMMA DhtNextInv ==
    ASSUME DhtInv, [DhtNext]_dhtAll
    PROVE  DhtInv'
<1>1. DhtTypes'
  <2>1. DhtTypes
        BY Zenon DEF DhtInv
  <2>2. CASE UNCHANGED dhtAll
    <3>1. UNCHANGED <<peer_info, routing_table, next_rpc_id, pending_rpcs, reply, setup, up, closing,
                      hooks, wire, call, world>>
          BY <2>2, Zenon DEF dhtAll, dhtVars, rpcVars, netVars, endVars
    <3>2. CallTypes'
          BY <2>1, <3>1, Zenon DEF DhtTypes, CallTypes
    <3> QED
          BY <2>1, <3>1, <3>2, Zenon DEF DhtTypes
  <2>3. CASE DhtNext
        BY <2>1, <2>3, NetTypes, MainTypes, Zenon DEF DhtNext
  <2> QED
        BY <2>2, <2>3, Zenon
<1> QED
      BY <1>1, NextRpcs, NextContacts, Zenon DEF DhtInv

\* The types, the tracing of every message in flight to the call that asked, and the
\* soundness of every set of contacts are invariant.
THEOREM DhtInductive == DhtSpec => []DhtInv
<1>1. DhtInv /\ [DhtNext]_dhtAll => DhtInv'
      BY DhtNextInv, Zenon
<1> QED
      BY <1>1, DhtInitInv, PTL DEF DhtSpec

\* rpc and process_message: an answer is handed only to the call that asked for it, however
\* late answers, timeouts and later calls interleave, and no oneshot outlives its call.
THEOREM DhtRpcsMatched == DhtSpec => []RpcsMatched
<1>1. DhtInv => RpcsMatched
  <2> SUFFICES ASSUME RpcsInv PROVE RpcsMatched
      BY Zenon DEF DhtInv
  <2>1. \A i \in Id : pending_rpcs[i] \subseteq
          (IF i = call.node /\ call.pc \in {"await", "timed_out"} THEN {call.request.rpc_id} ELSE {})
        BY Zenon DEF RpcsInv, InCall
  <2> QED
        BY <2>1, Zenon DEF RpcsInv, RpcsMatched
<1> QED
      BY <1>1, DhtInductive, PTL

\* add_contact and absorb_contacts: tables and shortlists hold one contact per node, a table
\* never the node itself, and each address is a listening one but for the connection's own
\* that a FIND_NODE read while its connection closes leaves.
THEOREM DhtContactsSound == DhtSpec => []ContactsSound
<1>1. DhtInv => ContactsSound
      BY Zenon DEF DhtInv, ContactsInv, ContactsSound, OneEach, Reachable
<1> QED
      BY <1>1, DhtInductive, PTL

=============================================================================
