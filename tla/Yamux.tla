-------------------------------- MODULE Yamux --------------------------------
(* The streams of the libp2p example: a swarm opens, uses, closes and resets   *)
(* yamux streams and probes the session; the node keeps the streams of the     *)
(* peer and answers. The writing task may end, and the connection go down,     *)
(* between any two frames.                                                     *)
(* An operator named <Def>_<fault> is Def with a plausible mistake in it.      *)
EXTENDS Integers, Sequences

CONSTANTS
    StreamId,
    Opaque,              \* values of a session ping
    MaxPings,            \* bound on the pings of each stream, and of the session
    MaxInFlight,         \* bound on the frames in flight when the swarm sends one
    MESSAGE_QUEUE_DEPTH  \* of the node's queue of replies

\* Stream 0 is the session. The swarm takes the replies before they fill the queue.
ASSUME YamuxAssumption ==
    /\ 0 \notin StreamId
    /\ MaxPings \in Nat
    /\ MaxInFlight \in Nat /\ MESSAGE_QUEUE_DEPTH \in Nat /\ MaxInFlight <= MESSAGE_QUEUE_DEPTH

Protocols == {"ping", "other"}

VARIABLES
    peer_state,   \* whether the peer has an entry in peer_states
    streams,      \* its streams, each with its protocol
    link,         \* up, closing (on_disconnect has run), or down
    writing,      \* whether the writing task runs and its queue is in senders
    to_node,      \* frames on their way to the node,
    to_swarm,     \*   and to the swarm
    remote,       \* the swarm's streams: idle, opening, open, closing, closed, or reset
    spoken,       \* the protocol the swarm opened a stream for
    unanswered,   \* pings of each stream that were not answered
    probes,       \* session pings not answered, in the order they were sent
    pinged        \* pings sent so far on each stream and, at 0, on the session

nodeVars == <<peer_state, streams, link, writing>>
swarmVars == <<remote, spoken, unanswered, probes, pinged>>
yamuxVars == <<nodeVars, swarmVars, to_node, to_swarm>>

-----------------------------------------------------------------------------
(* Frames *)

Bit == [Syn |-> 1, Ack |-> 2, Fin |-> 4, Rst |-> 8]

\* Each flag has a bit of its own.
encode_flags(flags) ==
    LET bit(f) == IF f \in flags THEN Bit[f] ELSE 0
    IN  bit("Syn") + bit("Ack") + bit("Fin") + bit("Rst")

decode_flags(n) == {f \in DOMAIN Bit : (n \div Bit[f]) % 2 = 1}

\* A frame as it is encoded: the length field of a ping is its opaque value, and a frame
\* of type data carries the payload whose size it holds.
Data(id, flags, payload) ==
    [ty |-> "Data", flags |-> encode_flags(flags), stream_id |-> id, length |-> 0, payload |-> payload]

SessionPing(flags, opaque) ==
    [ty |-> "Ping", flags |-> encode_flags(flags), stream_id |-> 0, length |-> opaque, payload |-> "empty"]

\* A frame with a header only, whose length field is the credit it gives; it is decoded with
\* an empty payload.
WindowUpdate(id) ==
    [ty |-> "WindowUpdate", flags |-> encode_flags({}), stream_id |-> id, length |-> 0, payload |-> "empty"]

-----------------------------------------------------------------------------
(* The node: process_message and process_event *)

Protocol(id) == {s.protocol : s \in {s \in streams : s.id = id}}
Without(id) == {s \in streams : s.id # id}

\* The streams after a frame, and the replies to it. A peer without an entry (on_disconnect
\* has removed it) has no streams: a new one is acknowledged all the same.
Syn(f) ==
    IF ~peer_state THEN <<streams, <<Data(f.stream_id, {"Ack"}, f.payload)>>>>
    ELSE <<Without(f.stream_id) \cup {[id |-> f.stream_id, protocol |-> f.payload]},
           IF Protocol(f.stream_id) = {} THEN <<Data(f.stream_id, {"Ack"}, f.payload)>> ELSE <<>>>>

Rst(f) == <<Without(f.stream_id), <<>>>>

Fin_kept(f) ==
    <<streams, IF Protocol(f.stream_id) # {} THEN <<Data(f.stream_id, {"Fin"}, "empty")>> ELSE <<>>>>

Fin(f) ==
    <<Without(f.stream_id),
      IF Protocol(f.stream_id) # {} THEN <<Data(f.stream_id, {"Fin"}, "empty")>> ELSE <<>>>>

Regular_any(f) ==
    <<streams, <<Data(f.stream_id, {}, f.payload)>>>>

Regular(f) ==
    <<streams, IF Protocol(f.stream_id) = {"ping"} THEN <<Data(f.stream_id, {}, f.payload)>> ELSE <<>>>>

Probe(f) ==
    <<streams,
      IF "Syn" \in decode_flags(f.flags) THEN <<SessionPing({"Ack"}, f.length)>> ELSE <<>>>>

\* What a frame means depends on its flags, whatever its type, unless that is Ping. Any other
\* combination of flags is ignored, an ACK too.
Handled(f) ==
    LET flags == decode_flags(f.flags)
    IN CASE f.ty = "Ping" -> Probe(f)
         [] f.ty # "Ping" /\ flags = {"Syn"} -> Syn(f)
         [] f.ty # "Ping" /\ flags = {"Rst"} -> Rst(f)
         [] f.ty # "Ping" /\ flags = {"Fin"} -> Fin(f)
         [] f.ty # "Ping" /\ flags = {} -> Regular(f)
         [] OTHER -> <<streams, <<>>>>

\* unicast_fast refuses a reply when the queue is full or gone; that is logged, and the frame
\* counts as handled.
Replies(f) == IF writing /\ Len(to_swarm) < MESSAGE_QUEUE_DEPTH THEN Handled(f)[2] ELSE <<>>

Process ==
    /\ link # "down" /\ to_node # <<>>
    /\ streams' = Handled(Head(to_node))[1]
    /\ to_swarm' = to_swarm \o Replies(Head(to_node))
    /\ to_node' = Tail(to_node)
    /\ UNCHANGED <<peer_state, link, writing, swarmVars>>

\* A write fails: the writing task ends, before the disconnect that it asks for.
WriterEnds ==
    /\ writing
    /\ writing' = FALSE
    /\ UNCHANGED <<peer_state, streams, link, swarmVars, to_node, to_swarm>>

\* What was not written by then is lost, the last replies first.
Unwritten ==
    /\ ~writing /\ to_swarm # <<>>
    /\ to_swarm' = SubSeq(to_swarm, 1, Len(to_swarm) - 1)
    /\ UNCHANGED <<nodeVars, swarmVars, to_node>>

OnDisconnectPeer ==
    /\ link = "up"
    /\ link' = "closing"
    /\ peer_state' = FALSE
    /\ streams' = {}
    /\ UNCHANGED <<writing, swarmVars, to_node, to_swarm>>

LinkDown ==
    /\ link = "closing"
    /\ link' = "down"
    /\ writing' = FALSE
    /\ to_node' = <<>>
    /\ UNCHANGED <<peer_state, streams, swarmVars, to_swarm>>

-----------------------------------------------------------------------------
(* The swarm *)

Say(f) == Len(to_node) + Len(to_swarm) < MaxInFlight /\ to_node' = Append(to_node, f)

Open(id, protocol) ==
    /\ link = "up" /\ remote[id] = "idle"
    /\ Say(Data(id, {"Syn"}, protocol))
    /\ remote' = [remote EXCEPT ![id] = "opening"]
    /\ spoken' = [spoken EXCEPT ![id] = protocol]
    /\ UNCHANGED <<nodeVars, to_swarm, unanswered, probes, pinged>>

\* Data need not wait for the acknowledgement. Only a ping has an answer.
Ping(id) ==
    /\ link = "up" /\ remote[id] \in {"opening", "open"} /\ pinged[id] < MaxPings
    /\ Say(Data(id, {}, "payload"))
    /\ pinged' = [pinged EXCEPT ![id] = @ + 1]
    /\ unanswered' = [unanswered EXCEPT ![id] = IF spoken[id] = "ping" THEN @ + 1 ELSE @]
    /\ UNCHANGED <<nodeVars, to_swarm, remote, spoken, probes>>

\* The swarm has read something of the stream and lets the other end send more.
Update(id) ==
    /\ link = "up" /\ remote[id] \in {"opening", "open"}
    /\ Say(WindowUpdate(id))
    /\ UNCHANGED <<nodeVars, to_swarm, swarmVars>>

\* A stream is closed, or reset.
Close(id, flag) ==
    /\ link = "up" /\ remote[id] \in {"opening", "open"}
    /\ flag = "Fin" => remote[id] = "open" /\ unanswered[id] = 0
    /\ Say(Data(id, {flag}, "empty"))
    /\ remote' = [remote EXCEPT ![id] = IF flag = "Fin" THEN "closing" ELSE "reset"]
    /\ UNCHANGED <<nodeVars, to_swarm, spoken, unanswered, probes, pinged>>

KeepAlive(opaque) ==
    /\ link = "up" /\ pinged[0] < MaxPings
    /\ Say(SessionPing({"Syn"}, opaque))
    /\ probes' = Append(probes, opaque)
    /\ pinged' = [pinged EXCEPT ![0] = @ + 1]
    /\ UNCHANGED <<nodeVars, to_swarm, remote, spoken, unanswered>>

\* The swarm takes a reply; those of a stream it has reset it ignores. Data that is empty
\* answers no ping.
Hear ==
    /\ to_swarm # <<>>
    /\ LET f == Head(to_swarm)
           id == f.stream_id
           flags == decode_flags(f.flags)
       IN /\ remote' = IF f.ty = "Data" /\ remote[id] # "reset" /\ flags # {}
                       THEN [remote EXCEPT ![id] = IF flags = {"Ack"} THEN "open" ELSE "closed"]
                       ELSE remote
          /\ unanswered' = IF /\ f.ty = "Data" /\ remote[id] # "reset" /\ flags = {}
                              /\ f.payload # "empty"
                           THEN [unanswered EXCEPT ![id] = @ - 1] ELSE unanswered
          /\ probes' = IF f.ty = "Ping" THEN Tail(probes) ELSE probes
    /\ to_swarm' = Tail(to_swarm)
    /\ UNCHANGED <<nodeVars, to_node, spoken, pinged>>

-----------------------------------------------------------------------------

YamuxInit ==
    /\ peer_state = TRUE
    /\ streams = {}
    /\ link = "up"
    /\ writing = TRUE
    /\ to_node = <<>>
    /\ to_swarm = <<>>
    /\ remote = [id \in StreamId |-> "idle"]
    /\ spoken = [id \in StreamId |-> "other"]
    /\ unanswered = [id \in StreamId |-> 0]
    /\ probes = <<>>
    /\ pinged = [id \in StreamId \cup {0} |-> 0]

YamuxNext ==
    \/ Process \/ WriterEnds \/ Unwritten \/ OnDisconnectPeer \/ LinkDown \/ Hear
    \/ \E id \in StreamId : Ping(id) \/ Update(id)
    \/ \E id \in StreamId, protocol \in Protocols : Open(id, protocol)
    \/ \E id \in StreamId, flag \in {"Fin", "Rst"} : Close(id, flag)
    \/ \E opaque \in Opaque : KeepAlive(opaque)

YamuxSpec == YamuxInit /\ [][YamuxNext]_yamuxVars

YamuxTypeOK ==
    /\ streams \subseteq [id : StreamId, protocol : Protocols]
    /\ link \in {"up", "closing", "down"} /\ peer_state \in BOOLEAN /\ writing \in BOOLEAN
    /\ \A id \in StreamId : remote[id] \in {"idle", "opening", "open", "closing", "closed", "reset"}
    /\ \A id \in StreamId : unanswered[id] \in 0..MaxPings

-----------------------------------------------------------------------------
(* Properties *)

\* The two ends agree on the streams. Every reply is one the swarm waits for: an ACK of a
\* stream it is opening, a FIN of one it is closing, an answer to a ping of that stream, the
\* opaque value of its oldest probe; also between on_disconnect and the end of the
\* connection, and when replies are refused or lost. Only on a stream of the ping protocol
\* may there be empty data too, the answer to a window update. Once nothing is in flight, a
\* stream is open on one side exactly if it is on the other, for the same protocol
\* (process_message, process_event).
StreamsAgree ==
    /\ to_swarm # <<>> =>
        LET f == Head(to_swarm)
            flags == decode_flags(f.flags)
        IN IF f.ty = "Ping" THEN probes # <<>> /\ f.length = Head(probes)
           ELSE \/ remote[f.stream_id] = "reset"
                \/ flags = {"Ack"} /\ remote[f.stream_id] = "opening" /\ f.payload = spoken[f.stream_id]
                \/ flags = {"Fin"} /\ remote[f.stream_id] = "closing"
                \/ flags = {} /\ unanswered[f.stream_id] > 0
                \/ flags = {} /\ f.payload = "empty" /\ spoken[f.stream_id] = "ping"
    /\ (link = "up" /\ to_node = <<>> /\ to_swarm = <<>>) =>
        streams = {[id |-> id, protocol |-> spoken[id]] :
                       id \in {id \in StreamId : remote[id] \in {"opening", "open"}}}

\* The pings of a stream, and those of the session, are answered in the end unless the
\* stream is reset or the connection ends.
PingsAnswered == <>[](link = "up" =>
    /\ \A id \in StreamId : unanswered[id] = 0 \/ remote[id] = "reset"
    /\ probes = <<>>)

-----------------------------------------------------------------------------
(* The inductive invariant: what the frames in flight say about the two ends. *)

\* All frames in flight, the replies first: a reply takes the place of its request.
InFlight == to_swarm \o to_node

RequestFrame ==
    {Data(id, {"Syn"}, protocol) : id \in StreamId, protocol \in Protocols}
    \cup {Data(id, {}, "payload") : id \in StreamId}
    \cup {WindowUpdate(id) : id \in StreamId}
    \cup {Data(id, {flag}, "empty") : id \in StreamId, flag \in {"Fin", "Rst"}}
    \cup {SessionPing({"Syn"}, opaque) : opaque \in Opaque}

ReplyFrame ==
    {Data(id, {"Ack"}, protocol) : id \in StreamId, protocol \in Protocols}
    \cup {Data(id, {}, payload) : id \in StreamId, payload \in {"payload", "empty"}}
    \cup {Data(id, {"Fin"}, "empty") : id \in StreamId}
    \cup {SessionPing({"Ack"}, opaque) : opaque \in Opaque}

Flagged(f, id, flag) == f.ty = "Data" /\ f.stream_id = id /\ f.flags = encode_flags({flag})
Opens(f, id) == Flagged(f, id, "Syn") \/ Flagged(f, id, "Ack")
Ends(f, id) == Flagged(f, id, "Fin") \/ Flagged(f, id, "Rst")

\* A ping of the stream (of the session, for 0), or the answer to one.
Asks(f, id) ==
    f.stream_id = id /\ (f.ty = "Ping" \/ (f.flags = encode_flags({}) /\ f.payload # "empty"))

\* g lists the pings and answers of id among the frames fs, in order: n of them, of which
\* the first m are among the first k frames.
Lists(g, fs, k, id, m, n) ==
    /\ m \in 0..n /\ g \in [1..n -> 1..Len(fs)]
    /\ \A x \in 1..n : Asks(fs[g[x]], id) /\ (g[x] <= k <=> x <= m)
    /\ \A x \in 1..n, y \in 1..n : x < y => g[x] < g[y]
    /\ \A i \in 1..Len(fs) : Asks(fs[i], id) => \E x \in 1..n : g[x] = i

\* A stream is opened once: nothing of it is in flight before, and its SYN and then the ACK
\* are the only ones. It is closed once.
OpenedOnce == \A id \in StreamId :
    /\ remote[id] = "idle" => \A i \in 1..Len(InFlight) : InFlight[i].stream_id # id
    /\ \A i \in 1..Len(InFlight) : Opens(InFlight[i], id) =>
        /\ remote[id] \in {"opening", "reset"} /\ InFlight[i].payload = spoken[id]
        /\ \A j \in 1..Len(InFlight) : Opens(InFlight[j], id) => i = j
    /\ \A i \in 1..Len(InFlight) : Flagged(InFlight[i], id, "Fin") =>
        /\ remote[id] = "closing"
        /\ \A j \in 1..Len(InFlight) : Flagged(InFlight[j], id, "Fin") => i = j

\* A FIN or an RST is the last the swarm says on a stream.
EndIsLast == \A id \in StreamId : \A i \in 1..Len(to_node) : Ends(to_node[i], id) =>
    /\ remote[id] = IF Flagged(to_node[i], id, "Fin") THEN "closing" ELSE "reset"
    /\ \A j \in (i + 1)..Len(to_node) : to_node[j].stream_id # id

\* The node has a stream, or is about to.
Announced(id) ==
    (\E s \in streams : s.id = id) \/ \E i \in 1..Len(to_node) : Flagged(to_node[i], id, "Syn")

\* The node has the streams the swarm has, but for those whose end it is yet to hear of.
StreamsFollow ==
    /\ peer_state = (link = "up")
    /\ link # "up" => streams = {}
    /\ \A s \in streams : s.protocol = spoken[s.id] /\ remote[s.id] # "idle"
    /\ link = "up" => \A id \in StreamId :
        /\ remote[id] \in {"opening", "open"} => Announced(id)
        /\ Announced(id) => \/ remote[id] \in {"opening", "open"}
                            \/ \E i \in 1..Len(to_node) : Ends(to_node[i], id)

\* There are no more answers to come than there are pings without one.
AnswersCounted == \A id \in StreamId :
    /\ unanswered[id] <= pinged[id]
    /\ spoken[id] = "ping" => \E n \in 0..unanswered[id] : \E m \in 0..n :
        \E g \in [1..n -> 1..Len(InFlight)] : Lists(g, InFlight, Len(to_swarm), id, m, n)
    /\ spoken[id] # "ping" => \A i \in 1..Len(to_swarm) :
        ~(to_swarm[i].stream_id = id /\ to_swarm[i].flags = encode_flags({}))

\* The frames the swarm may hear an answer to. Without the writing task there are no answers
\* but those in flight.
Awaited == IF writing THEN InFlight ELSE to_swarm

\* The answers to the probes come in the order of the probes, the first of which they answer.
ProbesInOrder == \E n \in 0..Len(probes) : \E m \in 0..n :
    \E g \in [1..n -> 1..Len(Awaited)] :
        /\ Lists(g, Awaited, Len(to_swarm), 0, m, n)
        /\ (link = "up" /\ writing) => n = Len(probes)
        /\ \A x \in 1..n : Awaited[g[x]].length = probes[x]

YamuxTypes ==
    /\ streams \subseteq [id : StreamId, protocol : Protocols]
    /\ link \in {"up", "closing", "down"} /\ peer_state \in BOOLEAN /\ writing \in BOOLEAN
    /\ remote \in [StreamId -> {"idle", "opening", "open", "closing", "closed", "reset"}]
    /\ spoken \in [StreamId -> Protocols]
    /\ unanswered \in [StreamId -> 0..MaxPings]
    /\ pinged \in [StreamId \cup {0} -> 0..MaxPings]
    /\ probes \in Seq(Opaque)
    /\ to_node \in Seq(RequestFrame) /\ to_swarm \in Seq(ReplyFrame)
    /\ Len(to_node) + Len(to_swarm) <= MaxInFlight

YamuxInv ==
    /\ YamuxTypes
    /\ OpenedOnce
    /\ EndIsLast
    /\ StreamsFollow
    /\ AnswersCounted
    /\ ProbesInOrder

=============================================================================
