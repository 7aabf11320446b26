------------------------------ MODULE SecureLink ------------------------------
(* A connection secured with noise, as in the noise_handshake and libp2p       *)
(* examples: both ends go through the steps of their handshake on one stream,  *)
(* each with a read buffer that may hold more than the step asked for, hand    *)
(* the noise state to the codecs of Reading and Writing, and exchange          *)
(* messages whose nonces have to agree.                                        *)
(* An operator named <Def>_<fault> is Def with a plausible mistake in it.      *)
EXTENDS Integers, Sequences

CONSTANTS
    MAX_MESSAGE_LEN, Tag,  \* the largest noise message, and the tag each one carries
    Sizes,                 \* sizes of the messages sent
    MaxMessages            \* bound on the messages of each end

\* A tag takes space, and leaves some for the message.
ASSUME SecureAssumption ==
    /\ MAX_MESSAGE_LEN \in Nat /\ Tag \in Nat \ {0} /\ Tag < MAX_MESSAGE_LEN
    /\ Sizes \subseteq Nat

Side == {"Initiator", "Responder"}
Other(s) == IF s = "Initiator" THEN "Responder" ELSE "Initiator"

-----------------------------------------------------------------------------
(* The steps of a setup: send and recv a message in the clear or of the noise  *)
(* handshake, seal and open one with the transport keys, discard or keep what  *)
(* the read buffer holds when a Framed is taken apart                          *)

XX_reversed(s) ==
    IF s = "Initiator" THEN <<"send", "recv", "send", "discard">>
    ELSE <<"recv", "recv", "send", "discard">>

\* handshake_xx. (A stream that ends here is taken for an empty message; the handshakes of
\* this module are those of two ends that stay.)
XX(s) ==
    IF s = "Initiator" THEN <<"send", "recv", "send", "discard">>
    ELSE <<"recv", "send", "recv", "discard">>

\* The multistream negotiation before it, and the exchange of protocol params after it.
Negotiation == <<"send", "recv", "send", "recv", "discard">>
Params == <<"seal", "open", "seal", "open">>

\* The libp2p swarm on the other end: it loses nothing it has read.
Swarm == <<"recv", "send", "recv", "send", "recv", "send", "recv", "open", "seal", "open", "seal", "keep">>

\* perform_handshake saves the state, the codecs of Reading and then Writing take it.
Handover == <<"save", "reading", "writing", "register">>

Script(example, s) ==
    CASE example = "noise" -> XX(s) \o Handover
      [] example = "libp2p" /\ s = "Initiator" -> Negotiation \o XX(s) \o Params \o <<"keep">> \o Handover
      [] example = "libp2p" /\ s = "Responder" -> Swarm \o Handover

-----------------------------------------------------------------------------

VARIABLES
    example,       \* noise or libp2p; it never changes
    pos,           \* steps each end has done
    stream,        \* what was sent to each end and not read yet
    buffer,        \* the read buffer of each end
    noise,         \* the state held by the handshake: nonces, and bytes carried over
    noise_states,  \* the entry of the connection in the map the codecs take it from
    reader,        \* the state of Reading's codec,
    writer,        \*   and of Writing's
    sent,          \* sizes of the messages sent by each end
    received,      \*   and of those received by it
    down           \* ends that failed to write

None == [rx |-> -1, tx |-> -1, carry |-> <<>>]
Fresh == [rx |-> 0, tx |-> 0, carry |-> <<>>]
Clear == [nonce |-> -1, len |-> 0]
Sealed(n, len) == [nonce |-> n, len |-> len]

codecVars == <<noise, noise_states, reader, writer>>
dataVars == <<sent, received, down>>
secureVars == <<example, pos, stream, buffer, codecVars, dataVars>>

Set(f, s, v) == [f EXCEPT ![s] = v]
At(s, steps) == pos[s] < Len(Script(example, s)) /\ Script(example, s)[pos[s] + 1] \in steps
Advance(s) == pos' = Set(pos, s, pos[s] + 1)
Ready(s) == pos[s] = Len(Script(example, s))
Emit(s, items) == stream' = Set(stream, Other(s), stream[Other(s)] \o items)

-----------------------------------------------------------------------------
(* The handshake *)

HandshakeSend(s) ==
    /\ At(s, {"send", "seal"})
    /\ IF At(s, {"send"}) THEN Emit(s, <<Clear>>) /\ UNCHANGED noise
       ELSE Emit(s, <<Sealed(noise[s].tx, 0)>>) /\ noise' = [noise EXCEPT ![s].tx = @ + 1]
    /\ Advance(s)
    /\ UNCHANGED <<example, buffer, noise_states, reader, writer, dataVars>>

\* A Framed without a whole message in its buffer reads, and may read more than one.
Fill(s) ==
    /\ At(s, {"recv", "open"}) /\ buffer[s] = <<>>
    /\ \E k \in 1..Len(stream[s]) :
        /\ buffer' = Set(buffer, s, SubSeq(stream[s], 1, k))
        /\ stream' = Set(stream, s, SubSeq(stream[s], k + 1, Len(stream[s])))
    /\ UNCHANGED <<example, pos, codecVars, dataVars>>

\* What is not the message expected fails to decrypt, and the handshake with it.
HandshakeRecv(s) ==
    /\ At(s, {"recv", "open"}) /\ buffer[s] # <<>>
    /\ IF At(s, {"recv"}) THEN Head(buffer[s]) = Clear /\ UNCHANGED noise
       ELSE /\ Head(buffer[s]).nonce = noise[s].rx
            /\ noise' = [noise EXCEPT ![s].rx = @ + 1]
    /\ buffer' = Set(buffer, s, Tail(buffer[s]))
    /\ Advance(s)
    /\ UNCHANGED <<example, stream, noise_states, reader, writer, dataVars>>

\* save_buffer
Carried(s) == buffer[s]

\* The Framed is taken apart: its codec's state goes on, its read buffer is dropped or saved.
IntoParts(s) ==
    /\ At(s, {"discard", "keep"})
    /\ noise' = IF At(s, {"keep"}) THEN [noise EXCEPT ![s].carry = Carried(s)] ELSE noise
    /\ buffer' = Set(buffer, s, <<>>)
    /\ Advance(s)
    /\ UNCHANGED <<example, stream, noise_states, reader, writer, dataVars>>

SaveState(s) ==
    /\ At(s, {"save"})
    /\ noise_states' = Set(noise_states, s, noise[s])
    /\ Advance(s)
    /\ UNCHANGED <<example, stream, buffer, noise, reader, writer, dataVars>>

\* Reading's codec is made first and clones the entry, Writing's removes it.
TakeState(s) == At(s, {"writing"})

MakeCodec(s) ==
    /\ At(s, {"reading", "writing"})
    /\ IF At(s, {"reading"})
       THEN reader' = Set(reader, s, noise_states[s]) /\ UNCHANGED writer
       ELSE writer' = Set(writer, s, noise_states[s]) /\ UNCHANGED reader
    /\ noise_states' = IF TakeState(s) THEN Set(noise_states, s, None) ELSE noise_states
    /\ Advance(s)
    /\ UNCHANGED <<example, stream, buffer, noise, dataVars>>

RegisterConn(s) ==
    /\ At(s, {"register"})
    /\ Advance(s)
    /\ UNCHANGED <<example, stream, buffer, codecVars, dataVars>>

-----------------------------------------------------------------------------
(* Messages *)

Ceil(a, b) == (a + b - 1) \div b

\* The chunks Codec::encode of the libp2p example cuts a frame into.
Chunks(len) == [i \in 1..Ceil(len, MAX_MESSAGE_LEN) |->
    IF i < Ceil(len, MAX_MESSAGE_LEN) THEN MAX_MESSAGE_LEN
    ELSE len - (i - 1) * MAX_MESSAGE_LEN]

\* What is handed to noise at once.
Plaintexts(len) == IF example = "libp2p" THEN Chunks(len) ELSE <<len>>

NoiseMessages_at_least_1(len) == IF len = 0 THEN 1 ELSE Ceil(len, MAX_MESSAGE_LEN - Tag)

\* noise::Codec::encode encrypts pieces that leave room for their tag, each with a nonce;
\* an empty message has none.
NoiseMessages(len) == Ceil(len, MAX_MESSAGE_LEN - Tag)

\* Together they have to fit a frame of the length-delimited codec.
Fits(len) == len + Tag * NoiseMessages(len) <= MAX_MESSAGE_LEN

Encodes(len) == \A i \in DOMAIN Plaintexts(len) : Fits(Plaintexts(len)[i])

\* main of noise_handshake waits until the other end has registered the connection too.
MaySend(s) == Ready(s) /\ (example = "noise" => Ready(Other(s)))

\* A yamux frame has a header: it is never empty.
Write(s, len) ==
    /\ MaySend(s) /\ Len(sent[s]) < MaxMessages /\ s \notin down /\ Encodes(len)
    /\ example = "libp2p" => len > 0
    /\ LET n == Len(Plaintexts(len))
       IN /\ Emit(s, [i \in 1..n |-> Sealed(writer[s].tx + i - 1, Plaintexts(len)[i])])
          /\ writer' = [writer EXCEPT ![s].tx = @ + IF n = 1 THEN NoiseMessages(len) ELSE n]
    /\ sent' = Set(sent, s, Append(sent[s], len))
    /\ UNCHANGED <<example, pos, buffer, noise, noise_states, reader, received, down>>

\* The codec fails, and the connection is closed; the swarm has an encoder of its own.
WriteFails(s, len) ==
    /\ MaySend(s) /\ ~(example = "libp2p" /\ s = "Responder")
    /\ Len(sent[s]) < MaxMessages /\ s \notin down /\ ~Encodes(len)
    /\ down' = down \cup {s}
    /\ UNCHANGED <<example, pos, stream, buffer, codecVars, sent, received>>

\* The reading task reads; what was carried over goes before it, once something is read.
Read(s) ==
    /\ Ready(s) /\ buffer[s] = <<>>
    /\ \E k \in 1..Len(stream[s]) :
        /\ buffer' = Set(buffer, s, reader[s].carry \o SubSeq(stream[s], 1, k))
        /\ stream' = Set(stream, s, SubSeq(stream[s], k + 1, Len(stream[s])))
    /\ reader' = [reader EXCEPT ![s].carry = <<>>]
    /\ UNCHANGED <<example, pos, noise, noise_states, writer, dataVars>>

\* The nonces a message takes at the receiver: none if there is nothing to decrypt.
Decrypted(len) == IF len = 0 THEN 0 ELSE 1

Decode(s) ==
    /\ Ready(s) /\ buffer[s] # <<>> /\ Head(buffer[s]).nonce = reader[s].rx
    /\ reader' = [reader EXCEPT ![s].rx = @ + Decrypted(Head(buffer[s]).len)]
    /\ buffer' = Set(buffer, s, Tail(buffer[s]))
    /\ received' = Set(received, s, Append(received[s], Head(buffer[s]).len))
    /\ UNCHANGED <<example, pos, stream, noise, noise_states, writer, sent, down>>

-----------------------------------------------------------------------------

SecureInit ==
    /\ example \in {"noise", "libp2p"}
    /\ pos = [s \in Side |-> 0]
    /\ stream = [s \in Side |-> <<>>]
    /\ buffer = [s \in Side |-> <<>>]
    /\ noise = [s \in Side |-> Fresh]
    /\ noise_states = [s \in Side |-> None]
    /\ reader = [s \in Side |-> None]
    /\ writer = [s \in Side |-> None]
    /\ sent = [s \in Side |-> <<>>]
    /\ received = [s \in Side |-> <<>>]
    /\ down = {}

Handshaking(s) ==
    HandshakeSend(s) \/ Fill(s) \/ HandshakeRecv(s) \/ IntoParts(s) \/ SaveState(s)
    \/ MakeCodec(s) \/ RegisterConn(s)

Receiving(s) == Read(s) \/ Decode(s)

SecureNext == \E s \in Side :
    \/ Handshaking(s) \/ Receiving(s)
    \/ \E len \in Sizes : Write(s, len) \/ WriteFails(s, len)

SecureSpec == SecureInit /\ [][SecureNext]_secureVars

SecureTypeOK ==
    /\ \A s \in Side : pos[s] \in 0..Len(Script(example, s))
    /\ \A s \in Side, st \in {noise, noise_states, reader, writer} : st[s].rx >= -1 /\ st[s].tx >= -1
    /\ \A s \in Side : \A i \in DOMAIN sent[s] : sent[s][i] \in Sizes
    /\ down \subseteq Side

-----------------------------------------------------------------------------
(* Properties *)

\* The nonces of the two ends agree and no message is lost between the handshake and the
\* codecs, wherever the reads of a handshake step end: the next message an end decrypts, in
\* the handshake or after it, is the one it expects (handshake_xx, save_buffer). Messages
\* arrive whole and in order: one that does not fit a noise message is refused by the encoder,
\* never cut into two that the other end would take for messages of their own. And each
\* codec finds the state its handshake left for it, which is gone once both have been made
\* (the unwrap in Reading::codec and Writing::codec).
NeverGarbled == \A s \in Side :
    /\ buffer[s] # <<>> =>
        /\ At(s, {"recv"}) => Head(buffer[s]) = Clear
        /\ At(s, {"open"}) => Head(buffer[s]).nonce = noise[s].rx
        /\ Ready(s) => Head(buffer[s]).nonce = reader[s].rx
    /\ Len(received[s]) <= Len(sent[Other(s)])
    /\ received[s] = SubSeq(sent[Other(s)], 1, Len(received[s]))
    /\ At(s, {"reading", "writing"}) => noise_states[s] # None
    /\ Ready(s) => noise_states[s] = None

\* The two ends get through their handshakes: neither waits for a message the other only
\* sends later.
BothRegister == <>(\A s \in Side : Ready(s))

-----------------------------------------------------------------------------
(* The inductive invariant: how far the two ends are in their handshakes, and  *)
(* what is on its way between them.                                            *)

Steps(e, s) == IF e = "noise" THEN 8 ELSE IF s = "Initiator" THEN 18 ELSE 16

\* Whether an end that has done p steps is past step k.
Past(p, k) == IF p >= k THEN 1 ELSE 0

\* The messages of the handshake an end has sent, and read, after p steps,
HasSent(e, s, p) ==
    CASE e = "noise" /\ s = "Initiator" -> Past(p, 1) + Past(p, 3)
      [] e = "noise" /\ s = "Responder" -> Past(p, 2)
      [] e = "libp2p" /\ s = "Initiator" ->
            Past(p, 1) + Past(p, 3) + Past(p, 6) + Past(p, 8) + Past(p, 10) + Past(p, 12)
      [] e = "libp2p" /\ s = "Responder" ->
            Past(p, 2) + Past(p, 4) + Past(p, 6) + Past(p, 9) + Past(p, 11)

HasRead(e, s, p) ==
    CASE e = "noise" /\ s = "Initiator" -> Past(p, 2)
      [] e = "noise" /\ s = "Responder" -> Past(p, 1) + Past(p, 3)
      [] e = "libp2p" /\ s = "Initiator" ->
            Past(p, 2) + Past(p, 4) + Past(p, 7) + Past(p, 11) + Past(p, 13)
      [] e = "libp2p" /\ s = "Responder" ->
            Past(p, 1) + Past(p, 3) + Past(p, 5) + Past(p, 7) + Past(p, 8) + Past(p, 10)

\* how many of those it reads are in the clear,
Clears(e, s) ==
    CASE e = "noise" /\ s = "Initiator" -> 1 [] e = "noise" /\ s = "Responder" -> 2
      [] e = "libp2p" /\ s = "Initiator" -> 3 [] e = "libp2p" /\ s = "Responder" -> 4

\* and how many nonces it has used.
HasSealed(e, s, p) ==
    IF e = "noise" THEN 0
    ELSE IF s = "Initiator" THEN Past(p, 10) + Past(p, 12) ELSE Past(p, 9) + Past(p, 11)

HasOpened(e, s, p) ==
    IF e = "noise" THEN 0
    ELSE IF s = "Initiator" THEN Past(p, 11) + Past(p, 13) ELSE Past(p, 8) + Past(p, 10)

Nonces(e) == IF e = "noise" THEN 0 ELSE 2

\* The j-th message of a handshake, of which the first c are in the clear.
Handshake(j, c) == IF j <= c THEN Clear ELSE Sealed(j - c - 1, 0)

Saved(s) == pos[s] >= Steps(example, s) - 3
ReaderMade(s) == pos[s] >= Steps(example, s) - 2
WriterMade(s) == pos[s] >= Steps(example, s) - 1

\* What was sent to an end and not decrypted by it, wherever it is.
Kept(s) == IF ReaderMade(s) THEN reader[s].carry ELSE noise[s].carry
Pending(s) == (Kept(s) \o buffer[s]) \o stream[s]

\* The nonces the codecs are at, or will start with.
Rx(s) == IF ReaderMade(s) THEN reader[s].rx ELSE Nonces(example)
Tx(s) == IF WriterMade(s) THEN writer[s].tx ELSE Nonces(example)

\* ps is what is pending for an end that has read r of the messages of the handshake, of
\* which c are in the clear: h more of them, and then the messages st that were sent but
\* for the ones it has received, rc, with nonces from a to b.
InStep(ps, h, r, c, a, b, st, rc) ==
    /\ h >= 0 /\ Len(ps) >= h /\ Len(st) = Len(rc) + (Len(ps) - h)
    /\ \A j \in 1..h : ps[j] = Handshake(r + j, c)
    /\ \A i \in 1..Len(rc) : rc[i] = st[i]
    /\ \A i \in 1..(Len(ps) - h) : ps[h + i].len = st[Len(rc) + i]
    /\ Len(ps) = h => a = b
    /\ Len(ps) > h =>
        ps[h + 1].nonce = a /\ ps[Len(ps)].nonce + Decrypted(ps[Len(ps)].len) = b
    /\ \A i \in (h + 1)..(Len(ps) - 1) : ps[i + 1].nonce = ps[i].nonce + Decrypted(ps[i].len)

\* The two ends are in step.
EndsInStep == \A s \in Side :
    InStep(Pending(s), HasSent(example, Other(s), pos[Other(s)]) - HasRead(example, s, pos[s]),
           HasRead(example, s, pos[s]), Clears(example, s), Rx(s), Tx(Other(s)),
           sent[Other(s)], received[s])

\* Messages are sent by an end that is ready; what a codec starts with is what its
\* handshake left; and what was carried over goes before anything else.
StateHanded == \A s \in Side :
    /\ sent[s] # <<>> => MaySend(s)
    /\ noise[s].tx = HasSealed(example, s, pos[s]) /\ noise[s].rx = HasOpened(example, s, pos[s])
    /\ pos[s] < Steps(example, s) - 4 => noise[s].carry = <<>>
    /\ noise_states[s] = IF Saved(s) /\ ~WriterMade(s) THEN noise[s] ELSE None
    /\ Kept(s) # <<>> => buffer[s] = <<>>

Item == [nonce : Int, len : Nat]
Nonce == Nat \cup {-1}
NoiseState == [rx : Nonce, tx : Nonce, carry : Seq(Item)]

SecureTypes ==
    /\ example \in {"noise", "libp2p"}
    /\ pos \in [Side -> Nat] /\ \A s \in Side : pos[s] <= Steps(example, s)
    /\ stream \in [Side -> Seq(Item)] /\ buffer \in [Side -> Seq(Item)]
    /\ noise \in [Side -> NoiseState] /\ noise_states \in [Side -> NoiseState]
    /\ reader \in [Side -> NoiseState] /\ writer \in [Side -> NoiseState]
    /\ sent \in [Side -> Seq(Sizes)] /\ received \in [Side -> Seq(Nat)]
    /\ down \subseteq Side

SecureInv == SecureTypes /\ EndsInStep /\ StateHanded

=============================================================================
