------------------------------ MODULE Messages -------------------------------
(***************************************************************************)
(* The way of a message from Writing::unicast on one node to               *)
(* Reading::process_message on its peer: the bounded outbound queue, the   *)
(* writer task with its batches, write buffer and delivery results, the    *)
(* socket, the reader task with its decoder and byte accounting, the       *)
(* bounded inbound queue and the processing task, and the teardown of      *)
(* either end at any moment.                                               *)
(*                                                                         *)
(* A byte on its way is the pair of its message and its place in it.  The  *)
(* user's codec is any decoder that consumes a frame in as many calls as   *)
(* it likes.  Who owns the tasks, and whose sender an address has, is the  *)
(* subject of module Senders.                                              *)
(*                                                                         *)
(* An operator D_fault, placed before D, is a faulty variant of D: what a  *)
(* plausible mistake in that code would do.  Next does not use it.         *)
(***************************************************************************)
EXTENDS Naturals, Sequences, Functions

CONSTANTS
    MaxMsgs,       \* messages the sender's user submits
    Confirmed,     \* those sent with unicast rather than unicast_fast
    Size,          \* the wire size of each message
    WriteDepth,    \* Writing::MESSAGE_QUEUE_DEPTH
    ReadDepth,     \* Reading::MESSAGE_QUEUE_DEPTH
    Boundary,      \* the write buffer's backpressure boundary, in bytes
    SocketBuffer   \* what the socket holds, in bytes

Msg == 1 .. MaxMsgs

\* The depths are asserted to be non-zero when the protocols are enabled.
ASSUME MessagesAssumption ==
    /\ MaxMsgs \in Nat
    /\ Confirmed \subseteq Msg
    /\ Size \in [Msg -> Nat \ {0}]
    /\ {WriteDepth, ReadDepth, Boundary, SocketBuffer} \subseteq Nat \ {0}

VARIABLES
    backpressure,  \* Reading::BACKPRESSURE of the receiver; never changes
    fate,          \* what the caller of queue_message knows of each message
    listed,        \* the senders map has the connection's entry
    closing,       \* how far the sender's DisconnectFinalizer is
    queue,         \* the outbound channel
    writer,        \* the writer task
    batch,         \* the messages of the last recv_many
    fed,           \* how many of them were encoded
    bytes,         \* write_batch's byte count
    buffer,        \* FramedWrite's buffer
    wire,          \* the socket
    reader,        \* the reader task
    src,           \* FramedRead's buffer
    acc,           \* CountingCodec::acc
    inbound,       \* the inbound channel
    processing,    \* the processing task
    processed,     \* what process_message was called with, in order
    dropped_count, \* the reader's count of drops it has not reported
    sent,          \* Stats::sent of the connection and of the node
    received,      \* Stats::received of the connection and of the node
    onwire,        \* history: messages whose last byte entered the socket
    decoded,       \* history: messages the codec produced, in order
    skipped,       \* history: messages dropped by a full inbound queue, in order
    warned         \* history: drops that were reported

queueVars == <<fate, listed, closing, queue>>
writerVars == <<writer, batch, fed, bytes, buffer>>
senderVars == <<queueVars, writerVars, sent, onwire>>
readerVars == <<reader, src, acc, received, decoded>>
dropVars == <<dropped_count, skipped, warned>>
inboundVars == <<inbound, processing, processed>>
receiverVars == <<readerVars, dropVars, inboundVars>>

vars == <<backpressure, senderVars, wire, receiverVars>>

Refused == {"full", "broken_pipe", "not_connected"}
Fate == {"none", "unconfirmed", "pending", "ok", "failed", "recv_error"} \cup Refused

Bytes(m) == [i \in 1 .. Size[m] |-> <<m, i>>]
SizeOf(s) == FoldFunction(LAMBDA m, n : Size[m] + n, 0, s)

\* The delivery results of the messages in S that asked for one.
Resolve(S, result) ==
    [m \in Msg |-> IF m \in S /\ fate[m] = "pending" THEN result ELSE fate[m]]

-----------------------------------------------------------------------------
(* Writing, on the sender's side. *)

\* A queue without its bound.
QueueMessage_unbounded(m) ==
    /\ fate[m] = "none"
    /\ \A k \in 1 .. m - 1 : fate[k] # "none"
    /\ listed
    /\ fate' = [fate EXCEPT ![m] = IF m \in Confirmed THEN "pending" ELSE "unconfirmed"]
    /\ queue' = Append(queue, m)
    /\ UNCHANGED <<backpressure, listed, closing, writerVars, sent, onwire, wire, receiverVars>>

\* queue_message, under the read lock of the senders map.
QueueMessage(m) ==
    /\ fate[m] = "none"
    /\ \A k \in 1 .. m - 1 : fate[k] # "none"
    /\ LET accepted == listed /\ writer # "ended" /\ Len(queue) < WriteDepth
       IN /\ fate' = [fate EXCEPT ![m] =
                CASE accepted -> IF m \in Confirmed THEN "pending" ELSE "unconfirmed"
                  [] ~listed -> "not_connected"
                  [] listed /\ writer = "ended" -> "broken_pipe"
                  [] OTHER -> "full"]
          /\ queue' = IF accepted THEN Append(queue, m) ELSE queue
    /\ UNCHANGED <<backpressure, listed, closing, writerVars, sent, onwire, wire, receiverVars>>

\* recv_many takes what is queued; with neither senders nor messages it returns 0.
RecvMany ==
    /\ writer = "recv"
    /\ \/ /\ queue # <<>>
          /\ writer' = "feeding"
          /\ batch' = queue
          /\ queue' = <<>>
       \/ /\ queue = <<>> /\ ~listed
          /\ writer' = "ending"
          /\ UNCHANGED <<batch, queue>>
    /\ UNCHANGED <<backpressure, fate, listed, closing, fed, bytes, buffer, sent, onwire, wire,
                   receiverVars>>

\* poll_ready passes below the boundary, then start_send encodes the next message.
Feed ==
    /\ writer = "feeding"
    /\ fed < Len(batch)
    /\ Len(buffer) < Boundary
    /\ fed' = fed + 1
    /\ buffer' = buffer \o Bytes(batch[fed + 1])
    /\ bytes' = bytes + Size[batch[fed + 1]]
    /\ UNCHANGED <<backpressure, queueVars, writer, batch, sent, onwire, wire, receiverVars>>

\* The buffer is written out at the boundary, and at the end of the batch.
Flush ==
    /\ writer = "feeding"
    /\ buffer # <<>>
    /\ Len(buffer) >= Boundary \/ fed = Len(batch)
    /\ Len(wire) < SocketBuffer
    /\ wire' = Append(wire, Head(buffer))
    /\ buffer' = Tail(buffer)
    /\ onwire' = onwire \cup {m \in Msg : Head(buffer) = <<m, Size[m]>>}
    /\ UNCHANGED <<backpressure, queueVars, writer, batch, fed, bytes, sent, receiverVars>>

\* A batch that is confirmed as soon as it is encoded.
BatchWritten_unflushed ==
    /\ writer = "feeding"
    /\ fed = Len(batch)
    /\ writer' = "register"
    /\ fate' = Resolve(Range(batch), "ok")
    /\ UNCHANGED <<backpressure, listed, closing, queue, batch, fed, bytes, buffer, sent, onwire,
                   wire, receiverVars>>

\* write_batch returns Ok: the deliveries are confirmed.
BatchWritten ==
    /\ writer = "feeding"
    /\ fed = Len(batch)
    /\ buffer = <<>>
    /\ writer' = "register"
    /\ fate' = Resolve(Range(batch), "ok")
    /\ UNCHANGED <<backpressure, listed, closing, queue, batch, fed, bytes, buffer, sent, onwire,
                   wire, receiverVars>>

\* Only then are the statistics updated.
RegisterSent ==
    /\ writer = "register"
    /\ writer' = "recv"
    /\ sent' = <<sent[1] + Len(batch), sent[2] + bytes>>
    /\ batch' = <<>> /\ fed' = 0 /\ bytes' = 0
    /\ UNCHANGED <<backpressure, queueVars, buffer, onwire, wire, receiverVars>>

\* A failed batch of which only the messages not yet encoded are failed.
WriteFails_forgets_encoded(result) ==
    /\ writer = "feeding"
    /\ writer' = "ending"
    /\ fate' = Resolve(Range(SubSeq(batch, fed + 1, Len(batch))), result)
    /\ batch' = <<>> /\ fed' = 0 /\ bytes' = 0
    /\ UNCHANGED <<backpressure, listed, closing, queue, buffer, sent, onwire, wire, receiverVars>>

\* The batch ends early: write_batch returns an error or times out ("failed"), or the
\* batch is dropped with the future, by a panicking encoder or an abort ("recv_error").
WriteFails(result) ==
    /\ writer = "feeding"
    /\ writer' = "ending"
    /\ fate' = Resolve(Range(batch), result)
    /\ batch' = <<>> /\ fed' = 0 /\ bytes' = 0
    /\ UNCHANGED <<backpressure, listed, closing, queue, buffer, sent, onwire, wire, receiverVars>>

\* An error of the socket or of the encoder; the end of TIMEOUT_MS; a panic of the encoder.
WriteError == WriteFails("failed")
WriteTimeout == WriteFails("failed")
EncoderPanics == fed < Len(batch) /\ WriteFails("recv_error")

\* Connection::drop aborts the task, at one of its awaits.
AbortWriter ==
    /\ closing = "dropped"
    /\ \/ WriteFails("recv_error")
       \/ /\ writer = "recv"
          /\ writer' = "ending"
          /\ UNCHANGED <<backpressure, queueVars, batch, fed, bytes, buffer, sent, onwire, wire,
                         receiverVars>>

\* The task's locals go before its captures: first the sender cleanup ...
SenderCleanup ==
    /\ writer = "ending"
    /\ writer' = "unlisted"
    /\ listed' = FALSE
    /\ UNCHANGED <<backpressure, fate, closing, queue, batch, fed, bytes, buffer, sent, onwire,
                   wire, receiverVars>>

\* ... then the channel, with the messages still in it, and the write half of the socket.
DropReceiver ==
    /\ writer = "unlisted"
    /\ writer' = "ended"
    /\ fate' = Resolve(Range(queue), "recv_error")
    /\ queue' = <<>> /\ buffer' = <<>>
    /\ UNCHANGED <<backpressure, listed, closing, batch, fed, bytes, sent, onwire, wire,
                   receiverVars>>

\* The sender's disconnect: DisconnectFinalizer removes the entry, then the connection.
Disconnect ==
    /\ \/ closing = "no" /\ closing' = "unlisted" /\ listed' = FALSE
       \/ closing = "unlisted" /\ closing' = "dropped" /\ UNCHANGED listed
    /\ UNCHANGED <<backpressure, fate, queue, writerVars, sent, onwire, wire, receiverVars>>

-----------------------------------------------------------------------------
(* Reading, on the receiver's side. *)

\* Accounting that forgets what earlier calls consumed.
account_per_call(n, produced) ==
    /\ acc' = IF produced THEN 0 ELSE n
    /\ received' = IF produced THEN <<received[1] + 1, received[2] + n>> ELSE received

\* CountingCodec::account, for a call that consumed n bytes.
account(n, produced) ==
    LET read_len == n + acc
    IN IF read_len # 0 /\ produced
       THEN /\ acc' = 0
            /\ received' = <<received[1] + 1, received[2] + read_len>>
       ELSE /\ acc' = read_len
            /\ UNCHANGED received

\* What is missing of the frame at the front of the buffer is in the buffer.
FrameRest == Size[src[1][1]] - src[1][2] + 1
FrameComplete == src # <<>> /\ Len(src) >= FrameRest

\* The message the reader has decoded and not passed on.
Held == decoded[Len(decoded)]

\* The task is gone, and its decoder with it.
ReaderGone == reader' = "ended" /\ src' = <<>> /\ acc' = 0

\* The reader waits for the connection to be registered; an interrupted setup ends it.
ConnReady ==
    /\ reader = "waiting"
    /\ \/ reader' = "read" /\ UNCHANGED <<src, acc>>
       \/ ReaderGone
    /\ UNCHANGED <<backpressure, senderVars, wire, received, decoded, dropVars, inboundVars>>

\* Bytes arrive from the socket.
Read(n) ==
    /\ reader = "read"
    /\ n \in 1 .. Len(wire)
    /\ src' = src \o SubSeq(wire, 1, n)
    /\ wire' = SubSeq(wire, n + 1, Len(wire))
    /\ reader' = "decode"
    /\ UNCHANGED <<backpressure, senderVars, acc, received, decoded, dropVars, inboundVars>>

\* The codec produces the message at the front of the buffer.
Decode ==
    /\ reader = "decode"
    /\ FrameComplete
    /\ reader' = "holding"
    /\ src' = SubSeq(src, FrameRest + 1, Len(src))
    /\ account(FrameRest, TRUE)
    /\ decoded' = Append(decoded, src[1][1])
    /\ UNCHANGED <<backpressure, senderVars, wire, dropVars, inboundVars>>

\* It needs more, and may have taken some of what there is.
DecodePartial(n) ==
    /\ reader = "decode"
    /\ ~FrameComplete
    /\ n \in 0 .. Len(src)
    /\ reader' = "read"
    /\ src' = SubSeq(src, n + 1, Len(src))
    /\ account(n, FALSE)
    /\ UNCHANGED <<backpressure, senderVars, wire, decoded, dropVars, inboundVars>>

\* No message was completed for IDLE_TIMEOUT_MS, and nothing more can be read.
IdleTimeout ==
    /\ reader = "read" /\ wire = <<>>
    /\ ReaderGone
    /\ UNCHANGED <<backpressure, senderVars, wire, received, decoded, dropVars, inboundVars>>

\* The codec or the socket fails.
ReadFails ==
    /\ reader \in {"read", "decode"}
    /\ ReaderGone
    /\ UNCHANGED <<backpressure, senderVars, wire, received, decoded, dropVars, inboundVars>>

EndOfStream ==
    /\ reader = "read" /\ wire = <<>> /\ writer = "ended"
    /\ ReaderGone
    /\ UNCHANGED <<backpressure, senderVars, wire, received, decoded, dropVars, inboundVars>>

\* A reader that goes back to the socket although its buffer may hold a frame.
Enqueue_reads_on ==
    /\ reader = "holding"
    /\ processing # "ended"
    /\ Len(inbound) < ReadDepth
    /\ reader' = "read"
    /\ inbound' = Append(inbound, Held)
    /\ warned' = warned + dropped_count
    /\ dropped_count' = 0
    /\ UNCHANGED <<backpressure, senderVars, wire, src, acc, received, decoded, skipped,
                   processing, processed>>

\* The message is queued for processing, and earlier drops are reported.
Enqueue ==
    /\ reader = "holding"
    /\ processing # "ended"
    /\ Len(inbound) < ReadDepth
    /\ reader' = "decode"
    /\ inbound' = Append(inbound, Held)
    /\ warned' = warned + dropped_count
    /\ dropped_count' = 0
    /\ UNCHANGED <<backpressure, senderVars, wire, src, acc, received, decoded, skipped,
                   processing, processed>>

\* A reader that never waits.
DropFull_always ==
    /\ reader = "holding"
    /\ processing # "ended"
    /\ Len(inbound) = ReadDepth
    /\ reader' = "decode"
    /\ skipped' = Append(skipped, Held)
    /\ \/ dropped_count' = dropped_count + 1 /\ UNCHANGED warned
       \/ dropped_count' = 0 /\ warned' = warned + dropped_count + 1
    /\ UNCHANGED <<backpressure, senderVars, wire, src, acc, received, decoded, inboundVars>>

\* Without BACKPRESSURE, try_send drops the message when the queue is full; the drops
\* are reported at most once a second.  With it, the reader waits for room.
DropFull ==
    /\ reader = "holding"
    /\ ~backpressure
    /\ processing # "ended"
    /\ Len(inbound) = ReadDepth
    /\ reader' = "decode"
    /\ skipped' = Append(skipped, Held)
    /\ \/ dropped_count' = dropped_count + 1 /\ UNCHANGED warned
       \/ dropped_count' = 0 /\ warned' = warned + dropped_count + 1
    /\ UNCHANGED <<backpressure, senderVars, wire, src, acc, received, decoded, inboundVars>>

\* The processing task is gone.
InboundClosed ==
    /\ reader = "holding"
    /\ processing = "ended"
    /\ ReaderGone
    /\ UNCHANGED <<backpressure, senderVars, wire, received, decoded, dropVars, inboundVars>>

\* The processing task takes one message after the other, to the end of the channel.
Process ==
    /\ processing = "recv"
    /\ \/ /\ inbound # <<>>
          /\ processed' = Append(processed, Head(inbound))
          /\ inbound' = Tail(inbound)
          /\ processing' = "processing"
       \/ /\ inbound = <<>> /\ reader = "ended"
          /\ processing' = "ended"
          /\ UNCHANGED <<processed, inbound>>
    /\ UNCHANGED <<backpressure, senderVars, wire, readerVars, dropVars>>

ProcessReturns ==
    /\ processing = "processing"
    /\ processing' = "recv"
    /\ UNCHANGED <<backpressure, senderVars, wire, readerVars, dropVars, inbound, processed>>

\* process_message panics; the inbound queue is dropped with the task.
ProcessPanics ==
    /\ processing = "processing"
    /\ processing' = "ended"
    /\ inbound' = <<>>
    /\ UNCHANGED <<backpressure, senderVars, wire, readerVars, dropVars, processed>>

\* The receiver's disconnect: its user's, or DisconnectOnDrop's once one of the tasks has
\* ended.  Both tasks are aborted.
AbortTasks ==
    /\ reader # "ended" \/ processing # "ended"
    /\ ReaderGone
    /\ processing' = "ended"
    /\ inbound' = <<>>
    /\ UNCHANGED <<backpressure, senderVars, wire, received, decoded, dropVars, processed>>

-----------------------------------------------------------------------------
Init ==
    /\ backpressure \in BOOLEAN
    /\ fate = [m \in Msg |-> "none"]
    /\ listed = TRUE
    /\ closing = "no"
    /\ writer = "recv" /\ reader = "waiting" /\ processing = "recv"
    /\ fed = 0 /\ bytes = 0 /\ acc = 0 /\ dropped_count = 0 /\ warned = 0
    /\ queue = <<>> /\ batch = <<>> /\ buffer = <<>> /\ wire = <<>> /\ src = <<>>
    /\ inbound = <<>> /\ processed = <<>> /\ decoded = <<>> /\ skipped = <<>>
    /\ sent = <<0, 0>> /\ received = <<0, 0>>
    /\ onwire = {}

WriterStep == RecvMany \/ Feed \/ Flush \/ BatchWritten \/ RegisterSent
WriterEnd == SenderCleanup \/ DropReceiver
ReaderStep ==
    \/ ConnReady \/ Decode \/ EndOfStream \/ Enqueue \/ DropFull \/ InboundClosed
    \/ \E n \in 0 .. SocketBuffer : Read(n) \/ DecodePartial(n)
ProcessingStep == Process \/ ProcessReturns

Next ==
    \/ \E m \in Msg : QueueMessage(m)
    \/ WriterStep \/ WriteError \/ WriteTimeout \/ EncoderPanics \/ AbortWriter \/ WriterEnd
    \/ Disconnect
    \/ ReaderStep \/ ReadFails \/ IdleTimeout
    \/ ProcessingStep \/ ProcessPanics \/ AbortTasks

\* The runtime polls every task that can make progress, the timer of a write that does
\* not return fires, and process_message returns.
Fairness ==
    /\ WF_vars(WriterStep) /\ WF_vars(WriteTimeout) /\ WF_vars(WriterEnd)
    /\ WF_vars(ReaderStep) /\ WF_vars(ProcessingStep)

Spec == Init /\ [][Next]_vars

FairSpec == Spec /\ Fairness

-----------------------------------------------------------------------------
(* Properties. *)

\* The values of the variables, and the bounds of the two queues.
TypeOK ==
    /\ backpressure \in BOOLEAN /\ listed \in BOOLEAN
    /\ fate \in [Msg -> Fate]
    /\ closing \in {"no", "unlisted", "dropped"}
    /\ writer \in {"recv", "feeding", "register", "ending", "unlisted", "ended"}
    /\ reader \in {"waiting", "read", "decode", "holding", "ended"}
    /\ processing \in {"recv", "processing", "ended"}
    /\ Len(queue) <= WriteDepth /\ Len(batch) <= WriteDepth /\ fed <= Len(batch)
    /\ Len(inbound) <= ReadDepth /\ Len(wire) <= SocketBuffer
    /\ \A s \in {queue, batch, inbound, processed, decoded, skipped} : Range(s) \subseteq Msg
    /\ onwire \subseteq Msg

\* "the message was encoded and flushed into the OS socket send buffer": a delivery is
\* confirmed only for a message whose last byte has left the write buffer, whatever
\* boundary flushes, timeouts and aborts its batch met.
OkMeansFlushed == \A m \in Msg : fate[m] = "ok" => m \in onwire

\* The closed arm of queue_message is never taken: the writer gives up its entry of the
\* senders map before its channel closes, so that a message that comes too late is
\* accepted and failed, or refused as not connected.
NeverBrokenPipe == \A m \in Msg : fate[m] # "broken_pipe"

\* The bytes on their way from the writer's buffer to the reader's.
Stream == src \o wire \o buffer

\* What was received is the decoded messages, at their exact wire sizes.
ReceivedExact == received = <<Len(decoded), SizeOf(decoded)>>

\* The bytes consumed of the frame in progress are in acc, however the reads split it.
PartialCounted == (reader # "ended" /\ Stream # <<>>) => acc = Stream[1][2] - 1

\* What was sent is the first so many of the accepted messages, at their sizes, all of
\* which entered the socket.
SentExact ==
    LET accepted == SelectSeq([m \in Msg |-> m], LAMBDA m : fate[m] \notin Refused \cup {"none"})
        registered == SubSeq(accepted, 1, sent[1])
    IN Range(registered) \subseteq onwire /\ sent[2] = SizeOf(registered)

\* Without BACKPRESSURE, every message that a full inbound queue dropped is reported
\* exactly once, or still counted.
DropsReported == warned + dropped_count = Len(skipped)

\* Stats "describe complete messages only".
StatsExact == ReceivedExact /\ PartialCounted /\ SentExact /\ DropsReported

\* The values of the sender's variables.
SenderTypeOK ==
    /\ fate \in [Msg -> Fate]
    /\ writer \in {"recv", "feeding", "register", "ending", "unlisted", "ended"}
    /\ queue \in Seq(Msg) /\ batch \in Seq(Msg) /\ buffer \in Seq(Msg \X Nat)
    /\ fed \in 0 .. Len(batch)
    /\ onwire \subseteq Msg

\* The writer counts what it has encoded of a batch, and starts every batch anew.
FedOfBatch == writer \notin {"feeding", "register"} => fed = 0

\* The last byte of an encoded message is in the write buffer until it is in the socket.
EncodedOnItsWay ==
    \A i \in 1 .. fed :
        \/ batch[i] \in onwire
        \/ \E j \in 1 .. Len(buffer) : buffer[j] = <<batch[i], Size[batch[i]]>>

\* The channel closes only once the senders map has no entry for it.
ClosedUnlisted == writer \in {"unlisted", "ended"} => ~listed

\* The inductive invariant of the sender.
IInv ==
    /\ SenderTypeOK /\ FedOfBatch /\ EncodedOnItsWay /\ ClosedUnlisted
    /\ OkMeansFlushed /\ NeverBrokenPipe

-----------------------------------------------------------------------------
(* The inductive invariant of the whole way. *)

\* The values of the other variables, and the bounds.
WayTypeOK ==
    /\ backpressure \in BOOLEAN /\ listed \in BOOLEAN
    /\ closing \in {"no", "unlisted", "dropped"}
    /\ reader \in {"waiting", "read", "decode", "holding", "ended"}
    /\ processing \in {"recv", "processing", "ended"}
    /\ wire \in Seq(Msg \X Nat) /\ src \in Seq(Msg \X Nat)
    /\ {acc, dropped_count, warned} \subseteq Nat /\ received \in Nat \X Nat
    /\ {inbound, processed, decoded, skipped} \subseteq Seq(Msg)
    /\ Len(queue) <= WriteDepth /\ Len(batch) <= WriteDepth
    /\ Len(inbound) <= ReadDepth /\ Len(wire) <= SocketBuffer

\* Whole messages one after the other, of which the first may have lost its front and the
\* last its end: a byte is followed by the rest of its message, and that by later ones,
\* each from its first byte.
Framed(s) ==
    /\ \A k \in 1 .. Len(s) : s[k][2] \in 1 .. Size[s[k][1]]
    /\ \A j, k \in 1 .. Len(s) : j < k =>
          IF k - j <= Size[s[j][1]] - s[j][2] THEN s[k] = <<s[j][1], s[j][2] + (k - j)>>
                                             ELSE s[k][1] > s[j][1]
    /\ \A k \in 2 .. Len(s) : s[k][2] # 1 => s[k - 1][1] = s[k][1]

\* As long as the writer may add to them, the bytes on their way end with a message; and
\* where there are none, the decoder has begun no frame.
StreamWhole ==
    writer # "ended" =>
        IF Stream # <<>> THEN Stream[Len(Stream)][2] = Size[Stream[Len(Stream)][1]]
                         ELSE reader # "ended" => acc = 0

Increasing(s) == \A i, j \in 1 .. Len(s) : i < j => s[i] < s[j]
Before(S, T) == \A m \in S, n \in T : m < n

Streamed == {Stream[k][1] : k \in 1 .. Len(Stream)}
Unfed == {batch[i] : i \in fed + 1 .. Len(batch)}
Unsubmitted == {m \in Msg : fate[m] = "none"}

\* The messages stay in the order they were submitted in, all the way to the decoder.
InOrder ==
    /\ Increasing(queue) /\ Increasing(batch) /\ Increasing(decoded)
    /\ Before(Range(queue), Unsubmitted)
    /\ Before(Unfed, Range(queue) \cup Unsubmitted)
    /\ Before(Streamed, Unfed \cup Range(queue) \cup Unsubmitted)
    /\ Before(Range(decoded), Streamed \cup Unfed \cup Range(queue) \cup Unsubmitted)

\* A decoded message is passed on at most once, and in its turn.
PassedOn ==
    /\ Increasing(inbound) /\ Increasing(processed) /\ Increasing(skipped)
    /\ Before(Range(processed), Range(inbound))
    /\ Range(inbound) \cup Range(processed) \cup Range(skipped) \subseteq Range(decoded)
    /\ reader = "holding" =>
          decoded # <<>> /\ Held \notin Range(inbound) \cup Range(processed) \cup Range(skipped)

\* process_message is called at most once for a message, and for messages in the order
\* they were submitted in.
ProcessedInOrder == Increasing(processed)

\* A message is received whole: a step that changes Stats::received adds one message, the
\* one the codec produced in it, at exactly its size on the wire.
ReceivedWhole ==
    received' # received \/ decoded' # decoded =>
        \E m \in Msg : /\ decoded' = Append(decoded, m)
                       /\ received' = <<received[1] + 1, received[2] + Size[m]>>

WayInv ==
    /\ WayTypeOK /\ Framed(Stream) /\ StreamWhole /\ PartialCounted
    /\ InOrder /\ PassedOn /\ DropsReported

\* Every message that asked for a delivery result gets one: the receiver returned by
\* unicast resolves, even when the peer stops reading.
DeliveryResolves == \A m \in Msg : fate[m] = "pending" ~> fate[m] # "pending"

\* Backpressure stalls but does not starve: an accepted message is processed, unless it
\* is dropped by the full queue of a receiver without BACKPRESSURE or an end goes down.
AcceptedIsProcessed ==
    \A m \in Msg : fate[m] \in {"pending", "unconfirmed"} ~>
        \/ m \in Range(processed) \cup Range(skipped)
        \/ writer = "ended" \/ reader = "ended" \/ processing = "ended"

=============================================================================
