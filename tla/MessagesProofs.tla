--------------------------- MODULE MessagesProofs ---------------------------
(* Theorems about Messages, for every number and size of messages, every      *)
(* depth of the queues, every backpressure boundary and every socket buffer.  *)
(* Of the sender: what a confirmed delivery means, and that a message is      *)
(* never refused by a closed channel.  Of the whole way: that the bytes stay  *)
(* framed and the messages in their order, that each is counted whole, and    *)
(* that the two ends implement the channel of module Channel.                 *)
EXTENDS Delivery, SequenceTheorems, TLAPS

\* A leaf that needs no arithmetic cites Zenon. The others are given to SMT, with
\* time for the longer ones, and then to Zenon.
USE SMTT(30), Zenon

-----------------------------------------------------------------------------
\* A message is sent as many bytes as it is long, the last one marked with its size.
LEMMA BytesOfMessage ==
    ASSUME NEW m \in Msg
    PROVE  /\ Size[m] \in Nat \ {0}
           /\ Bytes(m) \in Seq(Msg \X Nat)
           /\ Len(Bytes(m)) = Size[m]
           /\ Bytes(m)[Size[m]] = <<m, Size[m]>>
<1>1. Size[m] \in Nat \ {0}
      BY MessagesAssumption, Zenon
<1>2. \A i \in 1 .. Size[m] : <<m, i>> \in Msg \X Nat
      BY <1>1
<1> QED
      BY <1>1, <1>2 DEF Bytes

\* A concatenation keeps the places of what it extends, and ends with the last of the rest.
LEMMA ConcatKeeps ==
    ASSUME NEW S, NEW s \in Seq(S), NEW t \in Seq(S), Len(t) \in Nat \ {0}
    PROVE  /\ s \o t \in Seq(S)
           /\ Len(s \o t) = Len(s) + Len(t)
           /\ \A j \in 1 .. Len(s) : j \in 1 .. Len(s \o t) /\ (s \o t)[j] = s[j]
           /\ (s \o t)[Len(s) + Len(t)] = t[Len(t)]
           /\ Len(s) + Len(t) \in 1 .. Len(s \o t)
<1>1. Len(s) \in Nat
      BY LenProperties, Zenon
<1>2. s \o t \in Seq(S) /\ Len(s \o t) = Len(s) + Len(t)
      BY ConcatProperties, Zenon
<1>3. \A j \in 1 .. Len(s) + Len(t) :
         (s \o t)[j] = IF j <= Len(s) THEN s[j] ELSE t[j - Len(s)]
      BY ConcatProperties, Zenon
<1>4. \A j \in 1 .. Len(s) : j \in 1 .. Len(s) + Len(t) /\ j <= Len(s)
      BY <1>1
<1>5. /\ Len(s) + Len(t) \in 1 .. Len(s) + Len(t)
      /\ ~(Len(s) + Len(t) <= Len(s)) /\ Len(s) + Len(t) - Len(s) = Len(t)
      BY <1>1
<1> QED
      BY <1>2, <1>3, <1>4, <1>5

\* Resolving deliveries changes only those that are pending.
LEMMA ResolveFates ==
    ASSUME SenderTypeOK, NEW S, NEW result \in {"ok", "failed", "recv_error"}
    PROVE  /\ Resolve(S, result) \in [Msg -> Fate]
           /\ \A m \in Msg : \/ Resolve(S, result)[m] = fate[m]
                             \/ m \in S /\ Resolve(S, result)[m] = result
BY Zenon DEF SenderTypeOK, Resolve, Fate, Refused

\* A new connection satisfies the invariant.
LEMMA InitInv == Init => IInv
BY DEF Init, IInv, SenderTypeOK, FedOfBatch, EncodedOnItsWay, ClosedUnlisted,
    OkMeansFlushed, NeverBrokenPipe, Fate

\* A new connection satisfies the invariant, and every step preserves it.
LEMMA NextInv == ASSUME IInv, [Next]_vars PROVE IInv'
<1> USE DEF queueVars, writerVars, senderVars
<1>0. /\ SenderTypeOK /\ FedOfBatch /\ EncodedOnItsWay /\ ClosedUnlisted
      /\ OkMeansFlushed /\ NeverBrokenPipe
      BY Zenon DEF IInv
<1>1. ASSUME NEW m \in Msg, QueueMessage(m) PROVE IInv'
  <2>1. /\ fate' \in [Msg -> Fate]
        /\ \A k \in Msg : fate'[k] = fate[k] \/ fate'[k] \notin {"ok", "broken_pipe"}
        BY <1>0, <1>1, Zenon DEF QueueMessage, SenderTypeOK, ClosedUnlisted, Fate, Refused
  <2>2. queue' \in Seq(Msg)
        BY <1>0, <1>1 DEF QueueMessage, SenderTypeOK
  <2>3. UNCHANGED <<listed, writerVars, onwire>>
        BY <1>1, Zenon DEF QueueMessage
  <2> QED
        BY <1>0, <2>1, <2>2, <2>3, Zenon DEF IInv, SenderTypeOK, FedOfBatch, EncodedOnItsWay,
            ClosedUnlisted, OkMeansFlushed, NeverBrokenPipe
<1>2. CASE RecvMany
  <2>1. fed = 0 /\ fed' = 0
        BY <1>0, <1>2, Zenon DEF RecvMany, FedOfBatch
  <2>2. batch' \in Seq(Msg) /\ queue' \in Seq(Msg) /\ 0 \in 0 .. Len(batch')
    <3>1. batch' \in {batch, queue} /\ queue' \in {queue, <<>>}
          BY <1>2, Zenon DEF RecvMany
    <3>2. batch' \in Seq(Msg) /\ queue' \in Seq(Msg)
          BY <1>0, <3>1, EmptySeq, Zenon DEF SenderTypeOK
    <3>3. Len(batch') \in Nat
          BY <3>2, LenProperties, Zenon
    <3> QED
          BY <3>2, <3>3
  <2>3. writer' \in {"feeding", "ending"} /\ UNCHANGED <<fate, listed, buffer, onwire>>
        BY <1>2, Zenon DEF RecvMany
  <2> QED
        BY <1>0, <2>1, <2>2, <2>3 DEF IInv, SenderTypeOK, FedOfBatch, EncodedOnItsWay,
            ClosedUnlisted, OkMeansFlushed, NeverBrokenPipe
<1>3. CASE Feed
  <2> DEFINE b == batch[fed + 1]
  <2>1. /\ fed \in Nat /\ Len(batch) \in Nat /\ fed < Len(batch) /\ fed' = fed + 1
        /\ buffer' = buffer \o Bytes(b) /\ writer = "feeding"
        /\ UNCHANGED <<queueVars, writer, batch, onwire>>
        BY <1>0, <1>3 DEF Feed, SenderTypeOK
  <2>2. b \in Msg
        BY <1>0, <2>1 DEF SenderTypeOK
  <2>3. /\ buffer \in Seq(Msg \X Nat) /\ Bytes(b) \in Seq(Msg \X Nat)
        /\ Len(Bytes(b)) = Size[b] /\ Size[b] \in Nat \ {0} /\ Bytes(b)[Size[b]] = <<b, Size[b]>>
        BY <1>0, <2>2, BytesOfMessage, Zenon DEF SenderTypeOK
  <2>4. /\ buffer' \in Seq(Msg \X Nat)
        /\ Len(buffer') = Len(buffer) + Size[b]
        /\ \A j \in 1 .. Len(buffer) : j \in 1 .. Len(buffer') /\ buffer'[j] = buffer[j]
        /\ buffer'[Len(buffer) + Size[b]] = <<b, Size[b]>>
        /\ Len(buffer) + Size[b] \in 1 .. Len(buffer')
    <3> DEFINE t == Bytes(b)
    <3>1. buffer \in Seq(Msg \X Nat) /\ t \in Seq(Msg \X Nat) /\ Len(t) \in Nat \ {0}
          BY <2>3, Zenon
    <3>2. buffer' = buffer \o t /\ Size[b] = Len(t) /\ t[Len(t)] = <<b, Len(t)>>
          BY <2>1, <2>3, Zenon
    <3> HIDE DEF b, t
    <3>3. /\ buffer \o t \in Seq(Msg \X Nat)
          /\ Len(buffer \o t) = Len(buffer) + Len(t)
          /\ \A j \in 1 .. Len(buffer) :
                j \in 1 .. Len(buffer \o t) /\ (buffer \o t)[j] = buffer[j]
          /\ (buffer \o t)[Len(buffer) + Len(t)] = t[Len(t)]
          /\ Len(buffer) + Len(t) \in 1 .. Len(buffer \o t)
          BY <3>1, ConcatKeeps
    <3> QED
          BY <3>2, <3>3, Zenon
  <2>5. EncodedOnItsWay'
    <3> SUFFICES ASSUME NEW i \in 1 .. fed'
                 PROVE  \/ batch[i] \in onwire
                        \/ \E j \in 1 .. Len(buffer') : buffer'[j] = <<batch[i], Size[batch[i]]>>
        BY <2>1, Zenon DEF EncodedOnItsWay
    <3>1. CASE i = fed + 1
          BY <3>1, <2>4, Zenon
    <3>2. CASE i # fed + 1
      <4>1. i \in 1 .. fed
            BY <2>1, <3>2
      <4> QED
            BY <1>0, <2>4, <4>1, Zenon DEF EncodedOnItsWay
    <3> QED
        BY <3>1, <3>2, Zenon
  <2>6. fed' \in 0 .. Len(batch')
        BY <2>1
  <2> QED
        BY <1>0, <2>1, <2>4, <2>5, <2>6, Zenon DEF IInv, SenderTypeOK, FedOfBatch, ClosedUnlisted,
            OkMeansFlushed, NeverBrokenPipe
<1>4. CASE Flush
  <2>1. /\ buffer \in Seq(Msg \X Nat) /\ buffer # <<>> /\ buffer' = Tail(buffer)
        /\ onwire' = onwire \cup {m \in Msg : Head(buffer) = <<m, Size[m]>>}
        /\ UNCHANGED <<queueVars, writer, batch, fed>>
        BY <1>0, <1>4, Zenon DEF Flush, SenderTypeOK
  <2>2. /\ buffer' \in Seq(Msg \X Nat) /\ Len(buffer) \in Nat \ {0}
        /\ Len(buffer') = Len(buffer) - 1
        /\ \A j \in 1 .. Len(buffer') : buffer'[j] = buffer[j + 1]
        /\ Head(buffer) = buffer[1]
        BY <2>1
  <2>3. EncodedOnItsWay'
    <3> SUFFICES ASSUME NEW i \in 1 .. fed, batch[i] \notin onwire'
                 PROVE  \E j \in 1 .. Len(buffer') : buffer'[j] = <<batch[i], Size[batch[i]]>>
        BY <2>1, Zenon DEF EncodedOnItsWay
    <3>1. batch[i] \in Msg
          BY <1>0 DEF SenderTypeOK
    <3>2. PICK j \in 1 .. Len(buffer) : buffer[j] = <<batch[i], Size[batch[i]]>>
          BY <1>0, <2>1, Zenon DEF EncodedOnItsWay
    <3>3. j # 1
          BY <2>1, <2>2, <3>1, <3>2, Zenon
    <3>4. j - 1 \in 1 .. Len(buffer') /\ buffer'[j - 1] = buffer[j]
          BY <2>2, <3>3
    <3> QED
          BY <3>2, <3>4, Zenon
  <2> QED
        BY <1>0, <2>1, <2>2, <2>3, Zenon DEF IInv, SenderTypeOK, FedOfBatch, ClosedUnlisted,
            OkMeansFlushed, NeverBrokenPipe
<1>5. CASE BatchWritten
  <2>1. /\ fed = Len(batch) /\ buffer = <<>> /\ fate' = Resolve(Range(batch), "ok")
        /\ writer' = "register" /\ UNCHANGED <<listed, queue, batch, fed, buffer, onwire>>
        BY <1>5, Zenon DEF BatchWritten
  <2>2. Range(batch) \subseteq onwire
        BY <1>0, <2>1 DEF SenderTypeOK, EncodedOnItsWay, Range
  <2>3. /\ fate' \in [Msg -> Fate]
        /\ \A m \in Msg : fate'[m] = fate[m] \/ (m \in onwire /\ fate'[m] = "ok")
    <3>1. /\ Resolve(Range(batch), "ok") \in [Msg -> Fate]
          /\ \A m \in Msg : \/ Resolve(Range(batch), "ok")[m] = fate[m]
                            \/ m \in Range(batch) /\ Resolve(Range(batch), "ok")[m] = "ok"
          BY <1>0, ResolveFates, Zenon
    <3>2. fate' = Resolve(Range(batch), "ok")
          BY <2>1, Zenon
    <3> QED
          BY <2>2, <3>1, <3>2, Zenon
  <2> QED
        BY <1>0, <2>1, <2>3, Zenon DEF IInv, SenderTypeOK, FedOfBatch, EncodedOnItsWay, ClosedUnlisted,
            OkMeansFlushed, NeverBrokenPipe
<1>6. CASE RegisterSent
  <2>1. /\ batch' \in Seq(Msg) /\ fed' = 0 /\ fed' \in 0 .. Len(batch')
        /\ writer' = "recv" /\ UNCHANGED <<queueVars, buffer, onwire>>
        BY <1>6 DEF RegisterSent
  <2> QED
        BY <1>0, <2>1 DEF IInv, SenderTypeOK, FedOfBatch, EncodedOnItsWay, ClosedUnlisted,
            OkMeansFlushed, NeverBrokenPipe
<1>7. ASSUME NEW result \in {"failed", "recv_error"}, WriteFails(result) PROVE IInv'
  <2>1. /\ batch' \in Seq(Msg) /\ fed' = 0 /\ fed' \in 0 .. Len(batch')
        /\ writer' = "ending" /\ UNCHANGED <<listed, queue, buffer, onwire>>
        BY <1>7 DEF WriteFails
  <2>2. /\ fate' \in [Msg -> Fate]
        /\ \A m \in Msg : fate'[m] = fate[m] \/ fate'[m] = result
        BY <1>0, <1>7, ResolveFates DEF WriteFails
  <2> QED
        BY <1>0, <2>1, <2>2 DEF IInv, SenderTypeOK, FedOfBatch, EncodedOnItsWay, ClosedUnlisted,
            OkMeansFlushed, NeverBrokenPipe
<1>8. CASE AbortWriter
  <2>1. CASE writer = "recv" /\ writer' = "ending" /\ UNCHANGED <<queueVars, batch, fed, buffer, onwire>>
        BY <1>0, <2>1, Zenon DEF IInv, SenderTypeOK, FedOfBatch, EncodedOnItsWay, ClosedUnlisted,
            OkMeansFlushed, NeverBrokenPipe
  <2> QED
        BY <1>7, <1>8, <2>1, Zenon DEF AbortWriter
<1>9. CASE SenderCleanup
      BY <1>0, <1>9, Zenon DEF SenderCleanup, IInv, SenderTypeOK, FedOfBatch, EncodedOnItsWay,
          ClosedUnlisted, OkMeansFlushed, NeverBrokenPipe
<1>10. CASE DropReceiver
  <2>1. /\ fate' \in [Msg -> Fate]
        /\ \A m \in Msg : fate'[m] = fate[m] \/ fate'[m] = "recv_error"
        BY <1>0, <1>10, ResolveFates, Zenon DEF DropReceiver
  <2>2. /\ fed = 0 /\ writer = "unlisted" /\ writer' = "ended"
        /\ queue' \in Seq(Msg) /\ buffer' \in Seq(Msg \X Nat)
        /\ UNCHANGED <<listed, batch, fed, onwire>>
        BY <1>0, <1>10 DEF DropReceiver, FedOfBatch
  <2> QED
        BY <1>0, <2>1, <2>2 DEF IInv, SenderTypeOK, FedOfBatch, EncodedOnItsWay, ClosedUnlisted,
            OkMeansFlushed, NeverBrokenPipe
<1>11. CASE Disconnect
  <2>1. UNCHANGED <<fate, queue, writerVars, onwire>> /\ (listed' => listed)
        BY <1>11 DEF Disconnect
  <2> QED
        BY <1>0, <2>1, Zenon DEF IInv, SenderTypeOK, FedOfBatch, EncodedOnItsWay, ClosedUnlisted,
            OkMeansFlushed, NeverBrokenPipe
<1>12. ASSUME UNCHANGED senderVars PROVE IInv'
      BY <1>0, <1>12, Zenon DEF IInv, SenderTypeOK, FedOfBatch, EncodedOnItsWay, ClosedUnlisted,
          OkMeansFlushed, NeverBrokenPipe
<1>13. CASE ReaderStep
  <2>1. UNCHANGED senderVars
        BY <1>13, Zenon DEF ReaderStep, ConnReady, Decode, EndOfStream, Enqueue, DropFull,
            InboundClosed, Read, DecodePartial
  <2> QED
        BY <1>12, <2>1, Zenon
<1>14. CASE ReadFails \/ IdleTimeout \/ ProcessingStep \/ ProcessPanics \/ AbortTasks
  <2>1. UNCHANGED senderVars
        BY <1>14, Zenon DEF ReadFails, IdleTimeout, ProcessingStep, Process, ProcessReturns,
            ProcessPanics, AbortTasks
  <2> QED
        BY <1>12, <2>1, Zenon
<1>15. CASE UNCHANGED vars
      BY <1>12, <1>15, Zenon DEF vars
<1> QED
      BY <1>1, <1>2, <1>3, <1>4, <1>5, <1>6, <1>7, <1>8, <1>9, <1>10, <1>11, <1>13, <1>14, <1>15, Zenon
      DEF Next, WriterStep, WriteError, WriteTimeout, EncoderPanics, WriterEnd

-----------------------------------------------------------------------------
\* The invariant holds in every reachable state.
THEOREM MessagesInvariance == Spec => []IInv
BY InitInv, NextInv, PTL DEF Spec

\* A confirmed delivery is of a message whose last byte has entered the socket, whatever
\* flushes at the boundary, timeouts and aborts its batch met.
THEOREM ConfirmedIsFlushed == Spec => []OkMeansFlushed
<1>1. IInv => OkMeansFlushed
      BY Zenon DEF IInv
<1> QED
      BY <1>1, MessagesInvariance, PTL

\* queue_message never finds the channel closed.
THEOREM PipeNeverBreaks == Spec => []NeverBrokenPipe
<1>1. IInv => NeverBrokenPipe
      BY Zenon DEF IInv
<1> QED
      BY <1>1, MessagesInvariance, PTL

-----------------------------------------------------------------------------
(* The bytes on their way. *)

Byte == Msg \X Nat

\* t is s without its first n bytes.
Without(t, s, n) ==
    Len(t) = Len(s) - n /\ \A k \in 1 .. Len(t) : t[k] = s[k + n]

\* The k-th element of the concatenation of a, b and c.
Place(a, b, c, k) ==
    IF k <= Len(a) THEN a[k]
    ELSE IF k <= Len(a) + Len(b) THEN b[k - Len(a)] ELSE c[k - (Len(a) + Len(b))]

\* A concatenation of three.
LEMMA ThreeParts ==
    ASSUME NEW S, NEW a \in Seq(S), NEW b \in Seq(S), NEW c \in Seq(S)
    PROVE  /\ a \o b \o c \in Seq(S)
           /\ Len(a \o b \o c) = Len(a) + Len(b) + Len(c)
           /\ Len(a) \in Nat /\ Len(b) \in Nat /\ Len(c) \in Nat
           /\ \A k \in 1 .. Len(a) + Len(b) + Len(c) : (a \o b \o c)[k] =
                IF k <= Len(a) THEN a[k]
                ELSE IF k <= Len(a) + Len(b) THEN b[k - Len(a)]
                ELSE c[k - (Len(a) + Len(b))]
<1>1. Len(a) \in Nat /\ Len(b) \in Nat /\ Len(c) \in Nat
      BY LenProperties, Zenon
<1> DEFINE d == a \o b
<1>2. /\ d \in Seq(S) /\ Len(d) = Len(a) + Len(b)
      /\ \A k \in 1 .. Len(a) + Len(b) : d[k] = IF k <= Len(a) THEN a[k] ELSE b[k - Len(a)]
      BY ConcatProperties, Zenon
<1> HIDE DEF d
<1>3. /\ d \o c \in Seq(S) /\ Len(d \o c) = Len(d) + Len(c)
      /\ \A k \in 1 .. Len(d) + Len(c) : (d \o c)[k] = IF k <= Len(d) THEN d[k] ELSE c[k - Len(d)]
  <2>1. d \in Seq(S)
        BY <1>2, Zenon
  <2> QED
        BY <2>1, ConcatProperties, Zenon
<1>4. ASSUME NEW k \in 1 .. Len(a) + Len(b) + Len(c)
      PROVE  (d \o c)[k] = IF k <= Len(a) THEN a[k]
                           ELSE IF k <= Len(a) + Len(b) THEN b[k - Len(a)]
                           ELSE c[k - (Len(a) + Len(b))]
  <2>1. CASE k <= Len(a) + Len(b)
    <3>1. k \in 1 .. Len(a) + Len(b) /\ k \in 1 .. Len(d) + Len(c) /\ k <= Len(d)
          BY <1>1, <1>2, <2>1
    <3>2. (d \o c)[k] = d[k]
          BY <1>3, <3>1, Zenon
    <3>3. d[k] = IF k <= Len(a) THEN a[k] ELSE b[k - Len(a)]
          BY <1>2, <3>1, Zenon
    <3> QED
          BY <2>1, <3>2, <3>3, Zenon
  <2>2. CASE ~(k <= Len(a) + Len(b))
    <3>1. k \in 1 .. Len(d) + Len(c) /\ ~(k <= Len(d)) /\ ~(k <= Len(a))
          BY <1>1, <1>2, <2>2
    <3>2. (d \o c)[k] = c[k - Len(d)]
          BY <1>3, <3>1, Zenon
    <3> QED
          BY <1>2, <2>2, <3>1, <3>2, Zenon
  <2> QED
        BY <2>1, <2>2, Zenon
<1> QED
      BY <1>1, <1>2, <1>3, <1>4, Zenon DEF d

\* Taking from the first part takes from the front of the whole.
LEMMA TakenFromFront ==
    ASSUME NEW S, NEW a \in Seq(S), NEW b \in Seq(S), NEW c \in Seq(S), NEW n \in 0 .. Len(a)
    PROVE  /\ SubSeq(a, n + 1, Len(a)) \in Seq(S)
           /\ Without(SubSeq(a, n + 1, Len(a)) \o b \o c, a \o b \o c, n)
<1> DEFINE d == SubSeq(a, n + 1, Len(a))
           s == a \o b \o c
           t == d \o b \o c
<1>1. Len(a) \in Nat /\ Len(b) \in Nat /\ Len(c) \in Nat /\ n \in Nat /\ n <= Len(a)
      BY LenProperties
<1>2. d \in Seq(S) /\ Len(d) = Len(a) - n /\ \A k \in 1 .. Len(d) : d[k] = a[k + n]
  <2>1. \A k \in n + 1 .. Len(a) : a[k] \in S
        BY <1>1, ElementOfSeq
  <2>2. /\ d \in Seq(S) /\ Len(d) = IF n + 1 <= Len(a) THEN Len(a) - (n + 1) + 1 ELSE 0
        /\ \A k \in 1 .. Len(a) - (n + 1) + 1 : d[k] = a[(n + 1) + k - 1]
        BY <1>1, <2>1, SubSeqProperties
  <2> HIDE DEF d
  <2>3. Len(d) = Len(a) - n /\ Len(a) - (n + 1) + 1 = Len(a) - n
        BY <1>1, <2>2
  <2>4. \A k \in 1 .. Len(d) : (n + 1) + k - 1 = k + n
        BY <1>1, <2>3
  <2> QED
        BY <2>2, <2>3, <2>4, Zenon
<1> HIDE DEF d
<1>3. /\ Len(s) = Len(a) + Len(b) + Len(c)
      /\ \A k \in 1 .. Len(a) + Len(b) + Len(c) : s[k] =
                IF k <= Len(a) THEN a[k]
                ELSE IF k <= Len(a) + Len(b) THEN b[k - Len(a)]
                ELSE c[k - (Len(a) + Len(b))]
      BY ThreeParts
<1>4. /\ Len(t) = Len(d) + Len(b) + Len(c)
      /\ \A k \in 1 .. Len(d) + Len(b) + Len(c) : t[k] =
                IF k <= Len(d) THEN d[k]
                ELSE IF k <= Len(d) + Len(b) THEN b[k - Len(d)]
                ELSE c[k - (Len(d) + Len(b))]
  <2>1. d \in Seq(S)
        BY <1>2, Zenon
  <2> QED
        BY <2>1, ThreeParts
<1> HIDE DEF s, t
<1>5. Len(t) = Len(s) - n
      BY <1>1, <1>2, <1>3, <1>4
<1>6. ASSUME NEW k \in 1 .. Len(t) PROVE t[k] = s[k + n]
  <2>1. k \in 1 .. Len(d) + Len(b) + Len(c) /\ k + n \in 1 .. Len(a) + Len(b) + Len(c)
        BY <1>1, <1>2, <1>4
  <2>2. CASE k <= Len(d)
    <3>1. k + n <= Len(a) /\ k \in 1 .. Len(d)
          BY <1>1, <1>2, <2>1, <2>2
    <3> QED
          BY <1>2, <1>3, <1>4, <2>1, <2>2, <3>1, Zenon
  <2>3. CASE ~(k <= Len(d)) /\ k <= Len(d) + Len(b)
    <3>1. ~(k + n <= Len(a)) /\ k + n <= Len(a) + Len(b) /\ (k + n) - Len(a) = k - Len(d)
          BY <1>1, <1>2, <2>1, <2>3
    <3> QED
          BY <1>3, <1>4, <2>1, <2>3, <3>1, Zenon
  <2>4. CASE ~(k <= Len(d) + Len(b))
    <3>1. /\ ~(k + n <= Len(a)) /\ ~(k + n <= Len(a) + Len(b)) /\ ~(k <= Len(d))
          /\ (k + n) - (Len(a) + Len(b)) = k - (Len(d) + Len(b))
          BY <1>1, <1>2, <2>1, <2>4
    <3> QED
          BY <1>3, <1>4, <2>1, <2>4, <3>1, Zenon
  <2> QED
        BY <2>2, <2>3, <2>4, Zenon
<1> QED
      BY <1>2, <1>5, <1>6, Zenon DEF Without, s, t, d

\* The pieces of a frame: where a byte and its message are.
LEMMA FramedBytes ==
    ASSUME NEW s \in Seq(Byte), Framed(s), NEW k \in 1 .. Len(s)
    PROVE  /\ Len(s) \in Nat /\ s[k][1] \in Msg /\ s[k][2] \in Nat /\ s[k] = <<s[k][1], s[k][2]>>
           /\ Size[s[k][1]] \in Nat /\ s[k][2] >= 1 /\ s[k][2] <= Size[s[k][1]]
<1>1. s[k] \in Byte /\ Len(s) \in Nat
      BY ElementOfSeq, LenProperties, Zenon
<1>2. s[k][1] \in Msg /\ s[k][2] \in Nat /\ s[k] = <<s[k][1], s[k][2]>>
      BY <1>1 DEF Byte
<1>3. Size[s[k][1]] \in Nat /\ s[k][2] \in 1 .. Size[s[k][1]]
      BY <1>2, MessagesAssumption, Zenon DEF Framed
<1> QED
      BY <1>1, <1>2, <1>3

\* What is left when bytes are taken from the front is framed.
LEMMA FramedRest ==
    ASSUME NEW s \in Seq(Byte), NEW t \in Seq(Byte), Framed(s), NEW n \in Nat, Without(t, s, n)
    PROVE  Framed(t)
<1>1. Len(s) \in Nat /\ Len(t) \in Nat
      BY LenProperties, Zenon
<1>2. \A k \in 1 .. Len(t) : k + n \in 1 .. Len(s) /\ t[k] = s[k + n]
      BY <1>1 DEF Without
<1>3. \A k \in 1 .. Len(t) : t[k][2] \in 1 .. Size[t[k][1]]
      BY <1>2, Zenon DEF Framed
<1>4. ASSUME NEW j \in 1 .. Len(t), NEW k \in 1 .. Len(t), j < k
      PROVE  IF k - j <= Size[t[j][1]] - t[j][2] THEN t[k] = <<t[j][1], t[j][2] + (k - j)>>
                                                 ELSE t[k][1] > t[j][1]
  <2>1. j + n < k + n /\ (k + n) - (j + n) = k - j
        BY <1>4
  <2> QED
        BY <1>2, <2>1, ZenonT(30) DEF Framed
<1>5. ASSUME NEW k \in 2 .. Len(t), t[k][2] # 1 PROVE t[k - 1][1] = t[k][1]
  <2>1. k \in 1 .. Len(t) /\ k - 1 \in 1 .. Len(t) /\ k + n \in 2 .. Len(s) /\ (k + n) - 1 = (k - 1) + n
        BY <1>1, <1>2, <1>5
  <2> QED
        BY <1>2, <1>5, <2>1, Zenon DEF Framed
<1> QED
      BY <1>3, <1>4, <1>5, Zenon DEF Framed

\* What is left when bytes are lost at the end is framed.
LEMMA FramedFront ==
    ASSUME NEW s \in Seq(Byte), NEW t \in Seq(Byte), Framed(s),
           Len(t) <= Len(s), \A k \in 1 .. Len(t) : t[k] = s[k]
    PROVE  Framed(t)
<1>1. Len(s) \in Nat /\ Len(t) \in Nat
      BY LenProperties, Zenon
<1>2. \A k \in 1 .. Len(t) : k \in 1 .. Len(s) /\ t[k] = s[k]
      BY <1>1
<1>3. \A k \in 2 .. Len(t) : k \in 2 .. Len(s) /\ k \in 1 .. Len(t) /\ k - 1 \in 1 .. Len(t)
      BY <1>1
<1> QED
      BY <1>2, <1>3, Zenon DEF Framed

\* A message that is later than all others, behind whole ones.
LEMMA FramedMore ==
    ASSUME NEW s \in Seq(Byte), Framed(s), NEW m \in Msg,
           \A k \in 1 .. Len(s) : s[k][1] < m,
           s # <<>> => s[Len(s)][2] = Size[s[Len(s)][1]]
    PROVE  /\ s \o Bytes(m) \in Seq(Byte) /\ Framed(s \o Bytes(m))
           /\ s \o Bytes(m) # <<>> /\ Len(s \o Bytes(m)) = Len(s) + Size[m]
           /\ (s \o Bytes(m))[Len(s) + Size[m]] = <<m, Size[m]>>
           /\ (s \o Bytes(m))[1] = IF s = <<>> THEN <<m, 1>> ELSE s[1]
           /\ \A k \in 1 .. Len(s) + Size[m] :
                IF k <= Len(s) THEN (s \o Bytes(m))[k] = s[k]
                               ELSE (s \o Bytes(m))[k] = <<m, k - Len(s)>>
<1> DEFINE b == Bytes(m)
           t == s \o b
<1>1. /\ Len(s) \in Nat /\ Size[m] \in Nat \ {0} /\ b \in Seq(Byte) /\ Len(b) = Size[m]
      /\ \A k \in 1 .. Size[m] : b[k] = <<m, k>>
      BY LenProperties, BytesOfMessage, Zenon DEF Bytes, Byte
<1> HIDE DEF b
<1>2. /\ t \in Seq(Byte) /\ Len(t) = Len(s) + Size[m]
      /\ \A k \in 1 .. Len(s) + Size[m] : t[k] = IF k <= Len(s) THEN s[k] ELSE b[k - Len(s)]
  <2>1. b \in Seq(Byte) /\ Len(b) = Size[m]
        BY <1>1, Zenon
  <2>2. /\ t \in Seq(Byte) /\ Len(t) = Len(s) + Len(b)
        /\ \A k \in 1 .. Len(s) + Len(b) : t[k] = IF k <= Len(s) THEN s[k] ELSE b[k - Len(s)]
        BY <2>1, ConcatProperties, Zenon
  <2> HIDE DEF t
  <2> QED
        BY <2>1, <2>2, Zenon
<1> HIDE DEF t
<1>3. ASSUME NEW k \in 1 .. Len(s) + Size[m]
      PROVE  IF k <= Len(s) THEN t[k] = s[k] ELSE t[k] = <<m, k - Len(s)>>
  <2>1. CASE ~(k <= Len(s))
    <3>1. k - Len(s) \in 1 .. Size[m]
          BY <1>1, <2>1
    <3> QED
          BY <1>1, <1>2, <2>1, <3>1, Zenon
  <2> QED
        BY <1>2, <2>1, Zenon
<1>4. s # <<>> => Len(s) # 0
      BY EmptySeq, Zenon
<1>5. ASSUME NEW k \in 1 .. Len(t) PROVE t[k][2] \in 1 .. Size[t[k][1]]
  <2>1. CASE k <= Len(s)
    <3>1. k \in 1 .. Len(s) /\ t[k] = s[k]
          BY <1>1, <1>2, <1>3, <2>1
    <3> QED
          BY <3>1, Zenon DEF Framed
  <2>2. CASE ~(k <= Len(s))
    <3>1. t[k] = <<m, k - Len(s)>> /\ k - Len(s) \in 1 .. Size[m]
          BY <1>1, <1>2, <1>3, <2>2
    <3> QED
          BY <3>1
  <2> QED
        BY <2>1, <2>2, Zenon
<1>6. ASSUME NEW j \in 1 .. Len(t), NEW k \in 1 .. Len(t), j < k
      PROVE  IF k - j <= Size[t[j][1]] - t[j][2] THEN t[k] = <<t[j][1], t[j][2] + (k - j)>>
                                                 ELSE t[k][1] > t[j][1]
  <2>1. j \in Nat /\ k \in Nat /\ j >= 1 /\ j < k /\ k <= Len(s) + Size[m]
        BY <1>1, <1>2, <1>6
  <2>2. CASE k <= Len(s)
    <3>1. j \in 1 .. Len(s) /\ k \in 1 .. Len(s) /\ t[j] = s[j] /\ t[k] = s[k]
          BY <1>1, <1>2, <1>3, <2>1, <2>2
    <3> QED
          BY <1>6, <3>1, Zenon DEF Framed
  <2>3. CASE j <= Len(s) /\ ~(k <= Len(s))
    <3>1. j \in 1 .. Len(s) /\ Len(s) \in 1 .. Len(s) /\ t[j] = s[j] /\ t[k] = <<m, k - Len(s)>>
          BY <1>1, <1>2, <1>3, <2>1, <2>3
    <3>2. s[Len(s)][2] = Size[s[Len(s)][1]]
          BY <2>1, <2>3, <1>4, EmptySeq
    <3>3. /\ s[j][1] \in Msg /\ s[j][2] \in Nat /\ Size[s[j][1]] \in Nat /\ s[j][2] <= Size[s[j][1]]
          /\ s[j][1] < m
          BY <3>1, FramedBytes, Zenon
    <3>4. ~(k - j <= Size[s[j][1]] - s[j][2])
      <4>1. CASE j = Len(s)
            BY <2>1, <3>1, <3>2, <3>3, <4>1
      <4>2. CASE j < Len(s)
        <5>1. IF Len(s) - j <= Size[s[j][1]] - s[j][2]
              THEN s[Len(s)] = <<s[j][1], s[j][2] + (Len(s) - j)>> ELSE s[Len(s)][1] > s[j][1]
              BY <3>1, <4>2, Zenon DEF Framed
        <5>2. CASE Len(s) - j <= Size[s[j][1]] - s[j][2]
          <6>1. s[j][2] + (Len(s) - j) = Size[s[j][1]]
                BY <3>2, <5>1, <5>2
          <6>2. \A x, z \in Nat : x + (Len(s) - j) = z => ~(k - j <= z - x)
                BY <2>1, <2>3, LenProperties
          <6> QED
                BY <3>3, <6>1, <6>2, Zenon
        <5> QED
              BY <1>1, <2>1, <2>3, <3>3, <5>2
      <4> QED
            BY <1>1, <2>1, <2>3, <4>1, <4>2
    <3>5. t[k][1] = m
          BY <3>1
    <3> QED
          BY <3>1, <3>3, <3>4, <3>5, Zenon DEF Msg
  <2>4. CASE ~(j <= Len(s))
    <3>1. t[j] = <<m, j - Len(s)>> /\ t[k] = <<m, k - Len(s)>>
      <4>1. j \in 1 .. Len(s) + Size[m] /\ k \in 1 .. Len(s) + Size[m] /\ ~(k <= Len(s))
            BY <1>1, <2>1, <2>4
      <4> QED
            BY <1>3, <2>4, <4>1, Zenon
    <3>2. k - j <= Size[m] - (j - Len(s)) /\ (j - Len(s)) + (k - j) = k - Len(s)
          BY <1>1, <2>1
    <3> QED
          BY <3>1, <3>2
  <2> QED
        BY <1>1, <2>1, <2>2, <2>3, <2>4, Zenon
<1>7. ASSUME NEW k \in 2 .. Len(t), t[k][2] # 1 PROVE t[k - 1][1] = t[k][1]
  <2>1. k \in 1 .. Len(t) /\ k - 1 \in 1 .. Len(t) /\ k \in Nat /\ k >= 2
        BY <1>1, <1>2, <1>7
  <2>2. CASE k <= Len(s)
    <3>1. k \in 2 .. Len(s) /\ t[k] = s[k] /\ t[k - 1] = s[k - 1]
          BY <1>1, <1>2, <1>3, <2>1, <2>2
    <3> QED
          BY <1>7, <3>1, Zenon DEF Framed
  <2>3. CASE ~(k <= Len(s))
    <3>1. t[k] = <<m, k - Len(s)>>
          BY <1>2, <1>3, <2>1, <2>3, Zenon
    <3>2. ~(k - 1 <= Len(s))
          BY <1>1, <1>7, <2>1, <2>3, <3>1
    <3>3. t[k - 1] = <<m, (k - 1) - Len(s)>>
          BY <1>2, <1>3, <2>1, <3>2, Zenon
    <3> QED
          BY <3>1, <3>3
  <2> QED
        BY <2>2, <2>3, Zenon
<1>8. Framed(t)
      BY <1>5, <1>6, <1>7, Zenon DEF Framed
<1>9. t[Len(s) + Size[m]] = <<m, Size[m]>> /\ t # <<>>
  <2>1. /\ Len(s) + Size[m] \in 1 .. Len(s) + Size[m] /\ ~(Len(s) + Size[m] <= Len(s))
        /\ (Len(s) + Size[m]) - Len(s) = Size[m] /\ Len(t) # 0
        BY <1>1, <1>2
  <2> QED
        BY <1>3, <2>1, EmptySeq, Zenon
<1>10. t[1] = IF s = <<>> THEN <<m, 1>> ELSE s[1]
  <2>1. 1 \in 1 .. Len(s) + Size[m]
        BY <1>1
  <2>2. CASE s = <<>>
    <3>1. Len(s) = 0
          BY <2>2, EmptySeq, Zenon
    <3> QED
          BY <1>3, <2>1, <2>2, <3>1
  <2>3. CASE s # <<>>
    <3>1. 1 <= Len(s)
          BY <1>1, <1>4, <2>3
    <3> QED
          BY <1>3, <2>1, <2>3, <3>1, Zenon
  <2> QED
        BY <2>2, <2>3, Zenon
<1> QED
      BY <1>2, <1>3, <1>8, <1>9, <1>10, Zenon DEF t, b

-----------------------------------------------------------------------------
(* What the steps do. *)

\* The types of the parts of the stream.
LEMMA StreamTypes ==
    ASSUME SenderTypeOK, WayTypeOK
    PROVE  /\ src \in Seq(Byte) /\ wire \in Seq(Byte) /\ buffer \in Seq(Byte)
           /\ Stream \in Seq(Byte) /\ Len(Stream) = Len(src) + Len(wire) + Len(buffer)
           /\ Len(src) \in Nat /\ Len(wire) \in Nat /\ Len(buffer) \in Nat /\ Len(Stream) \in Nat
<1>1. src \in Seq(Byte) /\ wire \in Seq(Byte) /\ buffer \in Seq(Byte)
      BY Zenon DEF SenderTypeOK, WayTypeOK, Byte
<1>2. Stream \in Seq(Byte) /\ Len(Stream) = Len(src) + Len(wire) + Len(buffer)
      BY <1>1, ThreeParts DEF Stream
<1>3. Len(src) \in Nat /\ Len(wire) \in Nat /\ Len(buffer) \in Nat
      BY <1>1, LenProperties, Zenon
<1> QED
      BY <1>1, <1>2, <1>3

Joined(a, b, c) == a \o b \o c

\* What moves between two parts of a stream leaves it as it is.
LEMMA MovedWithin ==
    ASSUME NEW a \in Seq(Byte), NEW b \in Seq(Byte), NEW c \in Seq(Byte),
           NEW d \in Seq(Byte), NEW e \in Seq(Byte), NEW f \in Seq(Byte),
           Len(d) + Len(e) + Len(f) = Len(a) + Len(b) + Len(c),
           \A k \in 1 .. Len(a) + Len(b) + Len(c) :
               Place(d, e, f, k) = Place(a, b, c, k)
    PROVE  Joined(d, e, f) = Joined(a, b, c)
<1> DEFINE s == a \o b \o c
           t == d \o e \o f
<1>1. /\ s \in Seq(Byte) /\ Len(s) = Len(a) + Len(b) + Len(c)
      /\ \A k \in 1 .. Len(a) + Len(b) + Len(c) : s[k] = Place(a, b, c, k)
      BY ThreeParts DEF Place
<1>2. /\ t \in Seq(Byte) /\ Len(t) = Len(d) + Len(e) + Len(f)
      /\ \A k \in 1 .. Len(d) + Len(e) + Len(f) : t[k] = Place(d, e, f, k)
      BY ThreeParts DEF Place
<1> HIDE DEF s, t
<1>3. Len(s) = Len(t) /\ \A k \in 1 .. Len(s) : s[k] = t[k]
      BY <1>1, <1>2, Zenon
<1>4. s \in Seq(Byte) /\ t \in Seq(Byte)
      BY <1>1, <1>2, Zenon
<1>5. s = t
      BY <1>3, <1>4, SeqEqual, Zenon
<1> QED
      BY <1>5, Zenon DEF s, t, Joined

\* A byte that enters the socket.
LEMMA FlushKeepsStream ==
    ASSUME NEW a \in Seq(Byte), NEW b \in Seq(Byte), NEW c \in Seq(Byte), c # <<>>
    PROVE  /\ Append(b, Head(c)) \in Seq(Byte) /\ Tail(c) \in Seq(Byte)
           /\ Len(Append(b, Head(c))) = Len(b) + 1
           /\ Joined(a, Append(b, Head(c)), Tail(c)) = Joined(a, b, c)
<1>1. Len(a) \in Nat /\ Len(b) \in Nat /\ Len(c) \in Nat \ {0} /\ c[1] = Head(c) /\ Head(c) \in Byte
      BY LenProperties, EmptySeq, HeadTailProperties
<1> DEFINE e == Append(b, Head(c))
           f == Tail(c)
<1>2. /\ e \in Seq(Byte) /\ Len(e) = Len(b) + 1
      /\ \A k \in 1 .. Len(b) : e[k] = b[k]
      /\ e[Len(b) + 1] = c[1]
      BY <1>1, AppendProperties
<1>3. /\ f \in Seq(Byte) /\ Len(f) = Len(c) - 1
      /\ \A k \in 1 .. Len(f) : f[k] = c[k + 1]
      BY HeadTailProperties, Zenon
<1> HIDE DEF e, f
<1>4. Len(a) + Len(e) + Len(f) = Len(a) + Len(b) + Len(c)
      BY <1>1, <1>2, <1>3
<1>5. ASSUME NEW k \in 1 .. Len(a) + Len(b) + Len(c)
      PROVE  Place(a, e, f, k) = Place(a, b, c, k)
  <2> USE DEF Place
  <2>1. CASE k <= Len(a)
        BY <2>1, Zenon
  <2>2. CASE ~(k <= Len(a)) /\ k <= Len(a) + Len(b)
    <3>1. k <= Len(a) + Len(e) /\ k - Len(a) \in 1 .. Len(b)
          BY <1>1, <1>2, <2>2
    <3> QED
          BY <1>2, <2>2, <3>1, Zenon
  <2>3. CASE k = Len(a) + Len(b) + 1
    <3>1. /\ ~(k <= Len(a)) /\ k <= Len(a) + Len(e) /\ ~(k <= Len(a) + Len(b))
          /\ k - Len(a) = Len(b) + 1 /\ k - (Len(a) + Len(b)) = 1
          BY <1>1, <1>2, <2>3
    <3> QED
          BY <1>2, <3>1, Zenon
  <2>4. CASE k > Len(a) + Len(b) + 1
    <3>1. /\ ~(k <= Len(a)) /\ ~(k <= Len(a) + Len(e)) /\ ~(k <= Len(a) + Len(b))
          /\ k - (Len(a) + Len(e)) \in 1 .. Len(f)
          /\ (k - (Len(a) + Len(e))) + 1 = k - (Len(a) + Len(b))
          BY <1>1, <1>2, <1>3, <2>4
    <3> QED
          BY <1>3, <3>1, Zenon
  <2> QED
        BY <1>1, <2>1, <2>2, <2>3, <2>4
<1>6. Joined(a, e, f) = Joined(a, b, c)
  <2>1. e \in Seq(Byte) /\ f \in Seq(Byte)
        BY <1>2, <1>3, Zenon
  <2> QED
        BY <1>4, <1>5, <2>1, MovedWithin
<1> QED
      BY <1>2, <1>3, <1>6, Zenon DEF e, f

\* Bytes that leave it.
LEMMA ReadKeepsStream ==
    ASSUME NEW a \in Seq(Byte), NEW b \in Seq(Byte), NEW c \in Seq(Byte), NEW n \in 1 .. Len(b)
    PROVE  /\ a \o SubSeq(b, 1, n) \in Seq(Byte) /\ SubSeq(b, n + 1, Len(b)) \in Seq(Byte)
           /\ Len(SubSeq(b, n + 1, Len(b))) = Len(b) - n
           /\ Joined(a \o SubSeq(b, 1, n), SubSeq(b, n + 1, Len(b)), c) = Joined(a, b, c)
<1>1. Len(a) \in Nat /\ Len(b) \in Nat /\ Len(c) \in Nat /\ n \in Nat /\ n >= 1 /\ n <= Len(b)
      BY LenProperties
<1>2. (\A i \in 1 .. n : b[i] \in Byte) /\ (\A i \in n + 1 .. Len(b) : b[i] \in Byte)
      BY <1>1, ElementOfSeq
<1> DEFINE g == SubSeq(b, 1, n)
           e == SubSeq(b, n + 1, Len(b))
           d == a \o g
<1>3. /\ g \in Seq(Byte) /\ Len(g) = n /\ \A k \in 1 .. n : g[k] = b[k]
  <2>1. /\ g \in Seq(Byte) /\ Len(g) = IF 1 <= n THEN n - 1 + 1 ELSE 0
        /\ \A i \in 1 .. n - 1 + 1 : g[i] = b[1 + i - 1]
        BY <1>1, <1>2, SubSeqProperties
  <2> HIDE DEF g
  <2>2. n - 1 + 1 = n /\ \A i \in 1 .. n : 1 + i - 1 = i
        BY <1>1
  <2> QED
        BY <1>1, <2>1, <2>2, Zenon
<1>4. /\ e \in Seq(Byte) /\ Len(e) = Len(b) - n /\ \A k \in 1 .. Len(b) - n : e[k] = b[k + n]
  <2>1. /\ e \in Seq(Byte) /\ Len(e) = IF n + 1 <= Len(b) THEN Len(b) - (n + 1) + 1 ELSE 0
        /\ \A i \in 1 .. Len(b) - (n + 1) + 1 : e[i] = b[(n + 1) + i - 1]
        BY <1>1, <1>2, SubSeqProperties
  <2> HIDE DEF e
  <2>2. /\ Len(b) - (n + 1) + 1 = Len(b) - n /\ \A i \in 1 .. Len(b) - n : (n + 1) + i - 1 = i + n
        /\ (IF n + 1 <= Len(b) THEN Len(b) - (n + 1) + 1 ELSE 0) = Len(b) - n
        BY <1>1
  <2> QED
        BY <2>1, <2>2, Zenon
<1> HIDE DEF g, e
<1>5. /\ d \in Seq(Byte) /\ Len(d) = Len(a) + n
      /\ \A k \in 1 .. Len(a) + n : d[k] = IF k <= Len(a) THEN a[k] ELSE g[k - Len(a)]
  <2>1. g \in Seq(Byte) /\ Len(g) = n
        BY <1>3, Zenon
  <2>2. /\ d \in Seq(Byte) /\ Len(d) = Len(a) + Len(g)
        /\ \A k \in 1 .. Len(a) + Len(g) : d[k] = IF k <= Len(a) THEN a[k] ELSE g[k - Len(a)]
        BY <2>1, ConcatProperties, Zenon
  <2> HIDE DEF d
  <2> QED
        BY <2>1, <2>2, Zenon
<1> HIDE DEF d
<1>6. Len(d) + Len(e) + Len(c) = Len(a) + Len(b) + Len(c)
      BY <1>1, <1>4, <1>5
<1>7. ASSUME NEW k \in 1 .. Len(a) + Len(b) + Len(c)
      PROVE  Place(d, e, c, k) = Place(a, b, c, k)
  <2> USE DEF Place
  <2>1. CASE k <= Len(a)
    <3>1. k <= Len(d) /\ k \in 1 .. Len(a) + n
          BY <1>1, <1>5, <2>1
    <3> QED
          BY <1>5, <2>1, <3>1, Zenon
  <2>2. CASE ~(k <= Len(a)) /\ k <= Len(d)
    <3>1. k \in 1 .. Len(a) + n /\ k - Len(a) \in 1 .. n /\ k <= Len(a) + Len(b)
          BY <1>1, <1>5, <2>2
    <3> QED
          BY <1>3, <1>5, <2>2, <3>1, Zenon
  <2>3. CASE ~(k <= Len(d)) /\ k <= Len(d) + Len(e)
    <3>1. /\ ~(k <= Len(a)) /\ k <= Len(a) + Len(b) /\ k - Len(d) \in 1 .. Len(b) - n
          /\ (k - Len(d)) + n = k - Len(a)
          BY <1>1, <1>4, <1>5, <2>3
    <3> QED
          BY <1>4, <2>3, <3>1, Zenon
  <2>4. CASE ~(k <= Len(d) + Len(e))
    <3>1. /\ ~(k <= Len(d)) /\ ~(k <= Len(a)) /\ ~(k <= Len(a) + Len(b))
          /\ Len(d) + Len(e) = Len(a) + Len(b)
          BY <1>1, <1>4, <1>5, <2>4
    <3> QED
          BY <2>4, <3>1, Zenon
  <2> QED
        BY <2>1, <2>2, <2>3, <2>4, Zenon
<1>8. Joined(d, e, c) = Joined(a, b, c)
  <2>1. d \in Seq(Byte) /\ e \in Seq(Byte)
        BY <1>4, <1>5, Zenon
  <2> QED
        BY <1>6, <1>7, <2>1, MovedWithin
<1> QED
      BY <1>4, <1>5, <1>8, Zenon DEF d, e, g

\* The stream stays as it is, loses what the reader had, or loses what the writer had.
Kept ==
    /\ Stream' = Stream /\ acc' = acc
    /\ (reader' = "ended") = (reader = "ended") /\ (writer' = "ended") = (writer = "ended")
Stopped ==
    /\ reader' = "ended" /\ writer' = writer
    /\ Stream' \in Seq(Byte) /\ Without(Stream', Stream, Len(src))
Lost ==
    /\ writer' = "ended" /\ UNCHANGED <<reader, acc>>
    /\ Stream' \in Seq(Byte) /\ Len(Stream') <= Len(Stream)
    /\ \A k \in 1 .. Len(Stream') : Stream'[k] = Stream[k]

\* What a step does to the stream, unless it encodes or decodes.
LEMMA StreamSteps ==
    ASSUME SenderTypeOK, WayTypeOK, [Next]_vars
    PROVE  Kept \/ Stopped \/ Lost \/ Feed \/ Decode \/ \E n \in 0 .. SocketBuffer : DecodePartial(n)
<1> USE DEF queueVars, writerVars, senderVars
<1>0. src \in Seq(Byte) /\ wire \in Seq(Byte) /\ buffer \in Seq(Byte) /\ Len(src) \in Nat
      BY StreamTypes, Zenon
<1>1. ASSUME UNCHANGED <<src, wire, buffer, acc, reader, writer>> PROVE Kept
      BY <1>1, Zenon DEF Kept, Stream
<1>2. ASSUME NEW m \in Msg, QueueMessage(m) PROVE Kept
      BY <1>1, <1>2, Zenon DEF QueueMessage, receiverVars, readerVars
<1>3. ASSUME UNCHANGED <<src, wire, buffer, acc, reader>>, writer # "ended", writer' # "ended"
      PROVE  Kept
      BY <1>3, Zenon DEF Kept, Stream
<1>4. CASE RecvMany \/ BatchWritten \/ RegisterSent \/ SenderCleanup
      BY <1>3, <1>4, Zenon DEF RecvMany, BatchWritten, RegisterSent, SenderCleanup, receiverVars, readerVars
<1>5. CASE WriteError \/ WriteTimeout \/ EncoderPanics \/ AbortWriter
      BY <1>3, <1>5, Zenon DEF WriteError, WriteTimeout, EncoderPanics, AbortWriter, WriteFails,
          receiverVars, readerVars
<1>6. CASE Flush
  <2>1. /\ buffer # <<>> /\ wire' = Append(wire, Head(buffer)) /\ buffer' = Tail(buffer)
        /\ UNCHANGED <<src, acc, reader, writer>>
        BY <1>6, Zenon DEF Flush, receiverVars, readerVars
  <2>2. Joined(src, Append(wire, Head(buffer)), Tail(buffer)) = Joined(src, wire, buffer)
        BY <1>0, <2>1, FlushKeepsStream
  <2>3. Stream' = Stream
        BY <2>1, <2>2, Zenon DEF Stream, Joined
  <2> QED
        BY <2>1, <2>3, Zenon DEF Kept
<1>7. CASE DropReceiver
  <2>1. buffer' = <<>> /\ writer' = "ended" /\ UNCHANGED <<src, wire, acc, reader>>
        BY <1>7, Zenon DEF DropReceiver, receiverVars, readerVars
  <2> DEFINE e == <<>>
             s == src \o wire \o buffer
             t == src \o wire \o e
  <2>2. e \in Seq(Byte) /\ Len(e) = 0
        BY EmptySeq, Zenon
  <2> HIDE DEF e
  <2>3. /\ s \in Seq(Byte) /\ Len(s) = Len(src) + Len(wire) + Len(buffer)
        /\ Len(src) \in Nat /\ Len(wire) \in Nat /\ Len(buffer) \in Nat
        /\ \A k \in 1 .. Len(src) + Len(wire) + Len(buffer) : s[k] = Place(src, wire, buffer, k)
        BY <1>0, ThreeParts DEF Place
  <2>4. /\ t \in Seq(Byte) /\ Len(t) = Len(src) + Len(wire) + Len(e)
        /\ \A k \in 1 .. Len(src) + Len(wire) + Len(e) : t[k] = Place(src, wire, e, k)
        BY <1>0, <2>2, ThreeParts DEF Place
  <2> HIDE DEF s, t
  <2>5. Len(t) = Len(src) + Len(wire) /\ Len(t) <= Len(s)
        BY <2>2, <2>3, <2>4
  <2>6. ASSUME NEW k \in 1 .. Len(t) PROVE t[k] = s[k]
    <3>1. /\ k \in 1 .. Len(src) + Len(wire) + Len(e) /\ k <= Len(src) + Len(wire)
          /\ k \in 1 .. Len(src) + Len(wire) + Len(buffer)
          BY <2>2, <2>3, <2>5
    <3> QED
          BY <2>3, <2>4, <3>1, Zenon DEF Place
  <2>7. Stream = s /\ Stream' = t
        BY <2>1, Zenon DEF Stream, s, t, e
  <2> QED
        BY <2>1, <2>4, <2>5, <2>6, <2>7, Zenon DEF Lost
<1>8. CASE Disconnect \/ ProcessingStep \/ ProcessPanics
      BY <1>1, <1>8, Zenon DEF Disconnect, ProcessingStep, Process, ProcessReturns, ProcessPanics,
          receiverVars, readerVars
<1>9. ASSUME ReaderGone, UNCHANGED <<wire, buffer, writer>> PROVE Stopped
  <2>1. reader' = "ended" /\ src' = <<>>
        BY <1>9, Zenon DEF ReaderGone
  <2>2. SubSeq(src, Len(src) + 1, Len(src)) = <<>>
        BY <1>0, SubSeqEmpty
  <2>3. Len(src) \in 0 .. Len(src)
        BY <1>0
  <2>4. /\ Without(SubSeq(src, Len(src) + 1, Len(src)) \o wire \o buffer, src \o wire \o buffer, Len(src))
        BY <1>0, <2>3, TakenFromFront, Zenon
  <2>5. <<>> \o wire \o buffer \in Seq(Byte)
        BY <1>0, EmptySeq, ThreeParts, Zenon
  <2>6. Stream' = <<>> \o wire \o buffer
        BY <1>9, <2>1, Zenon DEF Stream
  <2>7. Without(Stream', Stream, Len(src))
        BY <2>2, <2>4, <2>6, Zenon DEF Stream
  <2> QED
        BY <1>9, <2>1, <2>5, <2>6, <2>7, Zenon DEF Stopped
<1>10. CASE EndOfStream \/ InboundClosed \/ ReadFails \/ IdleTimeout \/ AbortTasks
      BY <1>9, <1>10, Zenon DEF EndOfStream, InboundClosed, ReadFails, IdleTimeout, AbortTasks
<1>11. CASE ConnReady
  <2>1. CASE ReaderGone
        BY <1>9, <1>11, <2>1, Zenon DEF ConnReady
  <2>2. CASE reader' = "read" /\ UNCHANGED <<src, acc>>
    <3>1. Stream' = Stream /\ reader = "waiting" /\ UNCHANGED <<acc, writer>>
          BY <1>11, <2>2, Zenon DEF ConnReady, Stream
    <3> QED
          BY <2>2, <3>1, Zenon DEF Kept
  <2> QED
        BY <1>11, <2>1, <2>2, Zenon DEF ConnReady
<1>12. ASSUME NEW n \in 0 .. SocketBuffer, Read(n) PROVE Kept
  <2>1. /\ n \in 1 .. Len(wire) /\ src' = src \o SubSeq(wire, 1, n)
        /\ wire' = SubSeq(wire, n + 1, Len(wire))
        /\ reader = "read" /\ reader' = "decode" /\ UNCHANGED <<buffer, acc, writer>>
        BY <1>12, Zenon DEF Read
  <2>2. Joined(src \o SubSeq(wire, 1, n), SubSeq(wire, n + 1, Len(wire)), buffer) = Joined(src, wire, buffer)
        BY <1>0, <2>1, ReadKeepsStream
  <2>3. Stream' = Stream
        BY <2>1, <2>2, Zenon DEF Stream, Joined
  <2> QED
        BY <2>1, <2>3, Zenon DEF Kept
<1>13. CASE Enqueue \/ DropFull
  <2>1. reader = "holding" /\ reader' = "decode" /\ UNCHANGED <<src, wire, buffer, acc, writer>>
        BY <1>13, Zenon DEF Enqueue, DropFull
  <2> QED
        BY <2>1, Zenon DEF Kept, Stream
<1>14. CASE UNCHANGED vars
      BY <1>1, <1>14, Zenon DEF vars, receiverVars, readerVars
<1> QED
      BY <1>2, <1>4, <1>5, <1>6, <1>7, <1>8, <1>10, <1>11, <1>12, <1>13, <1>14, Zenon
      DEF Next, WriterStep, WriterEnd, ReaderStep

-----------------------------------------------------------------------------
(* Encoding and decoding. *)

Extended(s, d) == s \o d

\* What is added to the last part is added to the whole.
LEMMA AddedAtEnd ==
    ASSUME NEW a \in Seq(Byte), NEW b \in Seq(Byte), NEW c \in Seq(Byte), NEW d \in Seq(Byte)
    PROVE  Joined(a, b, c \o d) = Extended(Joined(a, b, c), d)
<1>1. Len(a) \in Nat /\ Len(b) \in Nat /\ Len(c) \in Nat /\ Len(d) \in Nat
      BY LenProperties, Zenon
<1> DEFINE e == c \o d
           s == a \o b \o c
           t == a \o b \o e
           u == s \o d
<1>2. /\ e \in Seq(Byte) /\ Len(e) = Len(c) + Len(d)
      /\ \A k \in 1 .. Len(c) + Len(d) : e[k] = IF k <= Len(c) THEN c[k] ELSE d[k - Len(c)]
      BY ConcatProperties, Zenon
<1>3. /\ s \in Seq(Byte) /\ Len(s) = Len(a) + Len(b) + Len(c)
      /\ \A k \in 1 .. Len(a) + Len(b) + Len(c) : s[k] = Place(a, b, c, k)
      BY ThreeParts DEF Place
<1> HIDE DEF e, s
<1>4. e \in Seq(Byte) /\ s \in Seq(Byte)
      BY <1>2, <1>3, Zenon
<1>5. /\ t \in Seq(Byte) /\ Len(t) = Len(a) + Len(b) + Len(e)
      /\ \A k \in 1 .. Len(a) + Len(b) + Len(e) : t[k] = Place(a, b, e, k)
      BY <1>4, ThreeParts DEF Place
<1>6. /\ u \in Seq(Byte) /\ Len(u) = Len(s) + Len(d)
      /\ \A k \in 1 .. Len(s) + Len(d) : u[k] = IF k <= Len(s) THEN s[k] ELSE d[k - Len(s)]
      BY <1>4, ConcatProperties, Zenon
<1> HIDE DEF t, u
<1>7. Len(t) = Len(u)
      BY <1>1, <1>2, <1>3, <1>5, <1>6
<1>8. ASSUME NEW k \in 1 .. Len(t) PROVE t[k] = u[k]
  <2>1. /\ k \in 1 .. Len(a) + Len(b) + Len(e) /\ k \in 1 .. Len(s) + Len(d)
        BY <1>1, <1>2, <1>3, <1>5
  <2>2. t[k] = Place(a, b, e, k) /\ u[k] = IF k <= Len(s) THEN s[k] ELSE d[k - Len(s)]
        BY <1>5, <1>6, <2>1, Zenon
  <2>3. CASE k <= Len(s)
    <3>1. k \in 1 .. Len(a) + Len(b) + Len(c)
          BY <1>1, <1>3, <2>1, <2>3
    <3>2. u[k] = Place(a, b, c, k)
          BY <1>3, <2>2, <2>3, <3>1, Zenon
    <3>3. ~(k <= Len(a) + Len(b)) => k - (Len(a) + Len(b)) \in 1 .. Len(c) + Len(d)
                                     /\ k - (Len(a) + Len(b)) <= Len(c)
          BY <1>1, <3>1
    <3>4. Place(a, b, e, k) = Place(a, b, c, k)
          BY <1>1, <1>2, <3>1, <3>3, Zenon DEF Place
    <3> QED
          BY <2>2, <3>2, <3>4, Zenon
  <2>4. CASE ~(k <= Len(s))
    <3>1. /\ ~(k <= Len(a)) /\ ~(k <= Len(a) + Len(b))
          /\ k - (Len(a) + Len(b)) \in 1 .. Len(c) + Len(d) /\ ~(k - (Len(a) + Len(b)) <= Len(c))
          /\ (k - (Len(a) + Len(b))) - Len(c) = k - Len(s)
          BY <1>1, <1>2, <1>3, <2>1, <2>4
    <3>2. Place(a, b, e, k) = d[k - Len(s)]
          BY <1>2, <3>1, Zenon DEF Place
    <3> QED
          BY <2>2, <2>4, <3>2, Zenon
  <2> QED
        BY <2>3, <2>4, Zenon
<1>9. t \in Seq(Byte) /\ u \in Seq(Byte)
      BY <1>5, <1>6, Zenon
<1>10. t = u
      BY <1>7, <1>8, <1>9, SeqEqual, Zenon
<1> QED
      BY <1>10, Zenon DEF t, u, s, e, Joined, Extended

\* Encoding a message adds it to the stream.
LEMMA FeedStream ==
    ASSUME SenderTypeOK, WayTypeOK, Feed
    PROVE  /\ fed + 1 \in 1 .. Len(batch) /\ fed' = fed + 1 /\ batch[fed + 1] \in Msg
           /\ Stream' = Stream \o Bytes(batch[fed + 1])
           /\ writer # "ended"
           /\ UNCHANGED <<fate, queue, writer, batch, reader, acc, decoded>>
<1>1. /\ fed \in Nat /\ Len(batch) \in Nat /\ fed < Len(batch) /\ fed' = fed + 1
      /\ buffer' = buffer \o Bytes(batch[fed + 1]) /\ writer = "feeding"
      /\ UNCHANGED <<fate, queue, writer, batch, reader, acc, decoded, src, wire>>
      BY DEF Feed, SenderTypeOK, queueVars, receiverVars, readerVars
<1>2. fed + 1 \in 1 .. Len(batch)
      BY <1>1
<1>3. batch[fed + 1] \in Msg
      BY <1>2 DEF SenderTypeOK
<1>4. PICK b \in Seq(Byte) : b = Bytes(batch[fed + 1])
      BY <1>3, BytesOfMessage, Zenon DEF Byte
<1>5. src \in Seq(Byte) /\ wire \in Seq(Byte) /\ buffer \in Seq(Byte)
      BY StreamTypes, Zenon
<1>6. Joined(src, wire, buffer \o b) = Extended(Joined(src, wire, buffer), b)
      BY <1>5, AddedAtEnd
<1>7. Stream' = src \o wire \o (buffer \o b)
      BY <1>1, <1>4, Zenon DEF Stream
<1>8. Stream' = Stream \o b
      BY <1>6, <1>7, Zenon DEF Stream, Joined, Extended
<1> QED
      BY <1>1, <1>2, <1>3, <1>4, <1>8, Zenon

\* The front of the stream is what the reader has.
LEMMA FrontOfStream ==
    ASSUME SenderTypeOK, WayTypeOK
    PROVE  \A k \in 1 .. Len(src) : k \in 1 .. Len(Stream) /\ Stream[k] = src[k]
<1>1. /\ src \in Seq(Byte) /\ wire \in Seq(Byte) /\ buffer \in Seq(Byte)
      /\ Len(Stream) = Len(src) + Len(wire) + Len(buffer)
      /\ Len(src) \in Nat /\ Len(wire) \in Nat /\ Len(buffer) \in Nat
      BY StreamTypes, Zenon
<1>2. \A k \in 1 .. Len(src) + Len(wire) + Len(buffer) : Stream[k] = Place(src, wire, buffer, k)
      BY <1>1, ThreeParts DEF Stream, Place
<1> SUFFICES ASSUME NEW k \in 1 .. Len(src)
             PROVE  k \in 1 .. Len(Stream) /\ Stream[k] = src[k]
      BY Zenon
<1>3. k \in 1 .. Len(src) + Len(wire) + Len(buffer) /\ k <= Len(src)
      BY <1>1
<1> QED
      BY <1>1, <1>2, <1>3, Zenon DEF Place

\* Taking bytes from the reader's buffer takes them from the stream.
LEMMA DecoderTakes ==
    ASSUME SenderTypeOK, WayTypeOK, NEW n \in 0 .. Len(src),
           src' = SubSeq(src, n + 1, Len(src)), UNCHANGED <<wire, buffer>>
    PROVE  src' \in Seq(Byte) /\ Stream' \in Seq(Byte) /\ Without(Stream', Stream, n)
<1>1. src \in Seq(Byte) /\ wire \in Seq(Byte) /\ buffer \in Seq(Byte)
      BY StreamTypes, Zenon
<1>2. /\ SubSeq(src, n + 1, Len(src)) \in Seq(Byte)
      /\ Without(SubSeq(src, n + 1, Len(src)) \o wire \o buffer, src \o wire \o buffer, n)
      BY <1>1, TakenFromFront, Zenon
<1>3. src' \in Seq(Byte) /\ Stream' = SubSeq(src, n + 1, Len(src)) \o wire \o buffer
      BY <1>2, Zenon DEF Stream
<1>4. src' \o wire \o buffer \in Seq(Byte)
      BY <1>1, <1>3, ThreeParts, Zenon
<1>5. Stream' \in Seq(Byte)
      BY <1>4, Zenon DEF Stream
<1>6. Without(Stream', Stream, n)
      BY <1>2, <1>3, Zenon DEF Stream
<1> QED
      BY <1>3, <1>5, <1>6, Zenon

\* The first byte of a reader's buffer, and what is missing of its frame.
LEMMA FirstByte ==
    ASSUME SenderTypeOK, WayTypeOK, Framed(Stream), src # <<>>
    PROVE  /\ 1 \in 1 .. Len(src) /\ 1 \in 1 .. Len(Stream) /\ Stream[1] = src[1] /\ Stream # <<>>
           /\ src[1][1] \in Msg /\ src[1][2] \in Nat /\ Size[src[1][1]] \in Nat
           /\ src[1][2] >= 1 /\ src[1][2] <= Size[src[1][1]]
           /\ FrameRest = Size[src[1][1]] - src[1][2] + 1 /\ FrameRest \in Nat \ {0}
           /\ \A k \in 2 .. Len(Stream) :
                 IF k - 1 < FrameRest THEN Stream[k] = <<src[1][1], src[1][2] + (k - 1)>>
                                      ELSE Stream[k][1] > src[1][1]
<1>1. /\ src \in Seq(Byte) /\ Stream \in Seq(Byte) /\ Len(src) \in Nat /\ Len(Stream) \in Nat
      BY StreamTypes, Zenon
<1>2. 1 \in 1 .. Len(src)
      BY <1>1, EmptySeq
<1>3. 1 \in 1 .. Len(Stream) /\ Stream[1] = src[1]
      BY <1>2, FrontOfStream, Zenon
<1>4. Stream # <<>>
      BY <1>1, <1>3, EmptySeq
<1>5. /\ src[1][1] \in Msg /\ src[1][2] \in Nat /\ Size[src[1][1]] \in Nat
      /\ src[1][2] >= 1 /\ src[1][2] <= Size[src[1][1]]
      BY <1>1, <1>3, FramedBytes, Zenon
<1>6. FrameRest = Size[src[1][1]] - src[1][2] + 1 /\ FrameRest \in Nat \ {0}
      BY <1>5 DEF FrameRest
<1>7. ASSUME NEW k \in 2 .. Len(Stream)
      PROVE  IF k - 1 < FrameRest THEN Stream[k] = <<src[1][1], src[1][2] + (k - 1)>>
                                  ELSE Stream[k][1] > src[1][1]
  <2>1. k \in 1 .. Len(Stream) /\ 1 < k
        BY <1>1
  <2>2. IF k - 1 <= Size[Stream[1][1]] - Stream[1][2]
        THEN Stream[k] = <<Stream[1][1], Stream[1][2] + (k - 1)>> ELSE Stream[k][1] > Stream[1][1]
        BY <1>3, <2>1, Zenon DEF Framed
  <2>3. \A x, z \in Nat : (k - 1 <= z - x) <=> (k - 1 < z - x + 1)
        BY <2>1
  <2>4. k - 1 <= Size[src[1][1]] - src[1][2] <=> k - 1 < FrameRest
        BY <1>5, <1>6, <2>3, Zenon
  <2> QED
        BY <1>3, <2>2, <2>4, Zenon
<1> QED
      BY <1>2, <1>3, <1>4, <1>5, <1>6, <1>7, Zenon

\* Decoding takes a message that is earlier than the rest of the stream, and counts all of
\* its bytes; what comes next is the beginning of a message.
LEMMA DecodeStream ==
    ASSUME SenderTypeOK, WayTypeOK, Framed(Stream), PartialCounted, Decode
    PROVE  \E m \in Msg :
              /\ m \in Streamed /\ decoded' = Append(decoded, m)
              /\ received' = <<received[1] + 1, received[2] + Size[m]>> /\ acc' = 0
              /\ src' \in Seq(Byte) /\ Stream' \in Seq(Byte)
              /\ \E n \in 1 .. Len(src) : Without(Stream', Stream, n)
              /\ \A k \in 1 .. Len(Stream') : Stream'[k][1] > m
              /\ Stream' # <<>> => Stream'[1][2] = 1
<1> DEFINE m == src[1][1]
           x == src[1][2]
           n == FrameRest
<1>1. /\ src # <<>> /\ Len(src) >= n /\ src' = SubSeq(src, n + 1, Len(src))
      /\ decoded' = Append(decoded, m) /\ account(n, TRUE) /\ reader = "decode"
      /\ UNCHANGED <<wire, buffer>>
      BY Zenon DEF Decode, FrameComplete, senderVars, writerVars
<1>2. /\ 1 \in 1 .. Len(src) /\ 1 \in 1 .. Len(Stream) /\ Stream[1] = src[1] /\ Stream # <<>>
      /\ m \in Msg /\ x \in Nat /\ Size[m] \in Nat /\ x >= 1 /\ x <= Size[m]
      /\ n = Size[m] - x + 1 /\ n \in Nat \ {0}
      /\ \A k \in 2 .. Len(Stream) : IF k - 1 < n THEN Stream[k] = <<m, x + (k - 1)>>
                                                  ELSE Stream[k][1] > m
      BY <1>1, FirstByte, Zenon
<1>3. /\ Len(src) \in Nat /\ Len(Stream) \in Nat /\ Stream \in Seq(Byte)
      /\ Len(Stream) = Len(src) + Len(wire) + Len(buffer) /\ Len(wire) \in Nat /\ Len(buffer) \in Nat
      BY StreamTypes, Zenon
<1>4. acc = x - 1
      BY <1>1, <1>2, Zenon DEF PartialCounted
<1>5. m \in Streamed
      BY <1>2, Zenon DEF Streamed
<1> HIDE DEF m, x, n
<1>6. /\ n \in Nat /\ n # 0 /\ Size[m] \in Nat /\ n + acc = Size[m] /\ Size[m] # 0
      /\ Len(src) >= n /\ Len(Stream) >= Len(src)
  <2>1. n \in Nat \ {0} /\ Size[m] \in Nat /\ x \in Nat /\ x >= 1 /\ x <= Size[m] /\ n = Size[m] - x + 1
        BY <1>2, Zenon
  <2>2. Len(src) >= n
        BY <1>1, Zenon
  <2>3. Len(Stream) >= Len(src)
        BY <1>3
  <2>4. n + acc = Size[m]
        BY <1>4, <2>1
  <2> QED
        BY <2>1, <2>2, <2>3, <2>4
<1>7. received' = <<received[1] + 1, received[2] + Size[m]>> /\ acc' = 0
  <2>1. account(n, TRUE)
        BY <1>1, Zenon
  <2> QED
        BY <1>6, <2>1, Zenon DEF account
<1>8. n \in 0 .. Len(src) /\ n \in 1 .. Len(src) /\ n <= Len(Stream)
  <2>1. Len(src) \in Nat /\ Len(Stream) \in Nat
        BY <1>3, Zenon
  <2> QED
        BY <1>6, <2>1
<1>9. src' \in Seq(Byte) /\ Stream' \in Seq(Byte) /\ Without(Stream', Stream, n)
      BY <1>1, <1>8, DecoderTakes, Zenon
<1> DEFINE t == Stream'
<1>10. t \in Seq(Byte) /\ Len(t) \in Nat /\ Len(t) = Len(Stream) - n
       /\ \A k \in 1 .. Len(t) : t[k] = Stream[k + n]
      BY <1>9, LenProperties, Zenon DEF Without
<1> HIDE DEF t
<1>11. ASSUME NEW k \in 1 .. Len(t) PROVE t[k][1] > m
  <2>1. Len(t) \in Nat /\ Len(Stream) \in Nat /\ Len(t) = Len(Stream) - n /\ t[k] = Stream[k + n]
        BY <1>3, <1>10, Zenon
  <2>2. k + n \in 2 .. Len(Stream) /\ ~((k + n) - 1 < n)
        BY <1>6, <2>1
  <2>3. Stream[k + n][1] > m
        BY <1>2, <2>2, Zenon
  <2> QED
        BY <2>1, <2>3, Zenon
<1>12. ASSUME t # <<>> PROVE t[1][2] = 1
  <2>1. 1 \in 1 .. Len(t) /\ n + 1 \in 2 .. Len(Stream) /\ 1 + n = n + 1 /\ (n + 1) - 1 = n
    <3>1. Len(t) \in Nat \ {0} /\ Len(Stream) \in Nat /\ Len(t) = Len(Stream) - n
          BY <1>3, <1>10, <1>12, EmptySeq, Zenon
    <3> QED
          BY <1>6, <3>1
  <2>2. t[1] = Stream[n + 1] /\ Stream[n + 1][1] > m
    <3>1. t[1] = Stream[1 + n] /\ t[1][1] > m
          BY <1>10, <1>11, <2>1, Zenon
    <3> QED
          BY <2>1, <3>1, Zenon
  <2>3. Stream[n][1] = m
    <3>1. CASE n = 1
          BY <1>2, <3>1, Zenon DEF m
    <3>2. CASE n # 1
      <4>1. n \in 2 .. Len(Stream) /\ n - 1 < n
            BY <1>3, <1>6, <1>8, <3>2
      <4>2. Stream[n] = <<m, x + (n - 1)>>
            BY <1>2, <4>1, Zenon
      <4> QED
            BY <4>2
    <3> QED
          BY <3>1, <3>2, Zenon
  <2>4. Stream[n + 1][2] # 1 => Stream[n][1] = Stream[n + 1][1]
        BY <2>1, Zenon DEF Framed
  <2>5. Stream[n + 1][1] # m
    <3>1. m \in Nat
          BY <1>2, MessagesAssumption DEF Msg
    <3> QED
          BY <2>2, <3>1
  <2> QED
        BY <2>2, <2>3, <2>4, <2>5, Zenon
<1> QED
      BY <1>1, <1>2, <1>5, <1>7, <1>8, <1>9, <1>11, <1>12, Zenon DEF t

\* A call of the decoder that produces nothing counts what it takes; as long as the writer
\* goes on, it does not take all there is.
LEMMA PartialStream ==
    ASSUME SenderTypeOK, WayTypeOK, Framed(Stream), StreamWhole, PartialCounted,
           NEW n, DecodePartial(n)
    PROVE  /\ src' \in Seq(Byte) /\ Stream' \in Seq(Byte) /\ n \in 0 .. Len(src)
           /\ Without(Stream', Stream, n)
           /\ reader = "decode" /\ reader' = "read" /\ acc' \in Nat
           /\ Stream' # <<>> => acc' = Stream'[1][2] - 1
           /\ Stream' = <<>> /\ writer # "ended" => acc' = 0
           /\ UNCHANGED <<received, decoded, writer>>
<1>1. /\ n \in 0 .. Len(src) /\ src' = SubSeq(src, n + 1, Len(src)) /\ acc' = n + acc
      /\ reader = "decode" /\ reader' = "read"
      /\ UNCHANGED <<wire, buffer, received, decoded, writer>>
  <2>1. account(n, FALSE)
        BY Zenon DEF DecodePartial
  <2>2. acc' = n + acc /\ UNCHANGED received
        BY <2>1, Zenon DEF account
  <2> QED
        BY <2>2, Zenon DEF DecodePartial, senderVars, writerVars
<1>2. src' \in Seq(Byte) /\ Stream' \in Seq(Byte) /\ Without(Stream', Stream, n)
      BY <1>1, DecoderTakes, Zenon
<1>3. /\ src \in Seq(Byte) /\ Stream \in Seq(Byte) /\ Len(src) \in Nat /\ Len(Stream) \in Nat
      /\ acc \in Nat /\ n \in Nat /\ n <= Len(src)
      BY <1>1, StreamTypes DEF WayTypeOK
<1> DEFINE t == Stream'
<1>4. t \in Seq(Byte) /\ Len(t) \in Nat /\ Len(t) = Len(Stream) - n
       /\ \A k \in 1 .. Len(t) : t[k] = Stream[k + n]
      BY <1>2, LenProperties, Zenon DEF Without
<1>5. /\ Stream # <<>> => acc = Stream[1][2] - 1
      /\ Stream = <<>> /\ writer # "ended" => acc = 0
      BY <1>1, Zenon DEF PartialCounted, StreamWhole
<1> HIDE DEF t
<1>6. (t # <<>> => acc' = t[1][2] - 1) /\ (t = <<>> /\ writer # "ended" => acc' = 0)
  <2>1. CASE n = 0
    <3>1. Len(t) = Len(Stream) /\ acc' = acc
          BY <1>1, <1>3, <1>4, <2>1
    <3>2. t = <<>> <=> Stream = <<>>
          BY <1>3, <1>4, <3>1, EmptySeq, Zenon
    <3>3. t # <<>> => 1 \in 1 .. Len(t) /\ 1 + n = 1
          BY <1>4, <2>1, EmptySeq
    <3>4. t # <<>> => t[1] = Stream[1]
          BY <1>4, <3>3
    <3> QED
          BY <1>5, <3>1, <3>2, <3>4, Zenon
  <2>2. CASE n # 0
    <3> DEFINE m == src[1][1]
               x == src[1][2]
    <3>1. src # <<>>
          BY <1>3, <2>2, EmptySeq
    <3>2. /\ 1 \in 1 .. Len(Stream) /\ Stream[1] = src[1] /\ Stream # <<>>
          /\ m \in Msg /\ x \in Nat /\ Size[m] \in Nat /\ FrameRest = Size[m] - x + 1
          /\ \A k \in 2 .. Len(Stream) : k - 1 < FrameRest => Stream[k] = <<m, x + (k - 1)>>
          BY <3>1, FirstByte, Zenon
    <3>3. n < FrameRest
      <4>1. Len(src) < FrameRest
            BY <1>3, <3>1, <3>2 DEF DecodePartial, FrameComplete
      <4>2. FrameRest \in Int
            BY <3>2
      <4> QED
            BY <1>3, <4>1, <4>2
    <3>4. acc = x - 1
          BY <1>5, <3>2, Zenon
    <3>5. Stream[1] = <<m, x>>
      <4>1. Stream[1] \in Byte
            BY <1>3, <3>2, ElementOfSeq, Zenon
      <4> QED
            BY <3>2, <4>1 DEF Byte
    <3> HIDE DEF m, x
    <3>6. ASSUME t # <<>> PROVE acc' = t[1][2] - 1
      <4>1. 1 \in 1 .. Len(t) /\ 1 + n = n + 1 /\ n + 1 \in 2 .. Len(Stream) /\ (n + 1) - 1 = n
        <5>1. Len(t) \in Nat \ {0} /\ Len(t) = Len(Stream) - n
              BY <1>4, <3>6, EmptySeq, Zenon
        <5> QED
              BY <1>3, <2>2, <5>1
      <4>2. t[1] = Stream[n + 1]
            BY <1>4, <4>1, Zenon
      <4>3. Stream[n + 1] = <<m, x + n>>
            BY <3>2, <3>3, <4>1, Zenon
      <4>4. acc' = (x + n) - 1
            BY <1>1, <1>3, <3>2, <3>4
      <4> QED
            BY <4>2, <4>3, <4>4
    <3>7. ASSUME t = <<>>, writer # "ended" PROVE FALSE
      <4>1. Len(Stream) = n
        <5>1. Len(t) = 0 /\ Len(t) = Len(Stream) - n
              BY <1>4, <3>7, EmptySeq, Zenon
        <5> QED
              BY <1>3, <5>1
      <4>2. Stream[n][2] = Size[Stream[n][1]]
            BY <3>2, <3>7, <4>1, Zenon DEF StreamWhole
      <4>3. Stream[n] = <<m, x + (n - 1)>>
        <5>1. CASE n = 1
          <6>1. x + (n - 1) = x
                BY <3>2, <5>1
          <6> QED
                BY <3>5, <5>1, <6>1, Zenon
        <5>2. CASE n # 1
          <6>1. n \in 2 .. Len(Stream) /\ n - 1 < FrameRest
            <7>1. FrameRest \in Int
                  BY <3>2
            <7> QED
                  BY <1>3, <2>2, <3>3, <4>1, <5>2, <7>1
          <6> QED
                BY <3>2, <6>1, Zenon
        <5> QED
              BY <5>1, <5>2, Zenon
      <4>4. x + (n - 1) = Size[m]
            BY <4>2, <4>3
      <4>5. m \in Msg /\ x \in Nat /\ Size[m] \in Nat /\ FrameRest = Size[m] - x + 1
            BY <3>2, Zenon
      <4> QED
            BY <1>3, <3>3, <4>4, <4>5
    <3> QED
          BY <3>6, <3>7, Zenon
  <2> QED
        BY <2>1, <2>2, Zenon
<1>7. acc' \in Nat
      BY <1>1, <1>3
<1> QED
      BY <1>1, <1>2, <1>6, <1>7, Zenon DEF t

\* The stream stays framed, the frame in progress counted.
LEMMA NextStream ==
    ASSUME IInv, WayInv, [Next]_vars
    PROVE  Framed(Stream)' /\ StreamWhole' /\ PartialCounted' /\ Stream' \in Seq(Byte)
<1>0. /\ SenderTypeOK /\ WayTypeOK /\ Framed(Stream) /\ StreamWhole /\ PartialCounted /\ InOrder
      BY Zenon DEF IInv, WayInv
<1>1. Stream \in Seq(Byte) /\ Len(Stream) \in Nat /\ Len(src) \in Nat
      BY <1>0, StreamTypes, Zenon
<1> DEFINE t == Stream'
<1> SUFFICES /\ Framed(t) /\ t \in Seq(Byte)
             /\ writer' # "ended" => IF t # <<>> THEN t[Len(t)][2] = Size[t[Len(t)][1]]
                                                 ELSE reader' # "ended" => acc' = 0
             /\ reader' # "ended" /\ t # <<>> => acc' = t[1][2] - 1
      BY Zenon DEF Framed, StreamWhole, PartialCounted
<1>2. ASSUME NEW n \in Nat, Without(t, Stream, n), t \in Seq(Byte)
      PROVE  /\ Framed(t)
             /\ writer # "ended" /\ t # <<>> => t[Len(t)][2] = Size[t[Len(t)][1]]
  <2>1. Framed(t)
        BY <1>0, <1>1, <1>2, FramedRest, Zenon
  <2> HIDE DEF t
  <2>2. Len(t) \in Nat /\ Len(t) = Len(Stream) - n /\ \A k \in 1 .. Len(t) : t[k] = Stream[k + n]
        BY <1>2, LenProperties, Zenon DEF Without
  <2>3. ASSUME t # <<>>, writer # "ended" PROVE t[Len(t)][2] = Size[t[Len(t)][1]]
    <3>1. Len(t) \in 1 .. Len(t) /\ Len(t) + n = Len(Stream) /\ Len(Stream) # 0
          BY <1>1, <1>2, <2>2, <2>3, EmptySeq
    <3>2. t[Len(t)] = Stream[Len(Stream)] /\ Stream # <<>>
          BY <1>1, <2>2, <3>1, EmptySeq, Zenon
    <3> QED
          BY <1>0, <2>3, <3>2, Zenon DEF StreamWhole
  <2> QED
        BY <2>1, <2>3, Zenon
<1>3. CASE Kept
      BY <1>0, <1>1, <1>3, Zenon DEF Kept, StreamWhole, PartialCounted
<1>4. CASE Stopped
      BY <1>1, <1>2, <1>4, Zenon DEF Stopped
<1>5. CASE Lost
  <2>1. /\ writer' = "ended" /\ reader' = reader /\ acc' = acc
        /\ t \in Seq(Byte) /\ Len(t) <= Len(Stream) /\ \A k \in 1 .. Len(t) : t[k] = Stream[k]
        BY <1>5, Zenon DEF Lost
  <2> HIDE DEF t
  <2>2. Framed(t)
        BY <1>0, <1>1, <2>1, FramedFront, Zenon
  <2>3. ASSUME t # <<>>, reader # "ended" PROVE acc = t[1][2] - 1
    <3>1. 1 \in 1 .. Len(t) /\ Len(Stream) # 0
          BY <1>1, <2>1, <2>3, EmptySeq
    <3>2. Stream # <<>> /\ t[1] = Stream[1]
          BY <1>1, <2>1, <3>1, EmptySeq, Zenon
    <3> QED
          BY <1>0, <2>3, <3>2, Zenon DEF PartialCounted
  <2> QED
        BY <2>1, <2>2, <2>3, Zenon
<1>6. CASE Feed
  <2>1. PICK m \in Msg : m = batch[fed + 1]
        BY <1>0, <1>6, FeedStream, Zenon
  <2>2. /\ t = Stream \o Bytes(m) /\ fed + 1 \in 1 .. Len(batch) /\ writer # "ended"
        /\ UNCHANGED <<writer, reader, acc>>
        BY <1>0, <1>6, <2>1, FeedStream, Zenon
  <2>3. m \in Unfed
    <3>1. fed + 1 \in fed + 1 .. Len(batch)
          BY <1>0, <2>2 DEF SenderTypeOK
    <3> QED
          BY <2>1, <3>1, Zenon DEF Unfed
  <2>4. \A k \in 1 .. Len(Stream) : Stream[k][1] < m
        BY <1>0, <2>3, Zenon DEF InOrder, Before, Streamed
  <2>5. Stream # <<>> => Stream[Len(Stream)][2] = Size[Stream[Len(Stream)][1]]
        BY <1>0, <2>2, Zenon DEF StreamWhole
  <2> DEFINE u == Stream \o Bytes(m)
  <2>6. /\ u \in Seq(Byte) /\ Framed(u) /\ u # <<>> /\ Len(u) = Len(Stream) + Size[m]
        /\ u[Len(Stream) + Size[m]] = <<m, Size[m]>>
        /\ u[1] = IF Stream = <<>> THEN <<m, 1>> ELSE Stream[1]
        BY <1>0, <1>1, <2>4, <2>5, FramedMore, Zenon
  <2>7. t = u
        BY <2>2, Zenon
  <2> HIDE DEF t, u
  <2>8. t[Len(t)][2] = Size[t[Len(t)][1]]
        BY <2>6, <2>7
  <2>9. reader # "ended" => acc = t[1][2] - 1
    <3>1. CASE Stream = <<>>
      <4>1. t[1][2] = 1
            BY <2>6, <2>7, <3>1
      <4>2. reader # "ended" => acc = 0
            BY <1>0, <2>2, <3>1, Zenon DEF StreamWhole
      <4> QED
            BY <4>1, <4>2
    <3>2. CASE Stream # <<>>
          BY <1>0, <2>6, <2>7, <3>2, Zenon DEF PartialCounted
    <3> QED
          BY <3>1, <3>2, Zenon
  <2> QED
        BY <2>2, <2>6, <2>7, <2>8, <2>9, Zenon
<1>7. CASE Decode
  <2>1. t \in Seq(Byte) /\ acc' = 0 /\ (t # <<>> => t[1][2] = 1)
        BY <1>0, <1>7, DecodeStream, Zenon
  <2>2. PICK n \in 1 .. Len(src) : Without(t, Stream, n)
        BY <1>0, <1>7, DecodeStream, Zenon
  <2>3. writer' = writer
        BY <1>7, Zenon DEF Decode, senderVars, writerVars
  <2>4. n \in Nat
        BY <1>1
  <2>5. /\ Framed(t)
        /\ writer # "ended" /\ t # <<>> => t[Len(t)][2] = Size[t[Len(t)][1]]
        BY <1>2, <2>1, <2>2, <2>4, Zenon
  <2> HIDE DEF t
  <2> QED
        BY <2>1, <2>3, <2>5
<1>8. ASSUME NEW n \in 0 .. SocketBuffer, DecodePartial(n)
      PROVE  /\ Framed(t) /\ t \in Seq(Byte)
             /\ writer' # "ended" => IF t # <<>> THEN t[Len(t)][2] = Size[t[Len(t)][1]]
                                                 ELSE reader' # "ended" => acc' = 0
             /\ reader' # "ended" /\ t # <<>> => acc' = t[1][2] - 1
  <2>1. /\ t \in Seq(Byte) /\ Without(t, Stream, n) /\ writer' = writer
        /\ t # <<>> => acc' = t[1][2] - 1
        /\ t = <<>> /\ writer # "ended" => acc' = 0
        BY <1>0, <1>8, PartialStream, Zenon
  <2>2. n \in Nat
        BY MessagesAssumption
  <2>3. t \in Seq(Byte) /\ Without(t, Stream, n)
        BY <2>1, Zenon
  <2>4. /\ Framed(t)
        /\ writer # "ended" /\ t # <<>> => t[Len(t)][2] = Size[t[Len(t)][1]]
        BY <1>2, <2>2, <2>3, Zenon
  <2> HIDE DEF t
  <2> QED
        BY <2>1, <2>4, Zenon
<1>9. Kept \/ Stopped \/ Lost \/ Feed \/ Decode \/ \E n \in 0 .. SocketBuffer : DecodePartial(n)
      BY <1>0, StreamSteps, Zenon
<1> HIDE DEF t
<1> QED
      BY <1>3, <1>4, <1>5, <1>6, <1>7, <1>8, <1>9, Zenon

-----------------------------------------------------------------------------
(* The order of the messages. *)

\* The empty sequence, and an element that is later than all others.
LEMMA IncreasingMore ==
    ASSUME NEW s \in Seq(Msg), Increasing(s), NEW m \in Msg, \A k \in Range(s) : k < m
    PROVE  /\ Append(s, m) \in Seq(Msg) /\ Increasing(Append(s, m))
           /\ Range(Append(s, m)) = Range(s) \cup {m}
           /\ Len(Append(s, m)) = Len(s) + 1 /\ Append(s, m)[Len(s) + 1] = m
           /\ Append(s, m) # <<>>
<1> DEFINE t == Append(s, m)
<1>1. /\ t \in Seq(Msg) /\ t # <<>> /\ Len(t) = Len(s) + 1
      /\ \A i \in 1 .. Len(s) : t[i] = s[i]
      /\ t[Len(s) + 1] = m
      BY AppendProperties
<1> HIDE DEF t
<1>2. Len(s) \in Nat /\ Range(s) = {s[i] : i \in 1 .. Len(s)} /\ Range(t) = {t[i] : i \in 1 .. Len(t)}
      BY <1>1, LenProperties, RangeEquality, Zenon
<1>3. Range(t) = Range(s) \cup {m}
  <2>1. \A i \in 1 .. Len(t) : i \in 1 .. Len(s) \/ i = Len(s) + 1
        BY <1>1, <1>2
  <2>2. \A i \in 1 .. Len(s) : i \in 1 .. Len(t)
        BY <1>1, <1>2
  <2>3. Len(s) + 1 \in 1 .. Len(t)
        BY <1>1, <1>2
  <2> QED
        BY <1>1, <1>2, <2>1, <2>2, <2>3, Zenon
<1>4. ASSUME NEW i \in 1 .. Len(t), NEW j \in 1 .. Len(t), i < j PROVE t[i] < t[j]
  <2>1. i \in 1 .. Len(s) /\ (j \in 1 .. Len(s) \/ j = Len(s) + 1)
        BY <1>1, <1>2, <1>4
  <2>2. CASE j \in 1 .. Len(s)
        BY <1>1, <1>4, <2>1, <2>2, Zenon DEF Increasing
  <2>3. CASE j = Len(s) + 1
    <3>1. s[i] < m
          BY <1>2, <2>1, Zenon
    <3> QED
          BY <1>1, <2>1, <2>3, <3>1, Zenon
  <2> QED
        BY <2>1, <2>2, <2>3, Zenon
<1>5. Increasing(t)
      BY <1>4, Zenon DEF Increasing
<1> QED
      BY <1>1, <1>3, <1>5, Zenon DEF t

\* What goes from the front leaves an increasing sequence of later elements.
LEMMA IncreasingTail ==
    ASSUME NEW s \in Seq(Msg), Increasing(s), s # <<>>
    PROVE  /\ Head(s) \in Msg /\ Tail(s) \in Seq(Msg) /\ Increasing(Tail(s))
           /\ Range(s) = Range(Tail(s)) \cup {Head(s)}
           /\ \A k \in Range(Tail(s)) : Head(s) < k
           /\ Len(Tail(s)) < Len(s)
<1> DEFINE t == Tail(s)
<1>1. /\ Head(s) \in Msg /\ t \in Seq(Msg) /\ Len(t) = Len(s) - 1
      /\ \A i \in 1 .. Len(t) : t[i] = s[i + 1]
      BY HeadTailProperties, Zenon
<1>2. Head(s) = s[1] /\ Len(s) \in Nat \ {0}
      BY EmptySeq
<1> HIDE DEF t
<1>3. Range(s) = {s[i] : i \in 1 .. Len(s)} /\ Range(t) = {t[i] : i \in 1 .. Len(t)}
      BY <1>1, RangeEquality, Zenon
<1>4. \A i \in 1 .. Len(t) : i + 1 \in 1 .. Len(s) /\ 1 < i + 1
      BY <1>1, <1>2
<1>5. 1 \in 1 .. Len(s) /\ \A i \in 1 .. Len(s) : i = 1 \/ (i - 1 \in 1 .. Len(t) /\ (i - 1) + 1 = i)
      BY <1>1, <1>2
<1>6. Range(s) = Range(t) \cup {s[1]}
  <2>1. ASSUME NEW i \in 1 .. Len(s) PROVE s[i] \in Range(t) \cup {s[1]}
    <3>1. CASE i - 1 \in 1 .. Len(t) /\ (i - 1) + 1 = i
      <4>1. t[i - 1] = s[i] /\ t[i - 1] \in Range(t)
            BY <1>1, <1>3, <3>1, Zenon
      <4> QED
            BY <4>1, Zenon
    <3> QED
          BY <1>5, <3>1, Zenon
  <2>2. Range(t) \cup {s[1]} \subseteq Range(s)
        BY <1>1, <1>3, <1>4, <1>5, Zenon
  <2> QED
        BY <1>3, <2>1, <2>2, Zenon
<1>7. \A k \in Range(t) : s[1] < k
      BY <1>1, <1>3, <1>4, <1>5 DEF Increasing
<1>8. Increasing(t)
  <2>1. \A i, j \in 1 .. Len(t) : i < j => i + 1 < j + 1
        OBVIOUS
  <2> QED
        BY <1>1, <1>4, <2>1, Zenon DEF Increasing
<1>9. Len(t) < Len(s)
      BY <1>1, <1>2
<1> QED
      BY <1>1, <1>2, <1>6, <1>7, <1>8, <1>9, Zenon DEF t

\* Nothing is before or after what is not there.
LEMMA EmptyOrder == <<>> \in Seq(Msg) /\ Increasing(<<>>) /\ Range(<<>>) = {} /\ Len(<<>>) = 0
<1>1. <<>> \in Seq(Msg) /\ Len(<<>>) = 0
      BY EmptySeq, Zenon
<1>2. Range(<<>>) = {<<>>[i] : i \in 1 .. 0}
      BY <1>1, RangeEquality, Zenon
<1>3. 1 .. 0 = {}
      OBVIOUS
<1>4. Range(<<>>) = {}
      BY <1>2, <1>3, Zenon
<1>5. Increasing(<<>>)
      BY <1>1, <1>3, Zenon DEF Increasing
<1> QED
      BY <1>1, <1>4, <1>5, Zenon

\* A step that takes messages away keeps the order.
LEMMA OrderKept ==
    ASSUME InOrder, Increasing(queue)', Increasing(batch)', UNCHANGED decoded,
           Range(queue') \subseteq Range(queue), Unfed' \subseteq Unfed,
           Unsubmitted' \subseteq Unsubmitted, Streamed' \subseteq Streamed
    PROVE  InOrder'
<1>1. Increasing(decoded)' /\ Range(decoded') = Range(decoded)
      BY Zenon DEF InOrder, Increasing
<1> HIDE DEF Unfed, Unsubmitted, Streamed
<1>2. Before(Range(queue), Unsubmitted)' /\ Before(Unfed, Range(queue) \cup Unsubmitted)'
      BY Zenon DEF InOrder, Before
<1>3. Before(Streamed, Unfed \cup Range(queue) \cup Unsubmitted)'
      BY Zenon DEF InOrder, Before
<1>4. Before(Range(decoded), Streamed \cup Unfed \cup Range(queue) \cup Unsubmitted)'
      BY <1>1, Zenon DEF InOrder, Before
<1> QED
      BY <1>1, <1>2, <1>3, <1>4, Zenon DEF InOrder

-----------------------------------------------------------------------------
(* The values of the receiver's variables, and the bounds. *)

ReadTypes ==
    /\ reader \in {"waiting", "read", "decode", "holding", "ended"}
    /\ src \in Seq(Byte) /\ acc \in Nat /\ received \in Nat \X Nat /\ decoded \in Seq(Msg)
DropTypes == dropped_count \in Nat /\ warned \in Nat /\ skipped \in Seq(Msg)
InboundTypes ==
    /\ processing \in {"recv", "processing", "ended"}
    /\ inbound \in Seq(Msg) /\ processed \in Seq(Msg) /\ Len(inbound) <= ReadDepth
SendTypes ==
    /\ listed \in BOOLEAN /\ closing \in {"no", "unlisted", "dropped"}
    /\ Len(queue) <= WriteDepth /\ Len(batch) <= WriteDepth
WireTypes == wire \in Seq(Byte) /\ Len(wire) <= SocketBuffer

\* The types, by the task whose variables they are of.
LEMMA WayTypes ==
    WayTypeOK <=> /\ backpressure \in BOOLEAN
                  /\ ReadTypes /\ DropTypes /\ InboundTypes /\ SendTypes /\ WireTypes
BY Zenon DEF WayTypeOK, ReadTypes, DropTypes, InboundTypes, SendTypes, WireTypes, Byte

\* The types are kept with the variables.
LEMMA TypesKept ==
    ASSUME WayTypeOK
    PROVE  /\ UNCHANGED readerVars => ReadTypes'
           /\ UNCHANGED dropVars => DropTypes'
           /\ UNCHANGED inboundVars => InboundTypes'
           /\ UNCHANGED <<listed, closing, queue, batch>> => SendTypes'
           /\ UNCHANGED wire => WireTypes'
<1>1. ReadTypes /\ DropTypes /\ InboundTypes /\ SendTypes /\ WireTypes
      BY WayTypes, Zenon
<1>2. UNCHANGED readerVars => ReadTypes'
      BY <1>1, Zenon DEF ReadTypes, readerVars
<1>3. UNCHANGED dropVars => DropTypes'
      BY <1>1, Zenon DEF DropTypes, dropVars
<1>4. UNCHANGED inboundVars => InboundTypes'
      BY <1>1, Zenon DEF InboundTypes, inboundVars
<1>5. UNCHANGED <<listed, closing, queue, batch>> => SendTypes'
      BY <1>1, Zenon DEF SendTypes
<1>6. UNCHANGED wire => WireTypes'
      BY <1>1, Zenon DEF WireTypes
<1> QED
      BY <1>2, <1>3, <1>4, <1>5, <1>6, Zenon

\* Every step of the sender.
SenderStep ==
    \/ \E m \in Msg : QueueMessage(m)
    \/ WriterStep \/ WriteError \/ WriteTimeout \/ EncoderPanics \/ AbortWriter \/ WriterEnd
    \/ Disconnect

\* A step of the sender keeps the types, and leaves the receiver alone.
LEMMA SenderStepTypes ==
    ASSUME SenderTypeOK, WayTypeOK, SenderStep
    PROVE  SendTypes' /\ WireTypes' /\ UNCHANGED <<backpressure, receiverVars>>
<1> USE DEF queueVars, writerVars
<1>1. SendTypes /\ WireTypes /\ buffer \in Seq(Byte) /\ src \in Seq(Byte)
      BY WayTypes, StreamTypes, Zenon
<1>2. /\ WriteDepth \in Nat \ {0} /\ SocketBuffer \in Nat
      /\ Len(queue) \in Nat /\ Len(batch) \in Nat /\ Len(wire) \in Nat
      BY <1>1, MessagesAssumption, LenProperties, Zenon DEF SenderTypeOK, WireTypes
<1>3. Len(<<>>) <= WriteDepth
      BY <1>2, EmptySeq
<1>4. ASSUME NEW m \in Msg, QueueMessage(m)
      PROVE  SendTypes' /\ WireTypes' /\ UNCHANGED <<backpressure, receiverVars>>
  <2>1. \/ queue' = queue
        \/ queue' = Append(queue, m) /\ Len(queue) < WriteDepth
        BY <1>4, Zenon DEF QueueMessage
  <2>2. Len(Append(queue, m)) = Len(queue) + 1
        BY AppendProperties, Zenon DEF SenderTypeOK
  <2>3. Len(queue') <= WriteDepth
        BY <1>1, <1>2, <2>1, <2>2 DEF SendTypes
  <2>4. UNCHANGED <<backpressure, listed, closing, batch, wire, receiverVars>>
        BY <1>4, Zenon DEF QueueMessage
  <2> QED
        BY <1>1, <2>3, <2>4, Zenon DEF SendTypes, WireTypes
<1>5. CASE RecvMany
      BY <1>1, <1>3, <1>5, Zenon DEF RecvMany, SendTypes, WireTypes
<1>6. CASE Feed
      BY <1>1, <1>6, Zenon DEF Feed, SendTypes, WireTypes
<1>7. CASE Flush
  <2>1. /\ buffer # <<>> /\ wire' = Append(wire, Head(buffer)) /\ Len(wire) < SocketBuffer
        /\ UNCHANGED <<backpressure, listed, closing, queue, batch, receiverVars>>
        BY <1>7, Zenon DEF Flush
  <2>2. wire \in Seq(Byte)
        BY <1>1, Zenon DEF WireTypes
  <2>3. Append(wire, Head(buffer)) \in Seq(Byte) /\ Len(Append(wire, Head(buffer))) = Len(wire) + 1
        BY <1>1, <2>1, <2>2, FlushKeepsStream, Zenon
  <2>4. WireTypes'
        BY <1>2, <2>1, <2>3 DEF WireTypes
  <2> QED
        BY <1>1, <2>1, <2>4, Zenon DEF SendTypes
<1>8. CASE BatchWritten \/ RegisterSent
      BY <1>1, <1>3, <1>8, Zenon DEF BatchWritten, RegisterSent, SendTypes, WireTypes
<1>9. CASE WriteError \/ WriteTimeout \/ EncoderPanics \/ AbortWriter
      BY <1>1, <1>3, <1>9, Zenon DEF WriteError, WriteTimeout, EncoderPanics, AbortWriter, WriteFails,
          SendTypes, WireTypes
<1>10. CASE SenderCleanup \/ DropReceiver \/ Disconnect
      BY <1>1, <1>3, <1>10, Zenon DEF SenderCleanup, DropReceiver, Disconnect, SendTypes, WireTypes
<1> QED
      BY <1>4, <1>5, <1>6, <1>7, <1>8, <1>9, <1>10, Zenon DEF SenderStep, WriterStep, WriterEnd

\* Every step of the receiver.
ReceiverStep == ReaderStep \/ ReadFails \/ IdleTimeout \/ ProcessingStep \/ ProcessPanics \/ AbortTasks

\* Every step is the sender's or the receiver's.
LEMMA BothSides == Next <=> SenderStep \/ ReceiverStep
BY Zenon DEF Next, SenderStep, ReceiverStep

\* The reader's task ends.
LEMMA ReaderGoneTypes ==
    ASSUME WayTypeOK, ReaderGone, UNCHANGED <<received, decoded>>
    PROVE  ReadTypes'
<1>1. src' \in Seq(Byte) /\ acc' \in Nat /\ reader' = "ended"
      BY EmptySeq, Zenon DEF ReaderGone
<1> QED
      BY <1>1, WayTypes, Zenon DEF ReadTypes

\* A step of the receiver keeps the types.
LEMMA ReceiverStepTypes ==
    ASSUME IInv, WayInv, ReceiverStep
    PROVE  WayTypeOK'
<1> USE DEF dropVars, inboundVars
<1>0. SenderTypeOK /\ WayTypeOK /\ Framed(Stream) /\ StreamWhole /\ PartialCounted /\ PassedOn
      BY Zenon DEF IInv, WayInv
<1>1. /\ backpressure \in BOOLEAN
      /\ ReadTypes /\ DropTypes /\ InboundTypes /\ SendTypes /\ WireTypes
      BY <1>0, WayTypes, Zenon
<1>2. UNCHANGED <<backpressure, senderVars>>
      BY Zenon DEF ReceiverStep, ReaderStep, ProcessingStep, ConnReady, Read, Decode, DecodePartial,
          EndOfStream, Enqueue, DropFull, InboundClosed, ReadFails, IdleTimeout, Process,
          ProcessReturns, ProcessPanics, AbortTasks
<1>3. backpressure' \in BOOLEAN /\ SendTypes'
      BY <1>0, <1>1, <1>2, TypesKept, Zenon DEF senderVars, queueVars, writerVars
<1>4. /\ UNCHANGED readerVars => ReadTypes'
      /\ UNCHANGED dropVars => DropTypes'
      /\ UNCHANGED inboundVars => InboundTypes'
      /\ UNCHANGED wire => WireTypes'
      BY <1>0, TypesKept, Zenon
<1>5. ReadTypes' /\ DropTypes' /\ InboundTypes' /\ WireTypes' => WayTypeOK'
  <2>1. (WayTypeOK <=> /\ backpressure \in BOOLEAN
                       /\ ReadTypes /\ DropTypes /\ InboundTypes /\ SendTypes /\ WireTypes)'
        BY WayTypes, PTL
  <2> QED
        BY <1>3, <2>1, Zenon
<1>6. decoded \in Seq(Msg) /\ Len(decoded) \in Nat
      BY <1>1, LenProperties, Zenon DEF ReadTypes
<1>7. reader = "holding" => Held \in Msg
  <2>1. reader = "holding" => Len(decoded) \in 1 .. Len(decoded)
        BY <1>0, <1>6, EmptySeq DEF PassedOn
  <2> QED
        BY <1>6, <2>1, ElementOfSeq, Zenon DEF Held
<1>8. Len(inbound) \in Nat /\ ReadDepth \in Nat \ {0} /\ Len(wire) \in Nat /\ SocketBuffer \in Nat
      BY <1>1, LenProperties, MessagesAssumption, Zenon DEF InboundTypes, WireTypes
<1>9. <<>> \in Seq(Msg) /\ Len(<<>>) <= ReadDepth
      BY <1>8, EmptySeq
<1>10. CASE ConnReady
  <2>1. UNCHANGED <<wire, received, decoded, dropVars, inboundVars>>
        BY <1>10, Zenon DEF ConnReady
  <2>2. ReadTypes'
    <3>1. CASE reader' = "read" /\ UNCHANGED <<src, acc>>
          BY <1>1, <2>1, <3>1, Zenon DEF ReadTypes
    <3>2. CASE ReaderGone
          BY <1>0, <2>1, <3>2, ReaderGoneTypes, Zenon
    <3> QED
          BY <1>10, <3>1, <3>2, Zenon DEF ConnReady
  <2> QED
        BY <1>4, <1>5, <2>1, <2>2, Zenon
<1>11. ASSUME NEW n, Read(n) PROVE WayTypeOK'
  <2>1. /\ n \in 1 .. Len(wire) /\ src' = src \o SubSeq(wire, 1, n)
        /\ wire' = SubSeq(wire, n + 1, Len(wire)) /\ reader' = "decode"
        /\ UNCHANGED <<acc, received, decoded, dropVars, inboundVars>>
        BY <1>11, Zenon DEF Read
  <2>2. src \in Seq(Byte) /\ wire \in Seq(Byte) /\ <<>> \in Seq(Byte)
        BY <1>1, EmptySeq, Zenon DEF ReadTypes, WireTypes
  <2>3. /\ src \o SubSeq(wire, 1, n) \in Seq(Byte) /\ SubSeq(wire, n + 1, Len(wire)) \in Seq(Byte)
        /\ Len(SubSeq(wire, n + 1, Len(wire))) = Len(wire) - n
        BY <2>1, <2>2, ReadKeepsStream, Zenon
  <2>4. ReadTypes'
        BY <1>1, <2>1, <2>3, Zenon DEF ReadTypes
  <2>5. WireTypes'
        BY <1>1, <1>8, <2>1, <2>3 DEF WireTypes
  <2> QED
        BY <1>4, <1>5, <2>1, <2>4, <2>5, Zenon
<1>12. CASE Decode
  <2>1. reader' = "holding" /\ UNCHANGED <<wire, dropVars, inboundVars>>
        BY <1>12, Zenon DEF Decode
  <2>2. PICK m \in Msg : /\ decoded' = Append(decoded, m)
                         /\ received' = <<received[1] + 1, received[2] + Size[m]>> /\ acc' = 0
                         /\ src' \in Seq(Byte)
        BY <1>0, <1>12, DecodeStream, Zenon
  <2>3. decoded' \in Seq(Msg)
        BY <1>6, <2>2, AppendProperties, Zenon
  <2>4. received' \in Nat \X Nat
    <3>1. Size[m] \in Nat
          BY MessagesAssumption, Zenon
    <3> QED
          BY <1>1, <2>2, <3>1 DEF ReadTypes
  <2>5. ReadTypes'
        BY <2>1, <2>2, <2>3, <2>4, Zenon DEF ReadTypes
  <2> QED
        BY <1>4, <1>5, <2>1, <2>5, Zenon
<1>13. ASSUME NEW n, DecodePartial(n) PROVE WayTypeOK'
  <2>1. UNCHANGED <<wire, dropVars, inboundVars>>
        BY <1>13, Zenon DEF DecodePartial
  <2>2. src' \in Seq(Byte) /\ reader' = "read" /\ acc' \in Nat /\ UNCHANGED <<received, decoded>>
        BY <1>0, <1>13, PartialStream, Zenon
  <2>3. ReadTypes'
        BY <1>1, <2>2, Zenon DEF ReadTypes
  <2> QED
        BY <1>4, <1>5, <2>1, <2>3, Zenon
<1>14. CASE EndOfStream \/ InboundClosed \/ ReadFails \/ IdleTimeout
  <2>1. ReaderGone /\ UNCHANGED <<wire, received, decoded, dropVars, inboundVars>>
        BY <1>14, Zenon DEF EndOfStream, InboundClosed, ReadFails, IdleTimeout
  <2> QED
        BY <1>0, <1>4, <1>5, <2>1, ReaderGoneTypes, Zenon
<1>15. CASE Enqueue
  <2>1. /\ reader = "holding" /\ Len(inbound) < ReadDepth /\ reader' = "decode"
        /\ inbound' = Append(inbound, Held) /\ warned' = warned + dropped_count /\ dropped_count' = 0
        /\ UNCHANGED <<wire, src, acc, received, decoded, skipped, processing, processed>>
        BY <1>15, Zenon DEF Enqueue
  <2>2. ReadTypes' /\ DropTypes'
        BY <1>1, <2>1 DEF ReadTypes, DropTypes
  <2>3. Append(inbound, Held) \in Seq(Msg) /\ Len(Append(inbound, Held)) = Len(inbound) + 1
        BY <1>1, <1>7, <2>1, AppendProperties, Zenon DEF InboundTypes
  <2>4. Len(inbound') <= ReadDepth
        BY <1>8, <2>1, <2>3
  <2>5. InboundTypes'
        BY <1>1, <2>1, <2>3, <2>4, Zenon DEF InboundTypes
  <2> QED
        BY <1>4, <1>5, <2>1, <2>2, <2>5, Zenon
<1>16. CASE DropFull
  <2>1. /\ reader = "holding" /\ reader' = "decode" /\ skipped' = Append(skipped, Held)
        /\ \/ dropped_count' = dropped_count + 1 /\ UNCHANGED warned
           \/ dropped_count' = 0 /\ warned' = warned + dropped_count + 1
        /\ UNCHANGED <<wire, src, acc, received, decoded, inboundVars>>
        BY <1>16, Zenon DEF DropFull
  <2>2. Append(skipped, Held) \in Seq(Msg)
        BY <1>1, <1>7, <2>1, AppendProperties, Zenon DEF DropTypes
  <2>3. ReadTypes' /\ DropTypes'
        BY <1>1, <2>1, <2>2 DEF ReadTypes, DropTypes
  <2> QED
        BY <1>4, <1>5, <2>1, <2>3, Zenon
<1>17. CASE Process
  <2>1. UNCHANGED <<wire, readerVars, dropVars>> /\ processing' \in {"processing", "ended"}
        BY <1>17, Zenon DEF Process
  <2>2. CASE inbound # <<>> /\ processed' = Append(processed, Head(inbound)) /\ inbound' = Tail(inbound)
    <3>1. Head(inbound) \in Msg /\ Tail(inbound) \in Seq(Msg) /\ Len(Tail(inbound)) = Len(inbound) - 1
          BY <1>1, <2>2, HeadTailProperties, Zenon DEF InboundTypes
    <3>2. Append(processed, Head(inbound)) \in Seq(Msg)
          BY <1>1, <3>1, AppendProperties, Zenon DEF InboundTypes
    <3>3. Len(inbound') <= ReadDepth
          BY <1>1, <1>8, <2>2, <3>1 DEF InboundTypes
    <3>4. InboundTypes'
          BY <2>1, <2>2, <3>1, <3>2, <3>3, Zenon DEF InboundTypes
    <3> QED
          BY <1>4, <1>5, <2>1, <3>4, Zenon
  <2>3. CASE UNCHANGED <<processed, inbound>>
    <3>1. InboundTypes'
          BY <1>1, <2>1, <2>3, Zenon DEF InboundTypes
    <3> QED
          BY <1>4, <1>5, <2>1, <3>1, Zenon
  <2> QED
        BY <1>17, <2>2, <2>3, Zenon DEF Process
<1>18. CASE ProcessReturns \/ ProcessPanics
  <2>1. /\ UNCHANGED <<wire, readerVars, dropVars, processed>> /\ processing' \in {"recv", "ended"}
        /\ inbound' = inbound \/ inbound' = <<>>
        BY <1>18, Zenon DEF ProcessReturns, ProcessPanics
  <2>2. InboundTypes'
        BY <1>1, <1>9, <2>1, Zenon DEF InboundTypes
  <2> QED
        BY <1>4, <1>5, <2>1, <2>2, Zenon
<1>19. CASE AbortTasks
  <2>1. /\ ReaderGone /\ processing' = "ended" /\ inbound' = <<>>
        /\ UNCHANGED <<wire, received, decoded, dropVars, processed>>
        BY <1>19, Zenon DEF AbortTasks
  <2>2. InboundTypes'
        BY <1>1, <1>9, <2>1, Zenon DEF InboundTypes
  <2> QED
        BY <1>0, <1>4, <1>5, <2>1, <2>2, ReaderGoneTypes, Zenon
<1> QED
      BY <1>10, <1>11, <1>12, <1>13, <1>14, <1>15, <1>16, <1>17, <1>18, <1>19, Zenon
      DEF ReceiverStep, ReaderStep, ProcessingStep

\* The values and the bounds are kept by every step.
LEMMA NextTypes ==
    ASSUME IInv, WayInv, [Next]_vars
    PROVE  WayTypeOK'
<1>1. SenderTypeOK /\ WayTypeOK
      BY Zenon DEF IInv, WayInv
<1>2. CASE SenderStep
  <2>1. SendTypes' /\ WireTypes' /\ UNCHANGED <<backpressure, receiverVars>>
        BY <1>1, <1>2, SenderStepTypes, Zenon
  <2>2. ReadTypes' /\ DropTypes' /\ InboundTypes' /\ backpressure' \in BOOLEAN
        BY <1>1, <2>1, TypesKept, WayTypes, Zenon DEF receiverVars
  <2>3. (WayTypeOK <=> /\ backpressure \in BOOLEAN
                       /\ ReadTypes /\ DropTypes /\ InboundTypes /\ SendTypes /\ WireTypes)'
        BY WayTypes, PTL
  <2> QED
        BY <2>1, <2>2, <2>3, Zenon
<1>3. CASE ReceiverStep
      BY <1>3, ReceiverStepTypes, Zenon
<1>4. CASE UNCHANGED vars
      BY <1>1, <1>4, Zenon DEF WayTypeOK, vars, senderVars, queueVars, writerVars, receiverVars,
          readerVars, dropVars, inboundVars
<1> QED
      BY <1>2, <1>3, <1>4, BothSides, Zenon

-----------------------------------------------------------------------------
(* Every step keeps the order. *)

\* The messages of the stream after a step that takes bytes from its front or its end.
LEMMA StreamedLess ==
    ASSUME SenderTypeOK, WayTypeOK,
           \/ Kept \/ Stopped \/ Lost
           \/ Stream' \in Seq(Byte) /\ \E n \in 0 .. Len(src) : Without(Stream', Stream, n)
    PROVE  Streamed' \subseteq Streamed
<1>1. Len(Stream) \in Nat /\ Len(src) \in Nat
      BY StreamTypes, Zenon
<1> DEFINE t == Stream'
           S == {t[k][1] : k \in 1 .. Len(t)}
<1>2. Streamed' = S
      BY Zenon DEF Streamed
<1>3. ASSUME NEW n \in Nat, t \in Seq(Byte), Without(t, Stream, n) PROVE S \subseteq Streamed
  <2> HIDE DEF t
  <2>1. Len(t) \in Nat /\ Len(t) = Len(Stream) - n /\ \A k \in 1 .. Len(t) : t[k] = Stream[k + n]
        BY <1>3, LenProperties, Zenon DEF Without
  <2>2. \A k \in 1 .. Len(t) : k + n \in 1 .. Len(Stream)
        BY <1>1, <2>1
  <2> QED
        BY <2>1, <2>2 DEF Streamed
<1>4. CASE Kept
      BY <1>4, Zenon DEF Kept, Streamed
<1>5. CASE Stopped
      BY <1>1, <1>2, <1>3, <1>5, Zenon DEF Stopped
<1>6. CASE Lost
  <2>1. t \in Seq(Byte) /\ Len(t) <= Len(Stream) /\ \A k \in 1 .. Len(t) : t[k] = Stream[k]
        BY <1>6, Zenon DEF Lost
  <2> HIDE DEF t
  <2>2. Len(t) \in Nat
        BY <2>1, LenProperties, Zenon
  <2>3. \A k \in 1 .. Len(t) : k \in 1 .. Len(Stream)
        BY <1>1, <2>1, <2>2
  <2>4. S \subseteq Streamed
        BY <2>1, <2>3, Zenon DEF Streamed
  <2> QED
        BY <1>2, <2>4, Zenon
<1>7. ASSUME t \in Seq(Byte), NEW n \in 0 .. Len(src), Without(t, Stream, n)
      PROVE  S \subseteq Streamed
      BY <1>1, <1>3, <1>7
<1> QED
      BY <1>2, <1>4, <1>5, <1>6, <1>7, Zenon

\* A batch of which more is encoded, or that is gone.
LEMMA UnfedLess ==
    ASSUME SenderTypeOK,
           \/ batch' = batch /\ fed' = fed
           \/ batch' = <<>> /\ fed' = 0
    PROVE  Unfed' \subseteq Unfed
<1>1. CASE batch' = batch /\ fed' = fed
      BY <1>1, Zenon DEF Unfed
<1>2. CASE batch' = <<>> /\ fed' = 0
  <2>1. 0 + 1 .. 0 = {}
        OBVIOUS
  <2>2. fed' + 1 .. Len(batch') = {}
        BY <1>2, <2>1, EmptyOrder, Zenon
  <2> QED
        BY <2>2, Zenon DEF Unfed
<1> QED
      BY <1>1, <1>2, Zenon

\* A delivery result never makes a message new.
LEMMA ResolvedSubmitted ==
    ASSUME SenderTypeOK, \/ fate' = fate
                         \/ \E S : \E result \in {"ok", "failed", "recv_error"} :
                               fate' = Resolve(S, result)
    PROVE  Unsubmitted' \subseteq Unsubmitted
<1>1. CASE fate' = fate
      BY <1>1, Zenon DEF Unsubmitted
<1>2. ASSUME NEW S, NEW result \in {"ok", "failed", "recv_error"}, fate' = Resolve(S, result)
      PROVE  Unsubmitted' \subseteq Unsubmitted
  <2>1. \A m \in Msg : fate'[m] = fate[m] \/ fate'[m] # "none"
        BY <1>2, ResolveFates
  <2> QED
        BY <2>1, Zenon DEF Unsubmitted
<1> QED
      BY <1>1, <1>2, Zenon

\* A message is submitted: whatever comes of it, it is later than all before it.
LEMMA QueueMessageOrder ==
    ASSUME SenderTypeOK, WayTypeOK, InOrder, NEW m \in Msg, QueueMessage(m)
    PROVE  InOrder'
<1>1. /\ fate[m] = "none" /\ (\A k \in 1 .. m - 1 : fate[k] # "none")
      /\ fate \in [Msg -> Fate] /\ fate'[m] # "none" /\ \A k \in Msg \ {m} : fate'[k] = fate[k]
      BY Zenon DEF QueueMessage, SenderTypeOK
<1>2. UNCHANGED <<batch, fed, decoded, src, wire, buffer>>
      BY Zenon DEF QueueMessage, writerVars, receiverVars, readerVars
<1>3. /\ Unfed' = Unfed /\ Streamed' = Streamed /\ Range(decoded') = Range(decoded)
      /\ Increasing(batch)' /\ Increasing(decoded)'
      BY <1>2, Zenon DEF Unfed, Streamed, Stream, Increasing, InOrder
<1>4. m \in Unsubmitted /\ Unsubmitted' \subseteq Unsubmitted
      BY <1>1, Zenon DEF Unsubmitted
<1>5. \A k \in Unsubmitted' : m < k
  <2> SUFFICES ASSUME NEW k \in Msg, fate'[k] = "none" PROVE m < k
        BY Zenon DEF Unsubmitted
  <2>1. k # m /\ fate[k] = "none"
        BY <1>1, Zenon
  <2>2. k \in Nat /\ m \in Nat /\ k >= 1
        BY MessagesAssumption DEF Msg
  <2>3. ~(k \in 1 .. m - 1)
        BY <1>1, <2>1, Zenon
  <2> QED
        BY <2>1, <2>2, <2>3
<1>6. \A k \in Range(queue) : k < m
      BY <1>4, Zenon DEF InOrder, Before
<1> DEFINE U == Unsubmitted'
           Q == Range(queue')
<1>7. Q \subseteq Range(queue) \cup {m} /\ Increasing(queue)'
  <2>1. queue' = queue \/ queue' = Append(queue, m)
        BY Zenon DEF QueueMessage
  <2>2. queue \in Seq(Msg) /\ Increasing(queue)
        BY Zenon DEF SenderTypeOK, InOrder
  <2>3. CASE queue' = queue
        BY <2>2, <2>3, Zenon DEF Increasing
  <2>4. CASE queue' = Append(queue, m)
    <3> DEFINE a == Append(queue, m)
    <3>1. Increasing(a) /\ Range(a) = Range(queue) \cup {m}
          BY <1>6, <2>2, IncreasingMore, Zenon
    <3> HIDE DEF a
    <3>2. queue' = a
          BY <2>4, Zenon DEF a
    <3> QED
          BY <3>1, <3>2, Zenon DEF Increasing
  <2> QED
        BY <2>1, <2>3, <2>4, Zenon
<1>8. /\ Before(Range(queue), U) /\ Before(Unfed, Range(queue) \cup U \cup {m})
      /\ Before(Streamed, Unfed \cup Range(queue) \cup U \cup {m})
      /\ Before(Range(decoded), Streamed \cup Unfed \cup Range(queue) \cup U \cup {m})
      BY <1>4, Zenon DEF InOrder, Before
<1>9. \A k \in U : m < k
      BY <1>5, Zenon
<1> HIDE DEF U, Q
<1>10. /\ Before(Q, U) /\ Before(Unfed, Q \cup U) /\ Before(Streamed, Unfed \cup Q \cup U)
       /\ Before(Range(decoded), Streamed \cup Unfed \cup Q \cup U)
  <2>1. Before(Q, U)
        BY <1>7, <1>8, <1>9, Zenon DEF Before
  <2>2. Before(Unfed, Q \cup U) /\ Before(Streamed, Unfed \cup Q \cup U)
        BY <1>7, <1>8, Zenon DEF Before
  <2>3. Before(Range(decoded), Streamed \cup Unfed \cup Q \cup U)
        BY <1>7, <1>8, Zenon DEF Before
  <2> QED
        BY <2>1, <2>2, <2>3, Zenon
<1> QED
      BY <1>3, <1>7, <1>10, Zenon DEF InOrder, U, Q, Before

\* The writer takes what is queued.
LEMMA RecvManyOrder ==
    ASSUME SenderTypeOK, FedOfBatch, InOrder, writer = "recv", batch' = queue, queue' = <<>>,
           UNCHANGED <<fed, fate, decoded, src, wire, buffer>>
    PROVE  InOrder'
<1>1. /\ Streamed' = Streamed /\ Unsubmitted' = Unsubmitted /\ Range(decoded') = Range(decoded)
      /\ Increasing(decoded)' /\ Increasing(batch)'
      BY Zenon DEF Streamed, Stream, Unsubmitted, InOrder, Increasing
<1>2. fed = 0
      BY Zenon DEF FedOfBatch
<1>3. Unfed' = Range(queue)
  <2>1. Range(queue) = {queue[i] : i \in 1 .. Len(queue)}
        BY RangeEquality, Zenon DEF SenderTypeOK
  <2>2. fed' + 1 = 1
        BY <1>2
  <2>3. Unfed' = {queue[i] : i \in fed' + 1 .. Len(queue)}
        BY Zenon DEF Unfed
  <2> QED
        BY <2>1, <2>2, <2>3, Zenon
<1>4. Range(queue') = {} /\ Increasing(queue)'
      BY EmptyOrder, Zenon DEF Increasing
<1>5. /\ Before({}, Unsubmitted) /\ Before(Range(queue), {} \cup Unsubmitted)
      /\ Before(Streamed, Range(queue) \cup {} \cup Unsubmitted)
      /\ Before(Range(decoded), Streamed \cup Range(queue) \cup {} \cup Unsubmitted)
      BY Zenon DEF InOrder, Before
<1> QED
      BY <1>1, <1>3, <1>4, <1>5, Zenon DEF InOrder, Before

\* A message is encoded: it moves from the batch to the stream.
LEMMA FeedOrder ==
    ASSUME SenderTypeOK, WayTypeOK, InOrder, Feed
    PROVE  InOrder'
<1>1. PICK m \in Msg : m = batch[fed + 1]
      BY FeedStream, Zenon
<1>2. /\ fed + 1 \in 1 .. Len(batch) /\ fed' = fed + 1
      /\ Stream' = Stream \o Bytes(m)
      /\ UNCHANGED <<fate, queue, batch, decoded>>
      BY <1>1, FeedStream, Zenon
<1>3. fed \in Nat /\ Len(batch) \in Nat
      BY LenProperties DEF SenderTypeOK
<1>4. m \in Unfed
  <2>1. fed + 1 \in fed + 1 .. Len(batch)
        BY <1>2, <1>3
  <2> QED
        BY <1>1, <2>1, Zenon DEF Unfed
<1>5. Unfed' \subseteq Unfed /\ \A k \in Unfed' : m < k
  <2>1. Unfed' = {batch[i] : i \in (fed + 1) + 1 .. Len(batch)}
        BY <1>2, Zenon DEF Unfed
  <2>2. \A i \in (fed + 1) + 1 .. Len(batch) :
            i \in fed + 1 .. Len(batch) /\ i \in 1 .. Len(batch) /\ fed + 1 < i
        BY <1>3
  <2>3. \A i \in (fed + 1) + 1 .. Len(batch) : m < batch[i]
        BY <1>1, <1>2, <2>2, Zenon DEF InOrder, Increasing
  <2>4. Unfed' \subseteq Unfed
        BY <2>1, <2>2, Zenon DEF Unfed
  <2> QED
        BY <2>1, <2>3, <2>4, Zenon
<1> DEFINE u == Stream \o Bytes(m)
<1>6. Streamed' \subseteq Streamed \cup {m}
  <2>1. Stream \in Seq(Byte) /\ Bytes(m) \in Seq(Byte) /\ Len(Bytes(m)) = Size[m]
        /\ Size[m] \in Nat /\ Len(Stream) \in Nat
        BY StreamTypes, BytesOfMessage, Zenon DEF Byte
  <2>2. Len(u) = Len(Stream) + Size[m]
        BY <2>1, ConcatProperties
  <2>3. \A k \in 1 .. Len(Stream) + Size[m] :
            u[k] = IF k <= Len(Stream) THEN Stream[k] ELSE Bytes(m)[k - Len(Stream)]
        BY <2>1, ConcatProperties
  <2>4. Streamed' = {u[k][1] : k \in 1 .. Len(u)}
        BY <1>2, Zenon DEF Streamed
  <2> HIDE DEF u
  <2>5. ASSUME NEW k \in 1 .. Len(u) PROVE u[k][1] \in Streamed \cup {m}
    <3>1. CASE k <= Len(Stream)
      <4>1. k \in 1 .. Len(Stream) /\ k \in 1 .. Len(Stream) + Size[m]
            BY <2>1, <2>2, <3>1
      <4>2. u[k] = Stream[k]
            BY <2>3, <3>1, <4>1, Zenon
      <4> QED
            BY <4>1, <4>2, Zenon DEF Streamed
    <3>2. CASE ~(k <= Len(Stream))
      <4>1. k - Len(Stream) \in 1 .. Size[m] /\ k \in 1 .. Len(Stream) + Size[m]
            BY <2>1, <2>2, <3>2
      <4>2. u[k] = Bytes(m)[k - Len(Stream)]
            BY <2>3, <3>2, <4>1, Zenon
      <4>3. Bytes(m)[k - Len(Stream)] = <<m, k - Len(Stream)>>
            BY <4>1, Zenon DEF Bytes
      <4> QED
            BY <4>2, <4>3
    <3> QED
          BY <3>1, <3>2, Zenon
  <2> QED
        BY <2>4, <2>5, Zenon
<1>7. /\ Unsubmitted' = Unsubmitted /\ Range(queue') = Range(queue) /\ Range(decoded') = Range(decoded)
      /\ Increasing(queue)' /\ Increasing(batch)' /\ Increasing(decoded)'
      BY <1>2, Zenon DEF Unsubmitted, InOrder, Increasing
<1> DEFINE F == Unfed'
           T == Streamed'
<1>8. F \subseteq Unfed /\ (\A k \in F : m < k) /\ T \subseteq Streamed \cup {m}
      BY <1>5, <1>6, Zenon
<1> HIDE DEF F, T
<1>9. /\ Before(Range(queue), Unsubmitted) /\ Before(F, Range(queue) \cup Unsubmitted)
      BY <1>8, Zenon DEF InOrder, Before
<1>10. Before(T, F \cup Range(queue) \cup Unsubmitted)
      BY <1>4, <1>8, Zenon DEF InOrder, Before
<1>11. Before(Range(decoded), T \cup F \cup Range(queue) \cup Unsubmitted)
      BY <1>4, <1>8, Zenon DEF InOrder, Before
<1> QED
      BY <1>7, <1>9, <1>10, <1>11, Zenon DEF InOrder, F, T, Before

\* A message is decoded: it was the first of the stream.
LEMMA DecodeOrder ==
    ASSUME SenderTypeOK, WayTypeOK, Framed(Stream), PartialCounted, InOrder, Decode
    PROVE  /\ InOrder'
           /\ \E m \in Msg : /\ decoded' = Append(decoded, m)
                             /\ \A k \in Range(decoded) : k < m
<1> DEFINE t == Stream'
<1>1. PICK m \in Msg :
              /\ m \in Streamed /\ decoded' = Append(decoded, m)
              /\ \A k \in 1 .. Len(t) : t[k][1] > m
      BY DecodeStream, Zenon
<1>2. UNCHANGED <<fate, queue, batch, fed>>
      BY Zenon DEF Decode, senderVars, queueVars, writerVars
<1>3. \A k \in Range(decoded) : k < m
      BY <1>1, Zenon DEF InOrder, Before
<1> DEFINE D == Range(decoded')
           T == Streamed'
<1>4. Increasing(decoded)' /\ D = Range(decoded) \cup {m}
  <2>1. decoded \in Seq(Msg) /\ Increasing(decoded)
        BY Zenon DEF WayTypeOK, InOrder
  <2> DEFINE a == Append(decoded, m)
  <2>2. Increasing(a) /\ Range(a) = Range(decoded) \cup {m}
        BY <1>3, <2>1, IncreasingMore, Zenon
  <2>3. decoded' = a
        BY <1>1, Zenon
  <2> HIDE DEF a
  <2> QED
        BY <2>2, <2>3, Zenon DEF Increasing
<1>5. T \subseteq Streamed /\ \A k \in T : m < k
  <2>1. T \subseteq Streamed
    <3>1. PICK n \in 1 .. Len(src) : Without(t, Stream, n)
          BY DecodeStream, Zenon
    <3>2. t \in Seq(Byte)
          BY DecodeStream, Zenon
    <3>3. n \in 0 .. Len(src)
          OBVIOUS
    <3> QED
          BY <3>1, <3>2, <3>3, StreamedLess, Zenon
  <2>2. T = {t[k][1] : k \in 1 .. Len(t)}
        BY Zenon DEF Streamed
  <2>3. \A k \in T : k > m
        BY <1>1, <2>2, Zenon
  <2> QED
    <3>1. m \in Nat
          BY MessagesAssumption DEF Msg
    <3>2. Streamed \subseteq Nat
      <4>1. \A k \in 1 .. Len(Stream) : Stream[k] \in Byte
            BY StreamTypes, ElementOfSeq, Zenon
      <4>2. Msg \subseteq Nat
            BY MessagesAssumption DEF Msg
      <4>3. \A b \in Byte : b[1] \in Msg
            BY Zenon DEF Byte
      <4> QED
            BY <4>1, <4>2, <4>3, Zenon DEF Streamed
    <3> QED
          BY <2>1, <2>3, <3>1, <3>2, Zenon
<1>6. /\ Unsubmitted' = Unsubmitted /\ Range(queue') = Range(queue) /\ Unfed' = Unfed
      /\ Increasing(queue)' /\ Increasing(batch)'
      BY <1>2, Zenon DEF Unsubmitted, Unfed, InOrder, Increasing
<1> HIDE DEF D, T
<1>7. /\ Before(Range(queue), Unsubmitted) /\ Before(Unfed, Range(queue) \cup Unsubmitted)
      /\ Before(T, Unfed \cup Range(queue) \cup Unsubmitted)
      BY <1>5, Zenon DEF InOrder, Before
<1>8. Before(D, T \cup Unfed \cup Range(queue) \cup Unsubmitted)
      BY <1>1, <1>4, <1>5, Zenon DEF InOrder, Before
<1>9. InOrder'
      BY <1>4, <1>6, <1>7, <1>8, Zenon DEF InOrder, D, T, Before
<1> QED
      BY <1>1, <1>3, <1>9, Zenon

\* The order is kept by every step.
LEMMA NextOrder ==
    ASSUME IInv, WayInv, [Next]_vars
    PROVE  InOrder'
<1> USE DEF queueVars, writerVars
<1>0. /\ SenderTypeOK /\ FedOfBatch /\ WayTypeOK /\ InOrder
      /\ Framed(Stream) /\ StreamWhole /\ PartialCounted
      BY Zenon DEF IInv, WayInv
<1>1. ASSUME UNCHANGED decoded, Streamed' \subseteq Streamed,
             queue' = queue \/ queue' = <<>>,
             \/ batch' = batch /\ fed' = fed
             \/ batch' = <<>> /\ fed' = 0,
             \/ fate' = fate
             \/ \E S : \E result \in {"ok", "failed", "recv_error"} : fate' = Resolve(S, result)
      PROVE  InOrder'
  <2>1. Unfed' \subseteq Unfed
        BY <1>0, <1>1, UnfedLess, Zenon
  <2>2. Unsubmitted' \subseteq Unsubmitted
        BY <1>0, <1>1, ResolvedSubmitted, Zenon
  <2>3. Increasing(queue)' /\ Range(queue') \subseteq Range(queue)
        BY <1>0, <1>1, EmptyOrder, Zenon DEF InOrder, Increasing
  <2>4. Increasing(batch)'
        BY <1>0, <1>1, EmptyOrder, Zenon DEF InOrder, Increasing
  <2> QED
        BY <1>0, <1>1, <2>1, <2>2, <2>3, <2>4, OrderKept, Zenon
<1>2. Kept \/ Stopped \/ Lost \/ Feed \/ Decode \/ \E n \in 0 .. SocketBuffer : DecodePartial(n)
      BY <1>0, StreamSteps, Zenon
<1>3. CASE Feed
      BY <1>0, <1>3, FeedOrder, Zenon
<1>4. CASE Decode
      BY <1>0, <1>4, DecodeOrder, Zenon
<1>5. Feed \/ Decode \/ Streamed' \subseteq Streamed
  <2>1. ASSUME NEW n \in 0 .. SocketBuffer, DecodePartial(n) PROVE Streamed' \subseteq Streamed
        BY <1>0, <2>1, PartialStream, StreamedLess, Zenon
  <2> QED
        BY <1>0, <1>2, <2>1, StreamedLess, Zenon
<1> SUFFICES ASSUME Streamed' \subseteq Streamed, ~Feed, ~Decode PROVE InOrder'
      BY <1>3, <1>4, <1>5, Zenon
<1>6. ASSUME NEW m \in Msg, QueueMessage(m) PROVE InOrder'
      BY <1>0, <1>6, QueueMessageOrder, Zenon
<1>7. CASE RecvMany
  <2>1. CASE batch' = queue /\ queue' = <<>>
    <3>1. writer = "recv" /\ UNCHANGED <<fed, fate, decoded, src, wire, buffer>>
          BY <1>7, Zenon DEF RecvMany, receiverVars, readerVars
    <3> QED
          BY <1>0, <2>1, <3>1, RecvManyOrder, Zenon
  <2>2. CASE UNCHANGED <<batch, queue>>
    <3>1. UNCHANGED <<fed, fate, decoded>>
          BY <1>7, Zenon DEF RecvMany, receiverVars, readerVars
    <3> QED
          BY <1>1, <2>2, <3>1, Zenon
  <2> QED
        BY <1>7, <2>1, <2>2, Zenon DEF RecvMany
<1>8. CASE Flush \/ RegisterSent \/ SenderCleanup \/ Disconnect
  <2>1. /\ UNCHANGED <<decoded, queue, fate>>
        /\ (batch' = batch /\ fed' = fed) \/ (batch' = <<>> /\ fed' = 0)
        BY <1>8, Zenon DEF Flush, RegisterSent, SenderCleanup, Disconnect, receiverVars, readerVars
  <2> QED
        BY <1>1, <2>1, Zenon
<1>9. CASE BatchWritten
  <2>1. UNCHANGED <<decoded, queue, batch, fed>> /\ fate' = Resolve(Range(batch), "ok")
        BY <1>9, Zenon DEF BatchWritten, receiverVars, readerVars
  <2> QED
        BY <1>1, <2>1, Zenon
<1>10. ASSUME NEW result \in {"failed", "recv_error"}, WriteFails(result) PROVE InOrder'
  <2>1. /\ UNCHANGED <<decoded, queue>> /\ fate' = Resolve(Range(batch), result)
        /\ batch' = <<>> /\ fed' = 0
        BY <1>10, Zenon DEF WriteFails, receiverVars, readerVars
  <2> QED
        BY <1>1, <2>1, Zenon
<1>11. CASE WriteError \/ WriteTimeout \/ EncoderPanics
      BY <1>10, <1>11, Zenon DEF WriteError, WriteTimeout, EncoderPanics
<1>12. CASE AbortWriter
  <2>1. CASE WriteFails("recv_error")
        BY <1>10, <2>1, Zenon
  <2>2. CASE UNCHANGED <<queueVars, batch, fed, receiverVars>>
    <3>1. UNCHANGED <<decoded, queue, fate, batch, fed>>
          BY <2>2, Zenon DEF receiverVars, readerVars
    <3> QED
          BY <1>1, <3>1, Zenon
  <2> QED
        BY <1>12, <2>1, <2>2, Zenon DEF AbortWriter
<1>13. CASE DropReceiver
  <2>1. /\ UNCHANGED <<decoded, batch, fed>> /\ fate' = Resolve(Range(queue), "recv_error")
        /\ queue' = <<>>
        BY <1>13, Zenon DEF DropReceiver, receiverVars, readerVars
  <2> QED
        BY <1>1, <2>1, Zenon
<1>14. CASE ReceiverStep
  <2>1. UNCHANGED <<senderVars, decoded>>
        BY <1>14, Zenon DEF ReceiverStep, ReaderStep, ProcessingStep, ConnReady, Read, DecodePartial,
            EndOfStream, Enqueue, DropFull, InboundClosed, ReadFails, IdleTimeout, Process,
            ProcessReturns, ProcessPanics, AbortTasks, readerVars
  <2> QED
        BY <1>1, <2>1, Zenon DEF senderVars
<1>15. CASE UNCHANGED vars
      BY <1>1, <1>15, Zenon DEF vars, senderVars, receiverVars, readerVars
<1> QED
      BY <1>6, <1>7, <1>8, <1>9, <1>11, <1>12, <1>13, <1>14, <1>15, BothSides, Zenon
      DEF SenderStep, WriterStep, WriterEnd

-----------------------------------------------------------------------------
(* What becomes of the decoded messages. *)

\* The message the reader holds is later than the others that were decoded.
LEMMA HeldIsLast ==
    ASSUME decoded \in Seq(Msg), decoded # <<>>, Increasing(decoded)
    PROVE  Held \in Msg /\ Held \in Range(decoded) /\ \A k \in Range(decoded) \ {Held} : k < Held
<1>1. Len(decoded) \in Nat \ {0}
      BY EmptySeq, Zenon
<1>2. Range(decoded) = {decoded[i] : i \in 1 .. Len(decoded)}
      BY RangeEquality, Zenon
<1>3. Len(decoded) \in 1 .. Len(decoded)
      BY <1>1
<1>4. Held \in Msg /\ Held \in Range(decoded)
      BY <1>2, <1>3, ElementOfSeq, Zenon DEF Held
<1>5. ASSUME NEW i \in 1 .. Len(decoded), decoded[i] # Held PROVE decoded[i] < Held
  <2>1. i < Len(decoded)
        BY <1>1, <1>5 DEF Held
  <2> QED
        BY <1>3, <2>1, Zenon DEF Increasing, Held
<1> QED
      BY <1>2, <1>4, <1>5, Zenon

\* Nothing is passed on twice or out of turn, and no drop is forgotten.
LEMMA NextPassed ==
    ASSUME IInv, WayInv, [Next]_vars
    PROVE  PassedOn' /\ DropsReported'
<1>0. /\ SenderTypeOK /\ WayTypeOK /\ InOrder /\ PassedOn /\ DropsReported
      /\ Framed(Stream) /\ StreamWhole /\ PartialCounted
      BY Zenon DEF IInv, WayInv
<1>1. /\ inbound \in Seq(Msg) /\ processed \in Seq(Msg) /\ decoded \in Seq(Msg)
      /\ dropped_count \in Nat /\ warned \in Nat /\ skipped \in Seq(Msg)
      BY <1>0, Zenon DEF WayTypeOK
<1>2. ASSUME UNCHANGED <<inbound, processed, skipped, decoded, dropped_count, warned>>,
             reader' = reader \/ reader' # "holding"
      PROVE  PassedOn' /\ DropsReported'
  <2>1. Held' = Held
        BY <1>2, Zenon DEF Held
  <2>2. PassedOn'
        BY <1>0, <1>2, <2>1, Zenon DEF PassedOn, Increasing, Before
  <2>3. DropsReported'
        BY <1>0, <1>2, Zenon DEF DropsReported
  <2> QED
        BY <2>2, <2>3, Zenon
<1>3. CASE SenderStep
  <2>1. UNCHANGED receiverVars
        BY <1>0, <1>3, SenderStepTypes, Zenon
  <2> QED
        BY <1>2, <2>1, Zenon DEF receiverVars, readerVars, dropVars, inboundVars
<1>4. ASSUME NEW n, ConnReady \/ Read(n) \/ DecodePartial(n) \/ EndOfStream \/ InboundClosed
                     \/ ReadFails \/ IdleTimeout \/ ProcessReturns
      PROVE  PassedOn' /\ DropsReported'
  <2>1. /\ UNCHANGED <<inbound, processed, skipped, decoded, dropped_count, warned>>
        /\ reader' = reader \/ reader' # "holding"
        BY <1>4, Zenon DEF ConnReady, Read, DecodePartial, EndOfStream, InboundClosed, ReadFails, IdleTimeout,
            ProcessReturns, ReaderGone, dropVars, inboundVars, readerVars
  <2> QED
        BY <1>2, <2>1, Zenon
<1>5. CASE Decode
  <2>1. PICK m \in Msg : decoded' = Append(decoded, m) /\ \A k \in Range(decoded) : k < m
        BY <1>0, <1>5, DecodeOrder, Zenon
  <2>2. UNCHANGED <<inbound, processed, skipped, dropped_count, warned>>
        BY <1>5, Zenon DEF Decode, dropVars, inboundVars
  <2> DEFINE a == Append(decoded, m)
  <2>3. /\ a # <<>> /\ Len(a) = Len(decoded) + 1 /\ a[Len(decoded) + 1] = m
        /\ Range(a) = Range(decoded) \cup {m}
        BY <1>0, <1>1, <2>1, IncreasingMore, Zenon DEF InOrder
  <2>4. decoded' = a
        BY <2>1, Zenon
  <2> HIDE DEF a
  <2>5. Held' = m /\ decoded' # <<>> /\ Range(decoded') = Range(decoded) \cup {m}
        BY <2>3, <2>4, Zenon DEF Held
  <2>6. m \notin Range(decoded)
    <3>1. m \in Nat
          BY MessagesAssumption DEF Msg
    <3>2. ~(m < m)
          BY <3>1
    <3> QED
          BY <2>1, <3>2, Zenon
  <2>7. PassedOn'
        BY <1>0, <2>2, <2>5, <2>6, Zenon DEF PassedOn, Increasing, Before
  <2>8. DropsReported'
        BY <1>0, <2>2, Zenon DEF DropsReported
  <2> QED
        BY <2>7, <2>8, Zenon
<1>6. ASSUME reader = "holding"
      PROVE  /\ Held \in Msg /\ Held \in Range(decoded) /\ \A k \in Range(decoded) \ {Held} : k < Held
             /\ Held \notin Range(inbound) \cup Range(processed) \cup Range(skipped)
  <2>1. decoded # <<>> /\ Held \notin Range(inbound) \cup Range(processed) \cup Range(skipped)
        BY <1>0, <1>6, Zenon DEF PassedOn
  <2> QED
        BY <1>0, <1>1, <2>1, HeldIsLast, Zenon DEF InOrder
<1>7. CASE Enqueue
  <2>1. /\ reader = "holding" /\ reader' # "holding"
        /\ inbound' = Append(inbound, Held) /\ warned' = warned + dropped_count /\ dropped_count' = 0
        /\ UNCHANGED <<decoded, skipped, processed>>
        BY <1>7, Zenon DEF Enqueue
  <2>2. (\A k \in Range(inbound) : k < Held) /\ (\A k \in Range(processed) : k < Held)
        BY <1>0, <1>6, <2>1, Zenon DEF PassedOn
  <2> DEFINE a == Append(inbound, Held)
  <2>3. Increasing(a) /\ Range(a) = Range(inbound) \cup {Held}
        BY <1>0, <1>1, <1>6, <2>1, <2>2, IncreasingMore, Zenon DEF PassedOn
  <2>4. inbound' = a
        BY <2>1, Zenon
  <2> HIDE DEF a
  <2>5. Increasing(inbound)' /\ Range(inbound') = Range(inbound) \cup {Held}
        BY <2>3, <2>4, Zenon DEF Increasing
  <2>6. Before(Range(processed), Range(inbound))'
        BY <1>0, <2>1, <2>2, <2>5, Zenon DEF PassedOn, Before
  <2>7. PassedOn'
        BY <1>0, <1>6, <2>1, <2>5, <2>6, Zenon DEF PassedOn, Increasing
  <2>8. DropsReported'
        BY <1>0, <1>1, <2>1 DEF DropsReported
  <2> QED
        BY <2>7, <2>8, Zenon
<1>8. CASE DropFull
  <2>1. /\ reader = "holding" /\ reader' # "holding" /\ skipped' = Append(skipped, Held)
        /\ \/ dropped_count' = dropped_count + 1 /\ warned' = warned
           \/ dropped_count' = 0 /\ warned' = warned + dropped_count + 1
        /\ UNCHANGED <<decoded, inbound, processed>>
        BY <1>8, Zenon DEF DropFull, inboundVars
  <2>2. \A k \in Range(skipped) : k < Held
        BY <1>0, <1>6, <2>1, Zenon DEF PassedOn
  <2> DEFINE a == Append(skipped, Held)
  <2>3. Increasing(a) /\ Range(a) = Range(skipped) \cup {Held} /\ Len(a) = Len(skipped) + 1
        BY <1>0, <1>1, <1>6, <2>1, <2>2, IncreasingMore, Zenon DEF PassedOn
  <2>4. skipped' = a
        BY <2>1, Zenon
  <2> HIDE DEF a
  <2>5. warned' + dropped_count' = warned + dropped_count + 1
        BY <1>1, <2>1
  <2>6. DropsReported'
        BY <1>0, <2>3, <2>4, <2>5, Zenon DEF DropsReported
  <2>7. Increasing(skipped)' /\ Range(skipped') = Range(skipped) \cup {Held}
        BY <2>3, <2>4, Zenon DEF Increasing
  <2>8. PassedOn'
        BY <1>0, <1>6, <2>1, <2>7, Zenon DEF PassedOn, Increasing, Before
  <2> QED
        BY <2>6, <2>8, Zenon
<1>9. CASE Process
  <2>1. UNCHANGED <<reader, decoded, skipped, dropped_count, warned>>
        BY <1>9, Zenon DEF Process, readerVars, dropVars
  <2>2. CASE inbound # <<>> /\ processed' = Append(processed, Head(inbound)) /\ inbound' = Tail(inbound)
    <3> DEFINE h == Head(inbound)
               r == Tail(inbound)
               a == Append(processed, h)
    <3>1. /\ h \in Msg /\ r \in Seq(Msg) /\ Increasing(r)
          /\ Range(inbound) = Range(r) \cup {h} /\ \A k \in Range(r) : h < k
          BY <1>0, <1>1, <2>2, IncreasingTail, Zenon DEF PassedOn
    <3>2. \A k \in Range(processed) : k < h
          BY <1>0, <3>1, Zenon DEF PassedOn, Before
    <3> HIDE DEF h
    <3>3. Increasing(a) /\ Range(a) = Range(processed) \cup {h}
          BY <1>0, <1>1, <3>1, <3>2, IncreasingMore, Zenon DEF PassedOn
    <3>4. processed' = a /\ inbound' = r
          BY <2>2, Zenon DEF h
    <3> HIDE DEF a, r
    <3>5. /\ Increasing(inbound)' /\ Increasing(processed)'
          /\ Range(processed') = Range(processed) \cup {h} /\ Range(inbound') = Range(r)
          BY <3>1, <3>3, <3>4, Zenon DEF Increasing
    <3>6. Before(Range(processed), Range(inbound))'
          BY <1>0, <3>1, <3>5, Zenon DEF PassedOn, Before
    <3>7. Range(inbound') \cup Range(processed') = Range(inbound) \cup Range(processed)
          BY <3>1, <3>5, Zenon
    <3>8. Held' = Held
          BY <2>1, Zenon DEF Held
    <3>9. PassedOn'
          BY <1>0, <2>1, <3>5, <3>6, <3>7, <3>8, Zenon DEF PassedOn
    <3>10. DropsReported'
          BY <1>0, <2>1, Zenon DEF DropsReported
    <3> QED
          BY <3>9, <3>10, Zenon
  <2>3. CASE UNCHANGED <<processed, inbound>>
        BY <1>2, <2>1, <2>3, Zenon
  <2> QED
        BY <1>9, <2>2, <2>3, Zenon DEF Process
<1>10. CASE ProcessPanics \/ AbortTasks
  <2>1. /\ inbound' = <<>> /\ UNCHANGED <<processed, decoded, skipped, dropped_count, warned>>
        /\ reader' = reader \/ reader' # "holding"
        BY <1>10, Zenon DEF ProcessPanics, AbortTasks, ReaderGone, readerVars, dropVars
  <2>2. Increasing(inbound)' /\ Range(inbound') = {}
        BY <2>1, EmptyOrder, Zenon DEF Increasing
  <2>3. Held' = Held
        BY <2>1, Zenon DEF Held
  <2>4. PassedOn'
        BY <1>0, <2>1, <2>2, <2>3, Zenon DEF PassedOn, Increasing, Before
  <2>5. DropsReported'
        BY <1>0, <2>1, Zenon DEF DropsReported
  <2> QED
        BY <2>4, <2>5, Zenon
<1>11. CASE UNCHANGED vars
      BY <1>2, <1>11, Zenon DEF vars, receiverVars, readerVars, dropVars, inboundVars
<1> QED
      BY <1>3, <1>4, <1>5, <1>7, <1>8, <1>9, <1>10, <1>11, BothSides, Zenon
      DEF ReceiverStep, ReaderStep, ProcessingStep

-----------------------------------------------------------------------------
(* The theorems about the whole way. *)

\* A new connection has nothing on its way.
LEMMA InitWay == Init => WayInv
<1> SUFFICES ASSUME Init PROVE WayInv
      BY Zenon
<1> DEFINE e == <<>>
<1>1. e \in Seq(Byte) /\ e \in Seq(Msg) /\ Len(e) = 0 /\ e \o e \o e = e
      BY EmptySeq
<1>2. 1 .. 0 = {} /\ 2 .. 0 = {} /\ 0 + 1 .. 0 = {}
      OBVIOUS
<1>3. /\ queue = e /\ batch = e /\ buffer = e /\ wire = e /\ src = e /\ inbound = e
      /\ processed = e /\ decoded = e /\ fed = 0 /\ acc = 0 /\ skipped = e
      /\ dropped_count = 0 /\ warned = 0 /\ received = <<0, 0>>
      BY Zenon DEF Init
<1>4. Stream = e
      BY <1>1, <1>3, Zenon DEF Stream
<1>5. WayTypeOK
  <2>1. 0 <= WriteDepth /\ 0 <= ReadDepth /\ 0 <= SocketBuffer
        BY MessagesAssumption
  <2> QED
        BY <1>1, <1>3, <2>1 DEF WayTypeOK, Init, Byte
<1>6. Range(e) = {} /\ Increasing(e)
      BY EmptyOrder, Zenon
<1> HIDE DEF e
<1>7. Framed(Stream)
      BY <1>1, <1>2, <1>4, Zenon DEF Framed
<1>8. StreamWhole /\ PartialCounted
      BY <1>3, <1>4, Zenon DEF StreamWhole, PartialCounted, e
<1>9. Streamed = {} /\ Unfed = {}
      BY <1>1, <1>2, <1>3, <1>4, Zenon DEF Streamed, Unfed
<1>10. InOrder
      BY <1>3, <1>6, <1>9, Zenon DEF InOrder, Before
<1>11. PassedOn
  <2>1. reader # "holding"
        BY Zenon DEF Init
  <2> QED
        BY <1>3, <1>6, <2>1, Zenon DEF PassedOn, Before
<1>12. DropsReported
      BY <1>1, <1>3 DEF DropsReported
<1> QED
      BY <1>5, <1>7, <1>8, <1>10, <1>11, <1>12, Zenon DEF WayInv

\* The inductive invariant of the whole way from unicast to process_message holds in
\* every state, whatever the sizes, the depths of the queues and the teardowns.
THEOREM WayInvariance == Spec => [](IInv /\ WayInv)
<1>1. IInv /\ WayInv /\ [Next]_vars => WayInv'
  <2> SUFFICES ASSUME IInv, WayInv, [Next]_vars PROVE WayInv'
        BY Zenon
  <2>1. WayTypeOK'
        BY NextTypes, Zenon
  <2>2. Framed(Stream)' /\ StreamWhole' /\ PartialCounted'
        BY NextStream, Zenon
  <2>3. InOrder'
        BY NextOrder, Zenon
  <2>4. PassedOn' /\ DropsReported'
        BY NextPassed, Zenon
  <2> QED
        BY <2>1, <2>2, <2>3, <2>4, Zenon DEF WayInv
<1> QED
      BY <1>1, InitWay, MessagesInvariance, PTL DEF Spec

\* Every variable keeps its type, and neither queue ever holds more than its depth: what
\* queue_message accepts and what the reader passes on respect MESSAGE_QUEUE_DEPTH.
THEOREM QueuesBounded == Spec => []TypeOK
<1>1. IInv /\ WayInv => TypeOK
  <2> SUFFICES ASSUME IInv, WayInv PROVE TypeOK
        BY Zenon
  <2>1. SenderTypeOK /\ WayTypeOK
        BY Zenon DEF IInv, WayInv
  <2>2. /\ queue \in Seq(Msg) /\ batch \in Seq(Msg) /\ inbound \in Seq(Msg)
        /\ processed \in Seq(Msg) /\ decoded \in Seq(Msg) /\ skipped \in Seq(Msg)
        BY <2>1, Zenon DEF SenderTypeOK, WayTypeOK
  <2>3. \A s \in {queue, batch, inbound, processed, decoded, skipped} : Range(s) \subseteq Msg
        BY <2>2, RangeOfSeq, Zenon
  <2>4. fed <= Len(batch)
        BY <2>1 DEF SenderTypeOK
  <2> QED
        BY <2>1, <2>3, <2>4, Zenon DEF TypeOK, SenderTypeOK, WayTypeOK
<1> QED
      BY <1>1, WayInvariance, PTL

\* process_message is called at most once for a message, and in the order the messages
\* were submitted in, however the writer's batches, the partial writes, the reads and the
\* decoder's calls cut the stream.
THEOREM MessagesKeepOrder == Spec => []ProcessedInOrder
<1>1. WayInv => ProcessedInOrder
      BY Zenon DEF WayInv, PassedOn, ProcessedInOrder
<1> QED
      BY <1>1, WayInvariance, PTL

\* CountingCodec::acc holds the bytes consumed of the frame in progress, however the
\* decoder's calls split it.
THEOREM PartialFramesCounted == Spec => []PartialCounted
<1>1. WayInv => PartialCounted
      BY Zenon DEF WayInv
<1> QED
      BY <1>1, WayInvariance, PTL

\* A message dropped by a full inbound queue is reported exactly once, or still counted.
THEOREM DropsAccounted == Spec => []DropsReported
<1>1. WayInv => DropsReported
      BY Zenon DEF WayInv
<1> QED
      BY <1>1, WayInvariance, PTL

\* Stats::received changes only when the codec has produced a message, by one message and
\* by exactly its size on the wire.
THEOREM MessagesCountedWhole == Spec => [][ReceivedWhole]_vars
<1>1. IInv /\ WayInv /\ [Next]_vars => [ReceivedWhole]_vars
  <2> SUFFICES ASSUME IInv, WayInv, [Next]_vars PROVE ReceivedWhole
        BY Zenon
  <2>0. SenderTypeOK /\ WayTypeOK /\ Framed(Stream) /\ PartialCounted
        BY Zenon DEF IInv, WayInv
  <2>1. CASE Decode
        BY <2>0, <2>1, DecodeStream, Zenon DEF ReceivedWhole
  <2>2. CASE UNCHANGED <<received, decoded>>
        BY <2>2, Zenon DEF ReceivedWhole
  <2>3. ASSUME SenderStep PROVE UNCHANGED <<received, decoded>>
        BY <2>0, <2>3, SenderStepTypes, Zenon DEF receiverVars, readerVars
  <2>4. ASSUME NEW n, DecodePartial(n) PROVE UNCHANGED <<received, decoded>>
        BY <2>4, Zenon DEF DecodePartial, account
  <2>5. ASSUME ReceiverStep PROVE Decode \/ UNCHANGED <<received, decoded>>
        BY <2>4, <2>5, Zenon DEF ReceiverStep, ReaderStep, ProcessingStep, ConnReady, Read,
            EndOfStream, Enqueue, DropFull, InboundClosed, ReadFails, IdleTimeout, Process,
            ProcessReturns, ProcessPanics, AbortTasks, readerVars
  <2>6. ASSUME UNCHANGED vars PROVE UNCHANGED <<received, decoded>>
        BY <2>6, Zenon DEF vars, receiverVars, readerVars
  <2> QED
        BY <2>1, <2>2, <2>3, <2>5, <2>6, BothSides, Zenon
<1> QED
      BY <1>1, WayInvariance, PTL DEF Spec

-----------------------------------------------------------------------------
(* The channel the two ends implement. *)

\* The messages that end in a concatenation are those that end in its parts.
LEMMA WholeConcat ==
    ASSUME NEW a \in Seq(Byte), NEW b \in Seq(Byte)
    PROVE  Whole(a \o b) = Whole(a) \cup Whole(b)
<1>1. Len(a) \in Nat /\ Len(b) \in Nat
      BY LenProperties, Zenon
<1> DEFINE c == a \o b
<1>2. Len(c) = Len(a) + Len(b)
      BY ConcatProperties, Zenon
<1>3. \A i \in 1 .. Len(a) + Len(b) : c[i] = IF i <= Len(a) THEN a[i] ELSE b[i - Len(a)]
      BY ConcatProperties, Zenon
<1> HIDE DEF c
<1>4. \A i \in 1 .. Len(a) : i \in 1 .. Len(c) /\ c[i] = a[i]
  <2> SUFFICES ASSUME NEW i \in 1 .. Len(a) PROVE i \in 1 .. Len(c) /\ c[i] = a[i]
        BY Zenon
  <2>1. i \in 1 .. Len(a) + Len(b) /\ i <= Len(a)
        BY <1>1
  <2> QED
        BY <1>2, <1>3, <2>1, Zenon
<1>5. \A i \in 1 .. Len(b) : i + Len(a) \in 1 .. Len(c) /\ c[i + Len(a)] = b[i]
  <2> SUFFICES ASSUME NEW i \in 1 .. Len(b)
               PROVE  i + Len(a) \in 1 .. Len(c) /\ c[i + Len(a)] = b[i]
        BY Zenon
  <2>1. i + Len(a) \in 1 .. Len(a) + Len(b) /\ ~(i + Len(a) <= Len(a)) /\ i + Len(a) - Len(a) = i
        BY <1>1
  <2>2. c[i + Len(a)] = b[i + Len(a) - Len(a)]
        BY <1>3, <2>1
  <2> QED
        BY <1>2, <2>1, <2>2, Zenon
<1>6. \A i \in 1 .. Len(c) : \/ i \in 1 .. Len(a) /\ c[i] = a[i]
                             \/ i - Len(a) \in 1 .. Len(b) /\ c[i] = b[i - Len(a)]
  <2> SUFFICES ASSUME NEW i \in 1 .. Len(c)
               PROVE  \/ i \in 1 .. Len(a) /\ c[i] = a[i]
                      \/ i - Len(a) \in 1 .. Len(b) /\ c[i] = b[i - Len(a)]
        BY Zenon
  <2>1. i \in 1 .. Len(a) + Len(b)
        BY <1>2, Zenon
  <2>2. (i <= Len(a) => i \in 1 .. Len(a)) /\ (~(i <= Len(a)) => i - Len(a) \in 1 .. Len(b))
        BY <1>1, <2>1
  <2> QED
        BY <1>3, <2>1, <2>2, Zenon
<1>7. Whole(a) \cup Whole(b) \subseteq Whole(c)
      BY <1>4, <1>5, Zenon DEF Whole
<1>8. Whole(c) \subseteq Whole(a) \cup Whole(b)
      BY <1>6, Zenon DEF Whole
<1> QED
      BY <1>7, <1>8, Zenon DEF c

\* A byte that enters the socket stays on its way.
LEMMA WholeFlush ==
    ASSUME NEW b \in Seq(Byte), NEW c \in Seq(Byte), c # <<>>
    PROVE  Whole(Append(b, Head(c))) \cup Whole(Tail(c)) = Whole(b) \cup Whole(c)
<1> DEFINE h == <<Head(c)>>
<1>1. Head(c) \in Byte /\ Tail(c) \in Seq(Byte)
      BY HeadTailProperties, Zenon
<1>2. h \in Seq(Byte)
      BY <1>1
<1>3. Append(b, Head(c)) = b \o h
      BY <1>1, AppendIsConcat, Zenon
<1>4. c = h \o Tail(c)
  <2>1. Len(c) \in Nat \ {0} /\ Head(c) = c[1] /\ SubSeq(c, 1, Len(c)) = c
        BY EmptySeq, SubSeqFull
  <2>2. 1 \in 1 .. Len(c) /\ Len(c) \in 1 .. Len(c) /\ 1 + 1 = 2
        BY <2>1
  <2>3. SubSeq(c, 1, Len(c)) = <<c[1]>> \o SubSeq(c, 1 + 1, Len(c))
        BY <2>2, SubSeqRecursiveFirst, Zenon
  <2>4. Tail(c) = SubSeq(c, 2, Len(c))
        BY TailIsSubSeq, Zenon
  <2> QED
        BY <2>1, <2>2, <2>3, <2>4, Zenon
<1> HIDE DEF h
<1>5. Whole(b \o h) = Whole(b) \cup Whole(h) /\ Whole(h \o Tail(c)) = Whole(h) \cup Whole(Tail(c))
      BY <1>1, <1>2, WholeConcat, Zenon
<1> QED
      BY <1>3, <1>4, <1>5, Zenon

\* What is cut off at the front, and the rest.
LEMMA WholeCut ==
    ASSUME NEW b \in Seq(Byte), NEW n \in 0 .. Len(b)
    PROVE  /\ SubSeq(b, 1, n) \in Seq(Byte) /\ SubSeq(b, n + 1, Len(b)) \in Seq(Byte)
           /\ Len(SubSeq(b, 1, n)) = n /\ \A i \in 1 .. n : SubSeq(b, 1, n)[i] = b[i]
           /\ Whole(b) = Whole(SubSeq(b, 1, n)) \cup Whole(SubSeq(b, n + 1, Len(b)))
<1>1. Len(b) \in Nat /\ n \in Nat /\ n <= Len(b)
      BY LenProperties
<1>2. (\A i \in 1 .. n : b[i] \in Byte) /\ (\A i \in n + 1 .. Len(b) : b[i] \in Byte)
      BY <1>1, ElementOfSeq
<1> DEFINE f == SubSeq(b, 1, n)
           r == SubSeq(b, n + 1, Len(b))
<1>3. f \in Seq(Byte) /\ r \in Seq(Byte)
  <2>1. 1 \in Int /\ n \in Int /\ n + 1 \in Int /\ Len(b) \in Int
        BY <1>1
  <2> QED
        BY <1>2, <2>1, SubSeqProperties, Zenon
<1>4. Len(f) = n /\ \A i \in 1 .. n : f[i] = b[i]
  <2>1. Len(f) = IF 1 <= n THEN n - 1 + 1 ELSE 0
        BY <1>1, <1>2, SubSeqProperties
  <2>2. \A i \in 1 .. n - 1 + 1 : f[i] = b[1 + i - 1]
        BY <1>1, <1>2, SubSeqProperties
  <2> HIDE DEF f
  <2>3. n - 1 + 1 = n /\ \A i \in 1 .. n : 1 + i - 1 = i
        BY <1>1
  <2> QED
        BY <1>1, <2>1, <2>2, <2>3
<1>5. b = f \o r
  <2>1. 1 \in 1 .. Len(b) + 1 /\ n \in 1 - 1 .. Len(b) /\ Len(b) \in n .. Len(b)
        BY <1>1
  <2>2. f \o r = SubSeq(b, 1, Len(b))
        BY <2>1, ConcatAdjacentSubSeq, Zenon
  <2> QED
        BY <2>2, SubSeqFull, Zenon
<1> HIDE DEF f, r
<1>6. Whole(f \o r) = Whole(f) \cup Whole(r)
      BY <1>3, WholeConcat, Zenon
<1>7. Whole(b) = Whole(f) \cup Whole(r)
      BY <1>5, <1>6, Zenon
<1> QED
      BY <1>3, <1>4, <1>7, Zenon DEF f, r

\* The bytes of one message hold its end, and no other's.
LEMMA WholeBytes ==
    ASSUME NEW m \in Msg
    PROVE  Whole(Bytes(m)) = {m}
<1>1. Size[m] \in Nat \ {0} /\ Len(Bytes(m)) = Size[m] /\ Bytes(m)[Size[m]] = <<m, Size[m]>>
      BY BytesOfMessage, Zenon
<1>2. \A i \in 1 .. Size[m] : Bytes(m)[i] = <<m, i>>
      BY Zenon DEF Bytes
<1>3. Size[m] \in 1 .. Len(Bytes(m))
      BY <1>1
<1>4. m \in Whole(Bytes(m))
      BY <1>1, <1>3, Zenon DEF Whole
<1>5. ASSUME NEW k \in Whole(Bytes(m)) PROVE k = m
  <2>1. PICK i \in 1 .. Len(Bytes(m)) : Bytes(m)[i] = <<k, Size[k]>>
        BY <1>5, Zenon DEF Whole
  <2>2. <<k, Size[k]>> = <<m, i>>
        BY <1>1, <1>2, <2>1, Zenon
  <2> QED
        BY <2>2, Zenon
<1> QED
      BY <1>4, <1>5, Zenon

\* Of framed bytes, the messages that end in the front are earlier than those that end
\* behind it.
LEMMA FramedWhole ==
    ASSUME NEW a \in Seq(Byte), NEW b \in Seq(Byte), Framed(a \o b)
    PROVE  Before(Whole(a), Whole(b))
<1> DEFINE c == a \o b
<1>1. Len(a) \in Nat /\ Len(b) \in Nat
      BY LenProperties, Zenon
<1>2. Len(c) = Len(a) + Len(b)
      BY ConcatProperties, Zenon
<1>3. \A i \in 1 .. Len(a) + Len(b) : c[i] = IF i <= Len(a) THEN a[i] ELSE b[i - Len(a)]
      BY ConcatProperties, Zenon
<1>4. Framed(c)
      BY Zenon
<1> HIDE DEF c
<1> SUFFICES ASSUME NEW m \in Whole(a), NEW n \in Whole(b) PROVE m < n
      BY Zenon DEF Before
<1>5. PICK i \in 1 .. Len(a) : a[i] = <<m, Size[m]>>
      BY Zenon DEF Whole
<1>6. PICK j \in 1 .. Len(b) : b[j] = <<n, Size[n]>>
      BY Zenon DEF Whole
<1> DEFINE k == j + Len(a)
<1>7. /\ i \in 1 .. Len(a) + Len(b) /\ i <= Len(a) /\ k \in 1 .. Len(a) + Len(b)
      /\ ~(k <= Len(a)) /\ k - Len(a) = j /\ i < k
      BY <1>1
<1> HIDE DEF k
<1>8. c[i] = <<m, Size[m]>> /\ c[k] = <<n, Size[n]>>
      BY <1>3, <1>5, <1>6, <1>7, Zenon
<1>9. m \in Msg /\ n \in Msg /\ Size[m] \in Nat
      BY MessagesAssumption, Zenon DEF Whole
<1>10. IF k - i <= Size[c[i][1]] - c[i][2] THEN c[k] = <<c[i][1], c[i][2] + (k - i)>>
                                            ELSE c[k][1] > c[i][1]
      BY <1>2, <1>4, <1>7, Zenon DEF Framed
<1>11. c[i][1] = m /\ c[i][2] = Size[m] /\ c[k][1] = n
      BY <1>8
<1>12. ~(k - i <= Size[m] - Size[m])
      BY <1>7, <1>9
<1>13. n > m
      BY <1>10, <1>11, <1>12, Zenon
<1> QED
      BY <1>9, <1>13, Zenon DEF Msg

\* The messages that end in a part of the stream are messages of the stream.
LEMMA WholeStreamed ==
    ASSUME SenderTypeOK, WayTypeOK
    PROVE  Whole(src) \cup Whole(wire) \cup Whole(buffer) \subseteq Streamed
<1>1. src \in Seq(Byte) /\ wire \in Seq(Byte) /\ buffer \in Seq(Byte)
      BY StreamTypes, Zenon
<1>2. src \o wire \in Seq(Byte)
      BY <1>1, ConcatProperties, Zenon
<1>3. Whole(Stream) = Whole(src) \cup Whole(wire) \cup Whole(buffer)
      BY <1>1, <1>2, WholeConcat, Zenon DEF Stream
<1>4. Whole(Stream) \subseteq Streamed
      BY DEF Whole, Streamed
<1> QED
      BY <1>3, <1>4, Zenon

\* What waits to be processed is earlier than what is ahead of the reader, and that is
\* earlier than what the writer has not written out.
LEMMA TransitOrder ==
    ASSUME IInv, WayInv
    PROVE  /\ Range(inbound) \subseteq Msg /\ Ahead \subseteq Msg /\ Behind \subseteq Msg
           /\ Before(Range(inbound), Ahead \cup Behind)
           /\ Before(Ahead, Behind)
           /\ Before(Range(inbound) \cup Range(processed) \cup Ahead \cup Behind, Unsubmitted)
           /\ Before(Range(processed), Range(inbound))
           /\ reader = "holding" => Before({Held}, Whole(src) \cup Whole(wire) \cup Behind)
<1>0. /\ SenderTypeOK /\ WayTypeOK /\ InOrder /\ PassedOn /\ Framed(Stream)
      BY Zenon DEF IInv, WayInv
<1>1. /\ src \in Seq(Byte) /\ wire \in Seq(Byte) /\ buffer \in Seq(Byte)
      BY <1>0, StreamTypes, Zenon
<1>2. /\ inbound \in Seq(Msg) /\ decoded \in Seq(Msg) /\ queue \in Seq(Msg) /\ batch \in Seq(Msg)
      /\ fed \in 0 .. Len(batch)
      BY <1>0, Zenon DEF SenderTypeOK, WayTypeOK
<1>3. Range(inbound) \subseteq Msg /\ Range(queue) \subseteq Msg
      BY <1>2, RangeOfSeq, Zenon
<1>4. Unfed \subseteq Msg
  <2>1. \A i \in fed + 1 .. Len(batch) : i \in 1 .. Len(batch)
        BY <1>2
  <2> QED
        BY <1>2, <2>1, ElementOfSeq, Zenon DEF Unfed
<1> DEFINE W == Whole(src) \cup Whole(wire)
<1>5. /\ W \subseteq Msg /\ Whole(buffer) \subseteq Msg
      BY Zenon DEF Whole
<1>6. W \subseteq Streamed /\ Whole(buffer) \subseteq Streamed
      BY <1>0, WholeStreamed, Zenon
<1>7. Before(W, Whole(buffer))
  <2>1. src \o wire \in Seq(Byte) /\ Whole(src \o wire) = W
        BY <1>1, ConcatProperties, WholeConcat, Zenon
  <2>2. Before(Whole(src \o wire), Whole(buffer))
        BY <1>0, <1>1, <2>1, FramedWhole, Zenon DEF Stream
  <2> QED
        BY <2>1, <2>2, Zenon
<1>8. reader = "holding" =>
         /\ Held \in Msg /\ Held \in Range(decoded)
         /\ \A k \in Range(inbound) : k \in Range(decoded) \ {Held} /\ k < Held
      BY <1>0, <1>2, HeldIsLast, Zenon DEF PassedOn, InOrder
<1>9. /\ Ahead = (IF reader = "holding" THEN {Held} ELSE {}) \cup W
      /\ Behind = Whole(buffer) \cup Unfed \cup Range(queue)
      BY Zenon DEF Ahead, Behind
<1>10. Range(inbound) \subseteq Range(decoded) /\ Range(processed) \subseteq Range(decoded)
      BY <1>0, Zenon DEF PassedOn
<1>11. /\ Before(Range(decoded), Streamed) /\ Before(Range(decoded), Unfed)
       /\ Before(Range(decoded), Range(queue)) /\ Before(Range(decoded), Unsubmitted)
       /\ Before(Streamed, Unfed) /\ Before(Streamed, Range(queue)) /\ Before(Streamed, Unsubmitted)
       /\ Before(Unfed, Unsubmitted) /\ Before(Range(queue), Unsubmitted)
      BY <1>0, Zenon DEF InOrder, Before
<1> HIDE DEF W
<1>12. Ahead \subseteq Msg /\ Behind \subseteq Msg
      BY <1>3, <1>4, <1>5, <1>8, <1>9, Zenon
<1>13. Before(Range(decoded), Behind) /\ Before(W, Behind) /\ Before(Range(decoded), W)
      BY <1>6, <1>7, <1>9, <1>11, Zenon DEF Before
<1>14. Before(Range(inbound), Ahead \cup Behind)
      BY <1>8, <1>9, <1>10, <1>13, Zenon DEF Before
<1>15. Before(Ahead, Behind)
      BY <1>8, <1>9, <1>13, Zenon DEF Before
<1>16. reader = "holding" => Before({Held}, W \cup Behind)
      BY <1>8, <1>13, Zenon DEF Before
<1>17. Before(Range(inbound) \cup Range(processed) \cup Ahead \cup Behind, Unsubmitted)
      BY <1>6, <1>8, <1>9, <1>10, <1>11, Zenon DEF Before
<1>18. Before(Range(processed), Range(inbound))
      BY <1>0, Zenon DEF PassedOn
<1> QED
      BY <1>3, <1>12, <1>14, <1>15, <1>16, <1>17, <1>18, Zenon DEF W

\* The writer has encoded all of a batch it accounts for, and has none between two: a new
\* connection has no batch, and every step keeps it so.
LEMMA NextBatch ==
    /\ Init => BatchDone
    /\ IInv /\ WayInv /\ BatchDone /\ [Next]_vars => BatchDone'
<1>1. Init => BatchDone
      BY Zenon DEF Init, BatchDone
<1>2. ASSUME IInv, WayInv, BatchDone, [Next]_vars PROVE BatchDone'
  <2>1. ASSUME UNCHANGED <<batch, fed, writer>> PROVE BatchDone'
        BY <1>2, <2>1, Zenon DEF BatchDone
  <2>2. ASSUME batch' = <<>>, writer' # "register" PROVE BatchDone'
        BY <2>2, Zenon DEF BatchDone
  <2>3. ASSUME writer' = "feeding" PROVE BatchDone'
        BY <2>3, Zenon DEF BatchDone
  <2>4. ASSUME SenderStep, ~UNCHANGED <<batch, fed, writer>> PROVE BatchDone'
    <3>1. CASE RecvMany
          BY <1>2, <2>3, <3>1, Zenon DEF RecvMany, BatchDone
    <3>2. CASE Feed
          BY <2>3, <3>2, Zenon DEF Feed
    <3>3. CASE BatchWritten
          BY <3>3, Zenon DEF BatchWritten, BatchDone
    <3>4. CASE RegisterSent
          BY <2>2, <3>4, Zenon DEF RegisterSent
    <3>5. ASSUME NEW r, WriteFails(r) PROVE BatchDone'
          BY <2>2, <3>5, Zenon DEF WriteFails
    <3>6. CASE AbortWriter
          BY <1>2, <3>5, <3>6, Zenon DEF AbortWriter, BatchDone
    <3>7. CASE WriterEnd
          BY <1>2, <3>7, Zenon DEF WriterEnd, SenderCleanup, DropReceiver, BatchDone
    <3>8. ASSUME (\E m \in Msg : QueueMessage(m)) \/ Flush \/ Disconnect
          PROVE  UNCHANGED <<batch, fed, writer>>
          BY <3>8, Zenon DEF QueueMessage, Flush, Disconnect, writerVars
    <3> QED
          BY <2>4, <3>1, <3>2, <3>3, <3>4, <3>5, <3>6, <3>7, <3>8, Zenon
          DEF SenderStep, WriterStep, WriteError, WriteTimeout, EncoderPanics
  <2>5. ASSUME ReceiverStep PROVE UNCHANGED <<batch, fed, writer>>
    <3>1. ASSUME NEW n, DecodePartial(n) \/ Read(n) PROVE UNCHANGED <<batch, fed, writer>>
          BY <3>1, Zenon DEF DecodePartial, Read, senderVars, writerVars
    <3> QED
          BY <2>5, <3>1, Zenon DEF ReceiverStep, ReaderStep, ProcessingStep, ConnReady, Decode,
              EndOfStream, Enqueue, DropFull, InboundClosed, ReadFails, IdleTimeout, Process,
              ProcessReturns, ProcessPanics, AbortTasks, senderVars, writerVars
  <2>6. ASSUME UNCHANGED vars PROVE UNCHANGED <<batch, fed, writer>>
        BY <2>6, Zenon DEF vars, senderVars, writerVars
  <2> QED
        BY <1>2, <2>1, <2>4, <2>5, <2>6, BothSides, Zenon
<1> QED
      BY <1>1, <1>2, Zenon

\* What is in transit, by which of the two ends are left.
LEMMA TransitIs ==
    /\ Reads /\ Writes => Transit = Range(inbound) \cup Ahead \cup Behind
    /\ Reads /\ ~Writes => Transit = Range(inbound) \cup Ahead
    /\ ~Reads => Transit = Range(inbound)
BY Zenon DEF Transit

\* A step after which one end is gone, and of what was in transit an earlier part is left,
\* is a break of the channel.
LEMMA MapBreak ==
    ASSUME IInv, WayInv, UNCHANGED <<backpressure, processed>>, ~(Reads' /\ Writes'),
           \/ Transit' = {}
           \/ Transit' = Range(inbound)
           \/ Reads /\ Transit' = Range(inbound) \cup Ahead
    PROVE  Chan!ChanNext
<1>1. /\ Range(inbound) \subseteq Msg /\ Ahead \subseteq Msg /\ Behind \subseteq Msg
      /\ Before(Range(inbound), Ahead \cup Behind) /\ Before(Ahead, Behind)
      BY TransitOrder, Zenon
<1> DEFINE lost == Transit \ Transit'
<1>2. Transit \subseteq Range(inbound) \cup Ahead \cup Behind /\ Range(inbound) \subseteq Transit
      BY Zenon DEF Transit
<1>3. Reads => Ahead \subseteq Transit
      BY Zenon DEF Transit
<1>4. Transit' \subseteq Transit
      BY <1>2, <1>3, Zenon
<1>5. Transit \ lost = Transit'
      BY <1>4, Zenon
<1>6. Before(Transit', lost)
      BY <1>1, <1>2, Zenon DEF Before
<1>7. \A k \in Transit \ lost, m \in lost : k < m
      BY <1>5, <1>6, Zenon DEF Before
<1>8. (~(Reads /\ Writes))' = TRUE
      BY Zenon
<1>9. lost \in SUBSET Transit
      BY Zenon
<1> HIDE DEF lost
<1>10. Chan!Break(lost)
      BY <1>5, <1>7, <1>8, Zenon DEF Chan!Break
<1> QED
      BY <1>9, <1>10, Zenon DEF Chan!ChanNext

\* A step after which the same is in transit between the same ends.
LEMMA MapStutter ==
    ASSUME UNCHANGED <<backpressure, processed>>, Transit' = Transit,
           (Reads /\ Writes)' <=> (Reads /\ Writes)
    PROVE  UNCHANGED Chan!chanVars
<1>1. (~(Reads /\ Writes))' = ~(Reads /\ Writes)
      BY Zenon
<1> QED
      BY <1>1, Zenon DEF Chan!chanVars

\* A step of the sender leaves the receiver alone.
LEMMA SenderLeaves ==
    ASSUME SenderTypeOK, WayTypeOK, SenderStep
    PROVE  /\ UNCHANGED <<backpressure, processed, inbound, reader, processing, src, decoded>>
           /\ UNCHANGED <<Reads, Held>> /\ Range(inbound)' = Range(inbound)
           /\ wire' = wire => Ahead' = Ahead
<1>1. UNCHANGED <<backpressure, receiverVars>>
      BY SenderStepTypes, Zenon
<1>2. UNCHANGED <<backpressure, processed, inbound, reader, processing, src, decoded>>
      BY <1>1, Zenon DEF receiverVars, readerVars, inboundVars
<1>3. UNCHANGED <<Reads, Held>>
      BY <1>2, Zenon DEF Reads, Held
<1>4. wire' = wire => Ahead' = Ahead
      BY <1>2, <1>3, Zenon DEF Ahead, Whole
<1> QED
      BY <1>2, <1>3, <1>4, Zenon

\* queue_message: an accepted message is sent on the channel, unless it is already broken.
LEMMA MapQueue ==
    ASSUME IInv, WayInv, NEW m \in Msg, QueueMessage(m)
    PROVE  Chan!ChanNext \/ UNCHANGED Chan!chanVars
<1>0. SenderTypeOK /\ WayTypeOK
      BY Zenon DEF IInv, WayInv
<1>1. SenderStep
      BY Zenon DEF SenderStep
<1>2. UNCHANGED <<wire, writer, batch, fed, buffer>> /\ fate[m] = "none"
      BY Zenon DEF QueueMessage, writerVars
<1>3. /\ UNCHANGED <<backpressure, processed>> /\ Reads' = Reads /\ Ahead' = Ahead
      /\ Range(inbound)' = Range(inbound)
      BY <1>0, <1>1, <1>2, SenderLeaves, Zenon
<1>4. Writes' = Writes /\ Whole(buffer)' = Whole(buffer) /\ Unfed' = Unfed
      BY <1>2, Zenon DEF Writes, Whole, Unfed
<1>5. queue' = queue \/ queue' = Append(queue, m)
      BY Zenon DEF QueueMessage
<1>6. CASE ~(Reads /\ Writes) \/ queue' = queue
  <2>1. Behind' = Behind \/ ~(Reads /\ Writes)
        BY <1>4, <1>6, Zenon DEF Behind
  <2>2. Transit' = Transit
        BY <1>3, <1>4, <2>1, Zenon DEF Transit
  <2> QED
        BY <1>3, <1>4, <2>2, MapStutter, Zenon
<1>7. CASE Reads /\ Writes /\ queue' = Append(queue, m)
  <2>1. queue \in Seq(Msg) /\ processed \in Seq(Msg)
        BY <1>0, Zenon DEF SenderTypeOK, WayTypeOK
  <2>2. Range(queue)' = Range(queue) \cup {m}
    <3>1. m \in Unsubmitted
          BY <1>2, Zenon DEF Unsubmitted
    <3>2. Increasing(queue) /\ \A k \in Range(queue) : k < m
          BY <3>1, Zenon DEF WayInv, InOrder, Before
    <3> QED
          BY <1>7, <2>1, <3>2, IncreasingMore, Zenon
  <2>3. Behind' = Behind \cup {m}
        BY <1>4, <2>2, Zenon DEF Behind
  <2>4. Transit' = Transit \cup {m}
        BY <1>3, <1>4, <1>7, <2>3, Zenon DEF Transit
  <2>5. \A k \in Range(inbound) \cup Range(processed) \cup Ahead \cup Behind : k < m
    <3>1. m \in Unsubmitted
          BY <1>2, Zenon DEF Unsubmitted
    <3> QED
          BY <3>1, TransitOrder, Zenon DEF Before
  <2>6. \A k \in Transit : k < m
        BY <1>7, <2>5, Zenon DEF Transit
  <2>7. \A i \in 1 .. Len(processed) : processed[i] < m
    <3>1. Range(processed) = {processed[i] : i \in 1 .. Len(processed)}
          BY <2>1, RangeEquality, Zenon
    <3> QED
          BY <2>5, <3>1, Zenon
  <2>8. (~(Reads /\ Writes))' = ~(Reads /\ Writes)
        BY <1>3, <1>4, Zenon
  <2>9. Chan!Send(m)
        BY <1>3, <1>7, <2>4, <2>6, <2>7, <2>8, Zenon DEF Chan!Send
  <2> QED
        BY <2>9, Zenon DEF Chan!ChanNext
<1> QED
      BY <1>5, <1>6, <1>7, Zenon

\* The writer takes a batch, encodes it, writes it out and accounts for it: nothing
\* leaves the channel.
LEMMA MapWriter ==
    ASSUME IInv, WayInv, BatchDone, WriterStep
    PROVE  Chan!ChanNext \/ UNCHANGED Chan!chanVars
<1>0. SenderTypeOK /\ WayTypeOK /\ FedOfBatch
      BY Zenon DEF IInv, WayInv
<1>1. SenderStep
      BY Zenon DEF SenderStep
<1>2. /\ UNCHANGED <<backpressure, processed, src>> /\ Reads' = Reads /\ Held' = Held /\ reader' = reader
      /\ Range(inbound)' = Range(inbound) /\ (wire' = wire => Ahead' = Ahead)
      BY <1>0, <1>1, SenderLeaves, Zenon
<1>3. /\ batch \in Seq(Msg) /\ fed \in 0 .. Len(batch) /\ Len(batch) \in Nat
      /\ wire \in Seq(Byte) /\ buffer \in Seq(Byte)
      BY <1>0, StreamTypes, LenProperties, Zenon DEF SenderTypeOK
<1>4. ASSUME Writes, Writes', Ahead' \cup Behind' = Ahead \cup Behind
      PROVE  UNCHANGED Chan!chanVars
  <2>1. Transit' = Transit
        BY <1>2, <1>4, Zenon DEF Transit
  <2> QED
        BY <1>2, <1>4, <2>1, MapStutter, Zenon
<1>5. CASE RecvMany
  <2>1. writer = "recv" /\ wire' = wire /\ buffer' = buffer /\ fed' = fed
        BY <1>5, Zenon DEF RecvMany
  <2>2. fed = 0 /\ batch = <<>>
        BY <1>0, <2>1, Zenon DEF FedOfBatch, BatchDone
  <2>3. CASE queue # <<>> /\ writer' = "feeding" /\ batch' = queue /\ queue' = <<>>
    <3>1. Unfed = {}
      <4>1. Len(batch) = 0 /\ 0 + 1 .. 0 = {}
            BY <2>2, EmptyOrder
      <4> QED
            BY <2>2, <4>1, Zenon DEF Unfed
    <3>2. Unfed' = Range(queue)
      <4>1. queue \in Seq(Msg)
            BY <1>0, Zenon DEF SenderTypeOK
      <4>2. Range(queue) = {queue[i] : i \in 1 .. Len(queue)}
            BY <4>1, RangeEquality, Zenon
      <4>3. fed' + 1 = 1
            BY <2>1, <2>2
      <4> QED
            BY <2>3, <4>2, <4>3, Zenon DEF Unfed
    <3>3. Range(queue)' = {} /\ Whole(buffer)' = Whole(buffer)
          BY <2>1, <2>3, EmptyOrder, Zenon DEF Whole
    <3>4. Behind' = Behind
          BY <3>1, <3>2, <3>3, Zenon DEF Behind
    <3>5. Writes /\ Writes'
          BY <2>1, <2>3, Zenon DEF Writes
    <3> QED
          BY <1>2, <1>4, <2>1, <3>4, <3>5, Zenon
  <2>4. CASE writer' = "ending"
    <3>1. ~Writes'
          BY <2>4, Zenon DEF Writes
    <3>2. Transit' = Range(inbound) \/ (Reads /\ Transit' = Range(inbound) \cup Ahead)
          BY <1>2, <2>1, <3>1, Zenon DEF Transit
    <3> QED
          BY <1>2, <3>1, <3>2, MapBreak, Zenon
  <2> QED
        BY <1>5, <2>3, <2>4, Zenon DEF RecvMany
<1>6. CASE Feed
  <2> DEFINE m == batch[fed + 1]
  <2>1. /\ writer = "feeding" /\ writer' = writer /\ wire' = wire /\ batch' = batch /\ queue' = queue
        /\ fed < Len(batch) /\ fed' = fed + 1 /\ buffer' = buffer \o Bytes(m)
        BY <1>6, Zenon DEF Feed, queueVars
  <2>2. m \in Msg
    <3>1. fed + 1 \in 1 .. Len(batch)
          BY <1>3, <2>1
    <3> QED
          BY <1>3, <3>1, ElementOfSeq, Zenon
  <2>3. Whole(buffer)' = Whole(buffer) \cup {m}
    <3>1. Bytes(m) \in Seq(Byte)
          BY <2>2, BytesOfMessage, Zenon DEF Byte
    <3>2. Whole(buffer \o Bytes(m)) = Whole(buffer) \cup Whole(Bytes(m))
          BY <1>3, <3>1, WholeConcat, Zenon
    <3>3. Whole(Bytes(m)) = {m}
          BY <2>2, WholeBytes, Zenon
    <3>4. Whole(buffer)' = Whole(buffer \o Bytes(m))
          BY <2>1, Zenon DEF Whole
    <3> QED
          BY <3>2, <3>3, <3>4, Zenon
  <2>4. Unfed = {m} \cup Unfed'
    <3>1. \A i \in fed + 1 .. Len(batch) : i = fed + 1 \/ i \in (fed + 1) + 1 .. Len(batch)
          BY <1>3
    <3>2. \A i \in (fed + 1) + 1 .. Len(batch) : i \in fed + 1 .. Len(batch)
          BY <1>3
    <3>3. fed + 1 \in fed + 1 .. Len(batch)
          BY <1>3, <2>1
    <3>4. Unfed' = {batch[i] : i \in (fed + 1) + 1 .. Len(batch)}
          BY <2>1, Zenon DEF Unfed
    <3> QED
          BY <3>1, <3>2, <3>3, <3>4, Zenon DEF Unfed
  <2> HIDE DEF m
  <2>5. Behind' = Behind
        BY <2>1, <2>3, <2>4, Zenon DEF Behind
  <2>6. Writes /\ Writes'
        BY <2>1, Zenon DEF Writes
  <2> QED
        BY <1>2, <1>4, <2>1, <2>5, <2>6, Zenon
<1>7. CASE Flush
  <2>1. /\ writer = "feeding" /\ writer' = writer /\ batch' = batch /\ fed' = fed /\ queue' = queue
        /\ buffer # <<>> /\ wire' = Append(wire, Head(buffer)) /\ buffer' = Tail(buffer)
        BY <1>7, Zenon DEF Flush, queueVars
  <2>2. Whole(wire)' = Whole(Append(wire, Head(buffer))) /\ Whole(buffer)' = Whole(Tail(buffer))
        BY <2>1, Zenon DEF Whole
  <2>3. Whole(wire)' \cup Whole(buffer)' = Whole(wire) \cup Whole(buffer)
        BY <1>3, <2>1, <2>2, WholeFlush, Zenon
  <2>4. Whole(src)' = Whole(src) /\ Unfed' = Unfed
        BY <1>2, <2>1, Zenon DEF Whole, Unfed
  <2>5. Ahead' \cup Behind' = Ahead \cup Behind
        BY <1>2, <2>1, <2>3, <2>4, Zenon DEF Ahead, Behind
  <2>6. Writes /\ Writes'
        BY <2>1, Zenon DEF Writes
  <2> QED
        BY <1>4, <2>5, <2>6, Zenon
<1>8. CASE BatchWritten
  <2>1. /\ writer = "feeding" /\ writer' = "register"
        /\ UNCHANGED <<wire, buffer, batch, fed, queue>>
        BY <1>8, Zenon DEF BatchWritten
  <2>2. Behind' = Behind
        BY <2>1, Zenon DEF Behind, Whole, Unfed
  <2>3. Writes /\ Writes'
        BY <2>1, Zenon DEF Writes
  <2> QED
        BY <1>2, <1>4, <2>1, <2>2, <2>3, Zenon
<1>9. CASE RegisterSent
  <2>1. /\ writer = "register" /\ writer' = "recv" /\ batch' = <<>> /\ fed' = 0
        /\ UNCHANGED <<wire, buffer, queue>>
        BY <1>9, Zenon DEF RegisterSent, queueVars
  <2>2. Unfed = {} /\ Unfed' = {}
    <3>1. fed = Len(batch)
          BY <2>1, Zenon DEF BatchDone
    <3>2. fed + 1 .. Len(batch) = {}
          BY <1>3, <3>1
    <3>3. fed' + 1 .. Len(batch') = {}
      <4>1. 0 + 1 .. 0 = {}
            OBVIOUS
      <4> QED
            BY <2>1, <4>1, EmptyOrder, Zenon
    <3> QED
          BY <3>2, <3>3, Zenon DEF Unfed
  <2>3. Behind' = Behind
        BY <2>1, <2>2, Zenon DEF Behind, Whole
  <2>4. Writes /\ Writes'
        BY <2>1, Zenon DEF Writes
  <2> QED
        BY <1>2, <1>4, <2>1, <2>3, <2>4, Zenon
<1> QED
      BY <1>5, <1>6, <1>7, <1>8, <1>9, Zenon DEF WriterStep

\* The end of the writer breaks the channel behind what it has written out.
LEMMA MapSender ==
    ASSUME IInv, WayInv, BatchDone, SenderStep
    PROVE  Chan!ChanNext \/ UNCHANGED Chan!chanVars
<1>0. SenderTypeOK /\ WayTypeOK
      BY Zenon DEF IInv, WayInv
<1>2. /\ UNCHANGED <<backpressure, processed>> /\ Reads' = Reads
      /\ Range(inbound)' = Range(inbound) /\ (wire' = wire => Ahead' = Ahead)
      BY <1>0, SenderLeaves, Zenon
<1>3. ASSUME ~Writes', wire' = wire PROVE Chan!ChanNext
  <2>1. Transit' = Range(inbound) \/ (Reads /\ Transit' = Range(inbound) \cup Ahead)
        BY <1>2, <1>3, Zenon DEF Transit
  <2> QED
        BY <1>2, <1>3, <2>1, MapBreak, Zenon
<1>4. ASSUME NEW r, WriteFails(r) PROVE Chan!ChanNext
  <2>1. writer' = "ending" /\ wire' = wire
        BY <1>4, Zenon DEF WriteFails
  <2> QED
        BY <1>3, <2>1, Zenon DEF Writes
<1>5. CASE AbortWriter
  <2>1. (\E r : WriteFails(r)) \/ (writer' = "ending" /\ wire' = wire)
        BY <1>5, Zenon DEF AbortWriter
  <2> QED
        BY <1>3, <1>4, <2>1, Zenon DEF Writes
<1>6. CASE WriterEnd
  <2>1. writer' \in {"unlisted", "ended"} /\ wire' = wire
        BY <1>6, Zenon DEF WriterEnd, SenderCleanup, DropReceiver
  <2> QED
        BY <1>3, <2>1, Zenon DEF Writes
<1>7. CASE Disconnect
  <2>1. UNCHANGED <<wire, writer, batch, fed, buffer, queue>>
        BY <1>7, Zenon DEF Disconnect, writerVars
  <2>2. Behind' = Behind /\ Writes' = Writes
        BY <2>1, Zenon DEF Behind, Whole, Unfed, Writes
  <2>3. Transit' = Transit
        BY <1>2, <2>1, <2>2, Zenon DEF Transit
  <2> QED
        BY <1>2, <2>2, <2>3, MapStutter, Zenon
<1> QED
      BY <1>4, <1>5, <1>6, <1>7, MapQueue, MapWriter, Zenon
      DEF SenderStep, WriteError, WriteTimeout, EncoderPanics

\* A step of the receiver leaves the sender alone.
LEMMA ReceiverLeaves ==
    ASSUME ReceiverStep
    PROVE  backpressure' = backpressure /\ Writes' = Writes /\ Behind' = Behind
<1>1. UNCHANGED <<backpressure, senderVars>>
  <2>1. ASSUME NEW n, DecodePartial(n) \/ Read(n) PROVE UNCHANGED <<backpressure, senderVars>>
        BY <2>1, Zenon DEF DecodePartial, Read
  <2> QED
        BY <2>1, Zenon DEF ReceiverStep, ReaderStep, ProcessingStep, ConnReady, Decode,
            EndOfStream, Enqueue, DropFull, InboundClosed, ReadFails, IdleTimeout, Process,
            ProcessReturns, ProcessPanics, AbortTasks
<1>2. UNCHANGED <<writer, buffer, batch, fed, queue>>
      BY <1>1, Zenon DEF senderVars, queueVars, writerVars
<1> QED
      BY <1>1, <1>2, Zenon DEF Writes, Behind, Whole, Unfed

\* The reader takes bytes from the socket, and messages from the bytes: they stay ahead.
LEMMA MapDecoder ==
    ASSUME IInv, WayInv, Decode \/ \E n \in 0 .. SocketBuffer : Read(n) \/ DecodePartial(n)
    PROVE  UNCHANGED Chan!chanVars
<1>0. SenderTypeOK /\ WayTypeOK /\ Framed(Stream) /\ decoded \in Seq(Msg)
      BY Zenon DEF IInv, WayInv, WayTypeOK
<1>1. ReceiverStep
      BY Zenon DEF ReceiverStep, ReaderStep
<1>2. backpressure' = backpressure /\ Writes' = Writes /\ Behind' = Behind
      BY <1>1, ReceiverLeaves, Zenon
<1>3. /\ UNCHANGED <<inbound, processed, processing>>
      /\ reader \in {"read", "decode"} /\ reader' \in {"read", "decode", "holding"}
      BY Zenon DEF Decode, Read, DecodePartial, inboundVars
<1>4. Reads' = Reads /\ Range(inbound)' = Range(inbound)
      BY <1>3, Zenon DEF Reads
<1>5. src \in Seq(Byte) /\ wire \in Seq(Byte) /\ Len(src) \in Nat /\ Len(wire) \in Nat
      BY <1>0, StreamTypes, Zenon
<1>6. Ahead = Whole(src) \cup Whole(wire)
      BY <1>3, Zenon DEF Ahead
<1>7. CASE Decode
  <2> DEFINE m == src[1][1]
             x == src[1][2]
             n == FrameRest
             f == SubSeq(src, 1, n)
             r == SubSeq(src, n + 1, Len(src))
  <2>1. /\ src # <<>> /\ Len(src) >= n /\ src' = r /\ reader' = "holding"
        /\ decoded' = Append(decoded, m) /\ wire' = wire
        BY <1>7, Zenon DEF Decode, FrameComplete
  <2>2. /\ Stream[1] = src[1] /\ m \in Msg /\ x \in Nat /\ Size[m] \in Nat /\ x >= 1 /\ x <= Size[m]
        /\ n = Size[m] - x + 1 /\ n \in Nat \ {0}
        /\ \A k \in 2 .. Len(Stream) : IF k - 1 < n THEN Stream[k] = <<m, x + (k - 1)>>
                                                    ELSE Stream[k][1] > m
        BY <1>0, <2>1, FirstByte, Zenon
  <2>3. n \in 0 .. Len(src)
        BY <1>5, <2>1, <2>2
  <2>4. /\ Len(f) = n /\ \A i \in 1 .. n : f[i] = src[i]
        /\ Whole(src) = Whole(f) \cup Whole(r)
        BY <1>5, <2>3, WholeCut, Zenon
  <2>5. Held' = m
    <3>1. /\ Len(Append(decoded, m)) = Len(decoded) + 1
          /\ Append(decoded, m)[Len(decoded) + 1] = m
          BY <1>0, <2>2, AppendProperties
    <3> QED
          BY <2>1, <3>1, Zenon DEF Held
  <2>6. \A i \in 1 .. n : src[i] = <<m, x + (i - 1)>>
    <3>1. ASSUME NEW i \in 1 .. n PROVE src[i] = <<m, x + (i - 1)>>
      <4>1. i \in 1 .. Len(src)
            BY <2>3, <1>5
      <4>2. i \in 1 .. Len(Stream) /\ Stream[i] = src[i]
            BY <1>0, <4>1, FrontOfStream, Zenon
      <4>3. CASE i = 1
        <5>1. src[1] \in Byte
              BY <1>5, <4>1, <4>3, ElementOfSeq, Zenon
        <5>2. src[1] = <<m, x>> /\ x + (1 - 1) = x
              BY <2>2, <5>1 DEF Byte
        <5> QED
              BY <4>3, <5>2, Zenon
      <4>4. CASE i # 1
        <5>1. i \in 2 .. Len(Stream) /\ i - 1 < n
              BY <2>2, <4>2, <4>4
        <5> QED
              BY <2>2, <4>2, <5>1, Zenon
      <4> QED
            BY <4>3, <4>4, Zenon
    <3> QED
          BY <3>1, Zenon
  <2> HIDE DEF f, r
  <2>7. Whole(f) = {m}
    <3>1. ASSUME NEW k \in Whole(f) PROVE k = m
      <4>1. PICK i \in 1 .. Len(f) : f[i] = <<k, Size[k]>>
            BY Zenon DEF Whole
      <4>2. <<k, Size[k]>> = <<m, x + (i - 1)>>
            BY <2>4, <2>6, <4>1, Zenon
      <4> QED
            BY <4>2, Zenon
    <3>2. m \in Whole(f)
      <4>1. n \in 1 .. n /\ x + (n - 1) = Size[m]
            BY <2>2
      <4>2. f[n] = <<m, Size[m]>>
            BY <2>4, <2>6, <4>1, Zenon
      <4> QED
            BY <2>2, <2>4, <4>1, <4>2, ZenonT(30) DEF Whole
    <3> QED
          BY <3>1, <3>2, Zenon
  <2>8. Whole(src)' = Whole(r) /\ Whole(wire)' = Whole(wire)
        BY <2>1, Zenon DEF Whole
  <2> HIDE DEF m, n
  <2>9. Ahead' = {m} \cup Whole(r) \cup Whole(wire)
        BY <2>1, <2>5, <2>8, Zenon DEF Ahead
  <2>10. Ahead' = Ahead
        BY <1>6, <2>4, <2>7, <2>9, Zenon
  <2>11. Transit' = Transit
        BY <1>2, <1>4, <2>10, Zenon DEF Transit
  <2> QED
        BY <1>2, <1>3, <1>4, <2>11, MapStutter, Zenon
<1>8. ASSUME NEW n \in 0 .. SocketBuffer, Read(n) PROVE UNCHANGED Chan!chanVars
  <2> DEFINE f == SubSeq(wire, 1, n)
             r == SubSeq(wire, n + 1, Len(wire))
  <2>1. n \in 1 .. Len(wire) /\ src' = src \o f /\ wire' = r /\ reader' = "decode"
        BY <1>8, Zenon DEF Read
  <2>2. n \in 0 .. Len(wire)
        BY <1>5, <2>1
  <2>3. f \in Seq(Byte) /\ Whole(wire) = Whole(f) \cup Whole(r)
        BY <1>5, <2>2, WholeCut, Zenon
  <2> HIDE DEF f, r
  <2>4. Whole(src \o f) = Whole(src) \cup Whole(f)
        BY <1>5, <2>3, WholeConcat, Zenon
  <2>5. Whole(src)' = Whole(src \o f) /\ Whole(wire)' = Whole(r)
        BY <2>1, Zenon DEF Whole
  <2>6. Ahead' = Whole(src)' \cup Whole(wire)'
        BY <2>1, Zenon DEF Ahead
  <2>7. Ahead' = Ahead
        BY <1>6, <2>3, <2>4, <2>5, <2>6, Zenon
  <2>8. Transit' = Transit
        BY <1>2, <1>4, <2>7, Zenon DEF Transit
  <2> QED
        BY <1>2, <1>3, <1>4, <2>8, MapStutter, Zenon
<1>9. ASSUME NEW n \in 0 .. SocketBuffer, DecodePartial(n) PROVE UNCHANGED Chan!chanVars
  <2> DEFINE r == SubSeq(src, n + 1, Len(src))
  <2>1. ~FrameComplete /\ n \in 0 .. Len(src) /\ src' = r /\ wire' = wire /\ reader' = "read"
        BY <1>9, Zenon DEF DecodePartial
  <2>2. \E s : Whole(src) = Whole(s) \cup Whole(r)
        BY <1>5, <2>1, WholeCut, Zenon
  <2> HIDE DEF r
  <2>3. Whole(src) = {}
    <3> SUFFICES ASSUME NEW k \in Whole(src) PROVE FALSE
          BY Zenon
    <3>1. PICK i \in 1 .. Len(src) : src[i] = <<k, Size[k]>>
          BY Zenon DEF Whole
    <3>2. src # <<>> /\ ~(Len(src) >= FrameRest)
          BY <1>5, <2>1, <3>1, EmptySeq DEF FrameComplete
    <3> DEFINE m == src[1][1]
               x == src[1][2]
    <3>3. /\ m \in Msg /\ x \in Nat /\ Size[m] \in Nat /\ x >= 1 /\ x <= Size[m]
          /\ FrameRest = Size[m] - x + 1 /\ FrameRest \in Nat \ {0}
          /\ \A j \in 2 .. Len(Stream) :
                IF j - 1 < FrameRest THEN Stream[j] = <<m, x + (j - 1)>> ELSE Stream[j][1] > m
          BY <1>0, <3>2, FirstByte, Zenon
    <3>4. i \in 1 .. Len(Stream) /\ Stream[i] = src[i]
          BY <1>0, FrontOfStream, Zenon
    <3> HIDE DEF m, x
    <3>5. i <= Len(src) /\ Len(src) < FrameRest /\ i < FrameRest
          BY <1>5, <3>2, <3>3
    <3>6. CASE i = 1
      <4>1. m = k /\ x = Size[k]
            BY <3>1, <3>6 DEF m, x
      <4>2. FrameRest = 1
            BY <3>3, <4>1
      <4> QED
            BY <3>5, <3>6, <4>2
    <3>7. CASE i # 1
      <4>1. i \in 2 .. Len(Stream) /\ i - 1 < FrameRest
            BY <3>4, <3>5, <3>7, <3>3
      <4>2. <<k, Size[k]>> = <<m, x + (i - 1)>>
            BY <3>1, <3>3, <3>4, <4>1, Zenon
      <4>3. k = m /\ Size[m] = x + (i - 1)
            BY <4>2, Zenon
      <4>4. FrameRest = i
            BY <3>3, <4>3
      <4> QED
            BY <3>5, <4>4
    <3> QED
          BY <3>6, <3>7, Zenon
  <2>4. Whole(r) = {}
        BY <2>2, <2>3, Zenon
  <2>5. Whole(src)' = Whole(r) /\ Whole(wire)' = Whole(wire)
        BY <2>1, Zenon DEF Whole
  <2>6. Ahead' = Whole(src)' \cup Whole(wire)'
        BY <2>1, Zenon DEF Ahead
  <2>7. Ahead' = Ahead
        BY <1>6, <2>3, <2>4, <2>5, <2>6, Zenon
  <2>8. Transit' = Transit
        BY <1>2, <1>4, <2>7, Zenon DEF Transit
  <2> QED
        BY <1>2, <1>3, <1>4, <2>8, MapStutter, Zenon
<1> QED
      BY <1>7, <1>8, <1>9, Zenon

\* The reader passes a message on or drops it, the processing task takes it, and the end of
\* either breaks the channel in front of what is ahead of the reader.
LEMMA MapReceiver ==
    ASSUME IInv, WayInv, ReceiverStep
    PROVE  Chan!ChanNext \/ UNCHANGED Chan!chanVars
<1>0. SenderTypeOK /\ WayTypeOK /\ InOrder /\ PassedOn
      BY Zenon DEF IInv, WayInv
<1>1. backpressure' = backpressure /\ Writes' = Writes /\ Behind' = Behind
      BY ReceiverLeaves, Zenon
<1>2. inbound \in Seq(Msg) /\ decoded \in Seq(Msg) /\ Increasing(inbound)
      BY <1>0, Zenon DEF WayTypeOK, PassedOn
<1>3. ASSUME reader' = "ended", UNCHANGED <<inbound, processed>>
      PROVE  Chan!ChanNext
  <2>1. ~Reads' /\ Transit' = Range(inbound)
        BY <1>3, Zenon DEF Reads, Transit
  <2> QED
        BY <1>1, <1>3, <2>1, MapBreak, Zenon
<1>4. ASSUME processing' = "ended", processed' = processed, inbound' = <<>>
      PROVE  Chan!ChanNext
  <2>1. ~Reads'
        BY <1>4, Zenon DEF Reads
  <2>2. Range(inbound)' = {}
        BY <1>4, EmptyOrder, Zenon
  <2>3. Transit' = {}
        BY <2>1, <2>2, Zenon DEF Transit
  <2> QED
        BY <1>1, <1>4, <2>1, <2>3, MapBreak, Zenon
<1>5. ASSUME ConnReady \/ EndOfStream \/ InboundClosed \/ ReadFails \/ IdleTimeout,
             ~(ConnReady /\ reader' = "read")
      PROVE  Chan!ChanNext
  <2>1. reader' = "ended" /\ UNCHANGED <<inbound, processed>>
        BY <1>5, Zenon DEF ConnReady, EndOfStream, InboundClosed, ReadFails, IdleTimeout, ReaderGone,
            inboundVars
  <2> QED
        BY <1>3, <2>1, Zenon
<1>6. ASSUME ProcessPanics \/ AbortTasks PROVE Chan!ChanNext
  <2>1. processing' = "ended" /\ processed' = processed /\ inbound' = <<>>
        BY <1>6, Zenon DEF ProcessPanics, AbortTasks
  <2> QED
        BY <1>4, <2>1, Zenon
<1>7. CASE ConnReady /\ reader' = "read"
  <2>1. reader = "waiting" /\ UNCHANGED <<src, wire, inbound, processing, processed>>
        BY <1>7, Zenon DEF ConnReady, inboundVars, ReaderGone
  <2>2. Ahead' = Ahead /\ Reads' = Reads
        BY <1>7, <2>1, Zenon DEF Ahead, Whole, Reads
  <2>3. Transit' = Transit
        BY <1>1, <2>1, <2>2, Zenon DEF Transit
  <2> QED
        BY <1>1, <2>1, <2>2, <2>3, MapStutter, Zenon
<1>8. CASE Enqueue
  <2>1. /\ reader = "holding" /\ processing # "ended" /\ reader' = "decode"
        /\ inbound' = Append(inbound, Held)
        /\ UNCHANGED <<src, wire, processing, processed, decoded>>
        BY <1>8, Zenon DEF Enqueue
  <2>2. Held \in Msg /\ \A k \in Range(inbound) : k < Held
    <3>1. /\ decoded # <<>> /\ Held \notin Range(inbound) /\ Range(inbound) \subseteq Range(decoded)
          /\ Increasing(decoded)
          BY <1>0, <2>1, Zenon DEF PassedOn, InOrder
    <3> QED
          BY <1>2, <3>1, HeldIsLast, Zenon
  <2>3. Range(inbound)' = Range(inbound) \cup {Held}
        BY <1>2, <2>1, <2>2, IncreasingMore, Zenon
  <2>4. Reads /\ Reads' /\ Ahead = {Held} \cup Ahead'
        BY <2>1, Zenon DEF Reads, Ahead, Whole
  <2>5. Transit' = Transit
        BY <1>1, <2>3, <2>4, Zenon DEF Transit
  <2> QED
        BY <1>1, <2>1, <2>4, <2>5, MapStutter, Zenon
<1>9. CASE DropFull
  <2>1. /\ reader = "holding" /\ processing # "ended" /\ reader' = "decode" /\ ~backpressure
        /\ UNCHANGED <<src, wire, inbound, processing, processed>>
        BY <1>9, Zenon DEF DropFull, inboundVars
  <2>2. /\ Before(Range(inbound), Ahead \cup Behind)
        /\ Before({Held}, Whole(src) \cup Whole(wire) \cup Behind)
        BY <2>1, TransitOrder, Zenon
  <2>3. Held \in Msg /\ Held \notin Range(inbound)
    <3>1. decoded # <<>> /\ Held \notin Range(inbound) /\ Increasing(decoded)
          BY <1>0, <2>1, Zenon DEF PassedOn, InOrder
    <3> QED
          BY <1>2, <3>1, HeldIsLast, Zenon
  <2>4. ~(Held < Held)
        BY <2>3 DEF Msg
  <2>5. Held \notin Whole(src) \cup Whole(wire) \cup Behind
        BY <2>2, <2>4, Zenon DEF Before
  <2>6. /\ Reads /\ Reads' /\ Ahead = {Held} \cup Whole(src) \cup Whole(wire)
        /\ Ahead' = Whole(src) \cup Whole(wire) /\ Range(inbound)' = Range(inbound)
        BY <2>1, Zenon DEF Reads, Ahead, Whole
  <2>7. Transit' = Transit \ {Held}
        BY <1>1, <2>3, <2>5, <2>6, Zenon DEF Transit
  <2>8. (~(Reads /\ Writes))' = ~(Reads /\ Writes)
        BY <1>1, <2>6, Zenon
  <2>9. Chan!Skip(Held)
        BY <1>1, <2>1, <2>7, <2>8, Zenon DEF Chan!Skip
  <2> QED
        BY <2>3, <2>9, Zenon DEF Chan!ChanNext
<1>10. CASE Process /\ inbound # <<>>
  <2> DEFINE h == Head(inbound)
  <2>1. /\ processing = "recv" /\ processing' = "processing" /\ processed' = Append(processed, h)
        /\ inbound' = Tail(inbound) /\ UNCHANGED <<src, wire, reader, decoded>>
        BY <1>10, Zenon DEF Process, readerVars
  <2>2. /\ h \in Msg /\ Range(inbound) = Range(Tail(inbound)) \cup {h}
        /\ \A k \in Range(Tail(inbound)) : h < k
        BY <1>2, <1>10, IncreasingTail, Zenon
  <2>3. Before(Range(inbound), Ahead \cup Behind)
        BY TransitOrder, Zenon
  <2>4. Reads' = Reads /\ Ahead' = Ahead /\ Range(inbound)' = Range(Tail(inbound))
        BY <2>1, Zenon DEF Reads, Ahead, Whole, Held
  <2> HIDE DEF h
  <2>5. ~(h < h) /\ h <= h
        BY <2>2 DEF Msg
  <2>6. h \notin Ahead \cup Behind /\ h \notin Range(Tail(inbound))
        BY <2>2, <2>3, <2>5, Zenon DEF Before
  <2>7. Transit' = Transit \ {h} /\ h \in Transit
        BY <1>1, <2>2, <2>4, <2>6, Zenon DEF Transit
  <2>8. \A k \in Transit : h <= k
    <3>1. Transit \subseteq Range(inbound) \cup Ahead \cup Behind
          BY Zenon DEF Transit
    <3>2. \A k \in Transit : k = h \/ h < k
          BY <2>2, <2>3, <3>1, Zenon DEF Before
    <3>3. Transit \subseteq Msg
          BY <3>1, TransitOrder, Zenon
    <3>4. \A a, b \in Msg : a < b => a <= b
          BY DEF Msg
    <3> QED
          BY <2>2, <2>5, <3>2, <3>3, <3>4, Zenon
  <2>9. (~(Reads /\ Writes))' = ~(Reads /\ Writes)
        BY <1>1, <2>4, Zenon
  <2>10. Chan!Receive(h)
        BY <1>1, <2>1, <2>7, <2>8, <2>9, Zenon DEF Chan!Receive
  <2> QED
        BY <2>2, <2>10, Zenon DEF Chan!ChanNext
<1>11. CASE (Process /\ inbound = <<>>) \/ ProcessReturns
  <2>1. /\ UNCHANGED <<src, wire, reader, decoded, inbound, processed>>
        /\ \/ reader = "ended"
           \/ processing # "ended" /\ processing' # "ended"
        BY <1>11, Zenon DEF Process, ProcessReturns, readerVars
  <2>2. Reads' = Reads /\ Ahead' = Ahead /\ Range(inbound)' = Range(inbound)
        BY <2>1, Zenon DEF Reads, Ahead, Whole, Held
  <2>3. Transit' = Transit
        BY <1>1, <2>2, Zenon DEF Transit
  <2> QED
        BY <1>1, <2>1, <2>2, <2>3, MapStutter, Zenon
<1> QED
      BY <1>5, <1>6, <1>7, <1>8, <1>9, <1>10, <1>11, MapDecoder, Zenon
      DEF ReceiverStep, ReaderStep, ProcessingStep

\* The two protocols implement the channel: whatever the sizes, depths and boundaries, the
\* reads and the decoder's calls, and whichever end goes down when, messages are processed
\* in the order they were accepted, and lost only behind the place where the connection
\* broke, or by a full inbound queue without BACKPRESSURE.
THEOREM DeliveryImplements == Spec => ImplementsChannel
<1>1. Init => Chan!ChanInit
  <2> SUFFICES ASSUME Init PROVE Chan!ChanInit
        BY Zenon
  <2>1. /\ queue = <<>> /\ batch = <<>> /\ buffer = <<>> /\ wire = <<>> /\ src = <<>>
        /\ inbound = <<>> /\ fed = 0 /\ reader = "waiting" /\ writer = "recv"
        /\ processing = "recv" /\ processed = <<>> /\ backpressure \in BOOLEAN
        BY Zenon DEF Init
  <2>2. Range(<<>>) = {} /\ Len(<<>>) = 0 /\ 1 .. 0 = {} /\ 0 + 1 .. 0 = {}
        BY EmptyOrder
  <2>3. Whole(<<>>) = {}
        BY <2>2, Zenon DEF Whole
  <2>4. Unfed = {}
        BY <2>1, <2>2, Zenon DEF Unfed
  <2>5. Transit = {}
        BY <2>1, <2>2, <2>3, <2>4, Zenon DEF Transit, Ahead, Behind
  <2>6. ~(Reads /\ Writes) = FALSE
        BY <2>1, Zenon DEF Reads, Writes
  <2> QED
        BY <2>1, <2>5, <2>6, Zenon DEF Chan!ChanInit
<1>2. IInv /\ WayInv /\ BatchDone /\ [Next]_vars => [Chan!ChanNext]_Chan!chanVars
  <2> SUFFICES ASSUME IInv, WayInv, BatchDone, [Next]_vars
               PROVE  Chan!ChanNext \/ UNCHANGED Chan!chanVars
        BY Zenon
  <2>1. CASE UNCHANGED vars
    <3>1. /\ UNCHANGED <<backpressure, wire, writer, batch, fed, buffer, queue>>
          /\ UNCHANGED <<reader, src, decoded, inbound, processing, processed>>
          BY <2>1, Zenon DEF vars, senderVars, queueVars, writerVars, receiverVars, readerVars, inboundVars
    <3>2. Transit' = Transit /\ Reads' = Reads /\ Writes' = Writes
          BY <3>1 DEF Transit, Ahead, Behind, Whole, Unfed, Held, Reads, Writes
    <3> QED
          BY <3>1, <3>2, MapStutter, Zenon
  <2> QED
        BY <2>1, BothSides, MapSender, MapReceiver, Zenon
<1>3. Spec => []BatchDone
      BY NextBatch, WayInvariance, PTL DEF Spec
<1> QED
      BY <1>1, <1>2, <1>3, WayInvariance, PTL DEF Spec, ImplementsChannel, Chan!ChanSpec

=============================================================================
