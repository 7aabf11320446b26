------------------------------ MODULE Delivery -------------------------------
(***************************************************************************)
(* The two ends of module Messages implement the channel of module         *)
(* Channel.                                                                *)
(***************************************************************************)
EXTENDS Messages

\* The tasks at either end are still in their loops.
Writes == writer \in {"recv", "feeding", "register"}
Reads == reader # "ended" /\ processing # "ended"

\* The messages whose last byte is among the bytes s.
Whole(s) == {m \in Msg : \E k \in 1 .. Len(s) : s[k] = <<m, Size[m]>>}

\* The messages accepted and not processed: as long as there is a reader, the one in its
\* hands and those whose last byte is still ahead of it, and, as long as there is a writer,
\* those it has not written out or not encoded.
Ahead == (IF reader = "holding" THEN {Held} ELSE {}) \cup Whole(src) \cup Whole(wire)
Behind == Whole(buffer) \cup Unfed \cup Range(queue)

Transit ==
    Range(inbound) \cup (IF Reads THEN Ahead ELSE {}) \cup (IF Reads /\ Writes THEN Behind ELSE {})

Chan == INSTANCE Channel WITH
    reliable <- backpressure, transit <- Transit, received <- processed,
    cut <- ~(Reads /\ Writes)

\* The two protocols implement the channel of module Channel: messages are processed in
\* the order they were accepted, and lost only behind the place where the connection
\* broke, or by a full inbound queue without BACKPRESSURE.
ImplementsChannel == Chan!ChanSpec

\* The writer has encoded all of a batch it accounts for, and has none between two.
BatchDone ==
    /\ writer = "register" => fed = Len(batch)
    /\ writer \notin {"feeding", "register"} => batch = <<>>

=============================================================================
