------------------------------- MODULE Channel -------------------------------
(***************************************************************************)
(* What Writing on one node and Reading on its peer promise together, for  *)
(* the messages of one connection: they are processed in the order they    *)
(* were accepted, none twice, and none is skipped while the connection     *)
(* lasts unless the receiver runs without BACKPRESSURE.  When the          *)
(* connection breaks, what is lost is the end of what was in transit.      *)
(* Messages are numbered in the order they are submitted.  Module Messages *)
(* is shown to implement this specification.                               *)
(***************************************************************************)
EXTENDS Naturals, Sequences

CONSTANT Msg

VARIABLES
    reliable,    \* the receiver's Reading::BACKPRESSURE; never changes
    transit,     \* accepted and not yet processed
    received,    \* handed to process_message, in order
    cut          \* something accepted was lost with the connection

chanVars == <<reliable, transit, received, cut>>

ChanInit ==
    /\ reliable \in BOOLEAN
    /\ transit = {}
    /\ received = <<>>
    /\ cut = FALSE

\* A message is accepted; once something was lost, nothing accepted later arrives.
Send(m) ==
    /\ ~cut
    /\ \A k \in transit : k < m
    /\ \A i \in 1 .. Len(received) : received[i] < m
    /\ transit' = transit \cup {m}
    /\ UNCHANGED <<reliable, received, cut>>

\* The first of the messages in transit is processed.
Receive(m) ==
    /\ m \in transit
    /\ \A k \in transit : m <= k
    /\ received' = Append(received, m)
    /\ transit' = transit \ {m}
    /\ UNCHANGED <<reliable, cut>>

\* A full inbound queue drops a message.
Skip(m) ==
    /\ ~reliable
    /\ transit' = transit \ {m}
    /\ UNCHANGED <<reliable, received, cut>>

\* The connection breaks somewhere: all that is behind that place is lost.
Break(lost) ==
    /\ \A k \in transit \ lost, m \in lost : k < m
    /\ transit' = transit \ lost
    /\ cut' = TRUE
    /\ UNCHANGED <<reliable, received>>

ChanNext ==
    \/ \E m \in Msg : Send(m) \/ Receive(m) \/ Skip(m)
    \/ \E lost \in SUBSET transit : Break(lost)

ChanSpec == ChanInit /\ [][ChanNext]_chanVars

=============================================================================
