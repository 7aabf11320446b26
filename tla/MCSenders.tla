------------------------------ MODULE MCSenders ------------------------------
(* Small instances of Senders: connections that use one address in turn.      *)
EXTENDS Senders

MCAddrOf == [c \in Conn |-> "a"]

=============================================================================
