----------------------------- MODULE MCMessages ------------------------------
(* A small instance of Messages: one message spans two reads, the queues and   *)
(* the socket hold less than what is submitted.                                *)
EXTENDS Delivery

MCSize == [m \in Msg |-> IF m = 2 THEN 2 ELSE 1]

=============================================================================
