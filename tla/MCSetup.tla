------------------------------- MODULE MCSetup -------------------------------
(* A small instance of Setup: a handshake and one protocol that needs the      *)
(* stream, one setup, and programs that shut down once or twice.               *)
EXTENDS Setup

MCPipeline == <<"Handshake", "Reading">>

MCPrograms ==
    {[tasks |-> {"Listener"}, calls |-> 2],
     [tasks |-> {"Listener", "Reading"}, calls |-> 1],
     [tasks |-> {"Reading"}, calls |-> 2],
     [tasks |-> {"Handshake", "Reading"}, calls |-> 1]}

=============================================================================
