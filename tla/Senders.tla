------------------------------- MODULE Senders -------------------------------
(***************************************************************************)
(* Who a message sent to an address reaches: the senders map of the        *)
(* Writing protocol, the setup task that publishes a connection's sender,  *)
(* the writer task behind it, and the three owners that take it down again *)
(* (Connection::drop, SenderCleanup, DisconnectFinalizer).                 *)
(*                                                                         *)
(* The map is keyed by address, while setups, writers and cleanups belong  *)
(* to connection instances, several of which may use one address in turn.  *)
(* The reservation of the address is the one of module Connections; what   *)
(* precedes the Writing setup (TCP, Handshake, Reading) is left out.       *)
(*                                                                         *)
(* An operator D_fault, placed before D, is a faulty variant of D: what a  *)
(* plausible mistake in that code would do.  Next does not use it.         *)
(***************************************************************************)
EXTENDS Naturals, FiniteSets

CONSTANTS
    Conn,         \* connection instances; one is its Connection::id
    Addr,
    AddrOf,       \* the address of each instance
    NoConn        \* no entry under an address

ASSUME SendersAssumption ==
    /\ AddrOf \in [Conn -> Addr]
    /\ NoConn \notin Conn

VARIABLES
    stage,       \* the instance, as connect_inner / adapt_stream see it
    dropped,     \* instances whose connect future was dropped mid-setup
    setup,       \* its Writing setup task (handle_new_connection)
    writer,      \* its writer task
    aborted,     \* writers whose JoinHandle was aborted
    queued,      \* writers that were sent a message
    senders,     \* WritingHandler::senders: the instance whose sender is there
    active,      \* Connections::active
    claimed,     \* instances whose disconnecting flag is set
    finalizer,   \* the DisconnectFinalizer of an instance
    recovering,  \* spawned disconnects of DisconnectOnDrop
    shutdown     \* ShutdownState::flag

vars == <<stage, dropped, setup, writer, aborted, queued, senders, active, claimed,
          finalizer, recovering, shutdown>>

setupVars == <<stage, dropped, setup>>
writerVars == <<writer, aborted, queued>>
closeVars == <<claimed, finalizer, recovering>>

Stage == {"idle", "setup", "cancelled", "returned", "active", "gone"}
SetupStage == {"none", "queued", "awaiting", "adopted", "done"}
WriterStage == {"none", "spawned", "running", "ending", "cleanup", "ended"}

To(f, c, s) == [f EXCEPT ![c] = s]

\* The address is reserved or registered.
Occupied(a) ==
    \/ active[a] # NoConn
    \/ \E d \in Conn : AddrOf[d] = a /\ stage[d] \in {"setup", "returned"}

\* The outbound channel of an instance is open while its sender is somewhere: in the
\* setup task that created it, or in the map.
ChannelOpen(c) == setup[c] = "awaiting" \/ senders[AddrOf[c]] = c

\* A Connection that was dropped without aborting its tasks.
DropConnection_detaches(c) ==
    UNCHANGED aborted

\* Connection::drop: the writer is aborted if the connection owns it.
DropConnection(c) ==
    aborted' = IF setup[c] \in {"adopted", "done"} THEN aborted \cup {c} ELSE aborted

-----------------------------------------------------------------------------
(* The setup of Writing for one connection. *)

\* The connection is passed to the Writing handler (enable_protocol!).
Trigger(c) ==
    /\ stage[c] = "idle"
    /\ ~Occupied(AddrOf[c])
    /\ stage' = To(stage, c, "setup")
    /\ setup' = To(setup, c, "queued")
    /\ UNCHANGED <<dropped, writerVars, senders, active, closeVars, shutdown>>

\* handle_new_connection up to its await: it fails on the codec, or on a stream the
\* handshake did not give back, or it spawns the writer.
HandleNewConnection(c) ==
    /\ setup[c] = "queued"
    /\ \/ /\ setup' = To(setup, c, "awaiting")
          /\ writer' = To(writer, c, "spawned")
          /\ UNCHANGED stage
       \/ /\ setup' = To(setup, c, "done")
          /\ stage' = To(stage, c, "gone")
          /\ UNCHANGED writer
    /\ UNCHANGED <<dropped, aborted, queued, senders, active, closeVars, shutdown>>

\* Publishing the sender before the writer is known to run.
AdoptWriter_too_early(c) ==
    /\ setup[c] = "awaiting"
    /\ senders' = [senders EXCEPT ![AddrOf[c]] = c]
    /\ setup' = IF writer[c] = "spawned" THEN setup ELSE To(setup, c, "adopted")
    /\ UNCHANGED <<stage, dropped, writerVars, active, closeVars, shutdown>>

\* The writer reported that it runs: adopt_writer publishes the sender, under whatever
\* entry the address has, and hands the task over to the connection.
AdoptWriter(c) ==
    /\ setup[c] = "awaiting"
    /\ writer[c] # "spawned"
    /\ senders' = [senders EXCEPT ![AddrOf[c]] = c]
    /\ setup' = To(setup, c, "adopted")
    /\ UNCHANGED <<stage, dropped, writerVars, active, closeVars, shutdown>>

\* conn_returner.send, in the same poll: a connect that is no longer waiting for the
\* connection makes it drop.
ReturnConn(c) ==
    /\ setup[c] = "adopted"
    /\ setup' = To(setup, c, "done")
    /\ \/ stage[c] = "setup" /\ stage' = To(stage, c, "returned") /\ UNCHANGED aborted
       \/ stage[c] = "cancelled" /\ stage' = To(stage, c, "gone") /\ DropConnection(c)
    /\ UNCHANGED <<dropped, writer, queued, senders, active, closeVars, shutdown>>

\* The handler winds down, some time after the shutdown flag was set: queued setups are
\* failed, and those waiting for their writer are aborted at that await.  The sender and
\* the connection go with them.
AbortSetup(c) ==
    /\ shutdown
    /\ setup[c] \in {"queued", "awaiting"}
    /\ setup' = To(setup, c, "done")
    /\ stage' = To(stage, c, "gone")
    /\ UNCHANGED <<dropped, writerVars, senders, active, closeVars, shutdown>>

\* Connections::add; a refused connection is dropped.
Add(c) ==
    /\ stage[c] = "returned"
    /\ IF shutdown
       THEN /\ stage' = To(stage, c, "gone")
            /\ DropConnection(c)
            /\ UNCHANGED active
       ELSE /\ stage' = To(stage, c, "active")
            /\ active' = [active EXCEPT ![AddrOf[c]] = c]
            /\ UNCHANGED aborted
    /\ UNCHANGED <<dropped, setup, writer, queued, senders, closeVars, shutdown>>

\* The user drops the connect future while it waits for the Writing handler; its guard
\* releases the address, and the setup task carries on.  A connection that had just
\* been returned is dropped.
CancelConnect(c) ==
    /\ \/ stage[c] = "setup" /\ stage' = To(stage, c, "cancelled") /\ UNCHANGED aborted
       \/ stage[c] = "returned" /\ stage' = To(stage, c, "gone") /\ DropConnection(c)
    /\ dropped' = dropped \cup {c}
    /\ UNCHANGED <<setup, writer, queued, senders, active, closeVars, shutdown>>

-----------------------------------------------------------------------------
(* The writer task. *)

\* The task's first poll: it tells the setup, or finds it gone and returns (its guards
\* are not in place yet, but the sender cleanup is dropped with the task).
WriterStarts(c) ==
    /\ writer[c] = "spawned"
    /\ writer' = To(writer, c, IF setup[c] = "awaiting" THEN "running" ELSE "cleanup")
    /\ UNCHANGED <<setupVars, aborted, queued, senders, active, closeVars, shutdown>>

\* queue_message: try_send through the entry of the address.  What is sent to a writer
\* that has left its loop is refused or lost, and changes nothing here.
QueueMessage(a) ==
    /\ senders[a] # NoConn
    /\ writer[senders[a]] = "running"
    /\ queued' = queued \cup {senders[a]}
    /\ UNCHANGED <<setupVars, writer, aborted, senders, active, closeVars, shutdown>>

\* The queue was written out.
WriteBatch(c) ==
    /\ writer[c] = "running"
    /\ c \in queued
    /\ queued' = queued \ {c}
    /\ UNCHANGED <<setupVars, writer, aborted, senders, active, closeVars, shutdown>>

\* The loop ends: a failed or timed out write, a panicking codec, a closed channel, or
\* the abort of the task.
WriterEnds(c) ==
    /\ writer[c] = "running"
    /\ c \in queued \/ ~ChannelOpen(c) \/ c \in aborted
    /\ writer' = To(writer, c, "ending")
    /\ UNCHANGED <<setupVars, aborted, queued, senders, active, closeVars, shutdown>>

\* DisconnectOnDrop is dropped, before the sender cleanup.
DropConnCleanup(c) ==
    /\ writer[c] = "ending"
    /\ writer' = To(writer, c, "cleanup")
    /\ recovering' = IF active[AddrOf[c]] = c /\ c \notin claimed
                     THEN recovering \cup {c} ELSE recovering
    /\ UNCHANGED <<setupVars, aborted, queued, senders, active, claimed, finalizer,
                   shutdown>>

\* A cleanup that removes the entry of its address, whoever owns it now.
SenderCleanup_any_instance(c) ==
    /\ writer[c] = "cleanup"
    /\ writer' = To(writer, c, "ended")
    /\ senders' = [senders EXCEPT ![AddrOf[c]] = NoConn]
    /\ UNCHANGED <<setupVars, aborted, queued, active, closeVars, shutdown>>

\* SenderCleanup::drop: only its own entry is removed.
SenderCleanup(c) ==
    /\ writer[c] = "cleanup"
    /\ writer' = To(writer, c, "ended")
    /\ senders' = [senders EXCEPT ![AddrOf[c]] = IF @ = c THEN NoConn ELSE @]
    /\ UNCHANGED <<setupVars, aborted, queued, active, closeVars, shutdown>>

-----------------------------------------------------------------------------
(* Disconnects. *)

\* claim_disconnect, with its finalizer.
Claim(c) ==
    /\ claimed' = claimed \cup {c}
    /\ finalizer' = To(finalizer, c, "armed")

\* Node::disconnect, shut_down, or the cleanup guard of another task.
Disconnect(a) ==
    /\ active[a] # NoConn
    /\ active[a] \notin claimed
    /\ Claim(active[a])
    /\ UNCHANGED <<setupVars, writerVars, senders, active, recovering, shutdown>>

\* The disconnect spawned by the writer's guard, scoped to its instance.
Recover(c) ==
    /\ c \in recovering
    /\ recovering' = recovering \ {c}
    /\ IF active[AddrOf[c]] = c /\ c \notin claimed THEN Claim(c)
                                                   ELSE UNCHANGED <<claimed, finalizer>>
    /\ UNCHANGED <<setupVars, writerVars, senders, active, shutdown>>

\* DisconnectFinalizer::drop, its first lock section: the removal is not gated.
FinalizeSender(c) ==
    /\ finalizer[c] = "armed"
    /\ finalizer' = To(finalizer, c, "sender_removed")
    /\ senders' = [senders EXCEPT ![AddrOf[c]] = NoConn]
    /\ UNCHANGED <<setupVars, writerVars, active, claimed, recovering, shutdown>>

\* Its second one, and the drop of the connection.
FinalizeConn(c) ==
    /\ finalizer[c] = "sender_removed"
    /\ finalizer' = To(finalizer, c, "done")
    /\ active' = [active EXCEPT ![AddrOf[c]] = NoConn]
    /\ stage' = To(stage, c, "gone")
    /\ DropConnection(c)
    /\ UNCHANGED <<dropped, setup, writer, queued, senders, claimed, recovering, shutdown>>

BeginShutdown ==
    /\ ~shutdown
    /\ shutdown' = TRUE
    /\ UNCHANGED <<setupVars, writerVars, senders, active, closeVars>>

-----------------------------------------------------------------------------
Init ==
    /\ stage = [c \in Conn |-> "idle"]
    /\ dropped = {}
    /\ setup = [c \in Conn |-> "none"]
    /\ writer = [c \in Conn |-> "none"]
    /\ aborted = {}
    /\ queued = {}
    /\ senders = [a \in Addr |-> NoConn]
    /\ active = [a \in Addr |-> NoConn]
    /\ claimed = {}
    /\ finalizer = [c \in Conn |-> "none"]
    /\ recovering = {}
    /\ shutdown = FALSE

SetupStep(c) == HandleNewConnection(c) \/ AdoptWriter(c) \/ ReturnConn(c) \/ Add(c)

WriterStep(c) ==
    WriterStarts(c) \/ WriterEnds(c) \/ DropConnCleanup(c) \/ SenderCleanup(c)

DisconnectStep(c) == Recover(c) \/ FinalizeSender(c) \/ FinalizeConn(c)

Next ==
    \/ \E c \in Conn : \/ Trigger(c) \/ SetupStep(c) \/ CancelConnect(c) \/ AbortSetup(c)
                       \/ WriterStep(c) \/ WriteBatch(c) \/ DisconnectStep(c)
    \/ \E a \in Addr : QueueMessage(a) \/ Disconnect(a)
    \/ BeginShutdown

\* The runtime polls every task that can make progress.
Fairness ==
    \A c \in Conn : WF_vars(SetupStep(c)) /\ WF_vars(WriterStep(c)) /\ WF_vars(DisconnectStep(c))

Spec == Init /\ [][Next]_vars

FairSpec == Spec /\ Fairness

-----------------------------------------------------------------------------
(* Properties. *)

\* The values of the variables.
TypeOK ==
    /\ stage \in [Conn -> Stage]
    /\ setup \in [Conn -> SetupStage]
    /\ writer \in [Conn -> WriterStage]
    /\ dropped \subseteq Conn
    /\ aborted \subseteq Conn /\ queued \subseteq Conn /\ claimed \subseteq Conn
    /\ recovering \subseteq Conn
    /\ senders \in [Addr -> Conn \cup {NoConn}]
    /\ active \in [Addr -> Conn \cup {NoConn}]
    /\ finalizer \in [Conn -> {"none", "armed", "sender_removed", "done"}]
    /\ shutdown \in BOOLEAN

\* The connection is registered, nobody is disconnecting it, and its writer runs.
Live(c) == active[AddrOf[c]] = c /\ c \notin claimed /\ writer[c] = "running"

\* A live connection is reachable, i.e. the entry of its address is its own sender,
\* whichever predecessors' writers, cleanups and finalizers are still to run at that
\* address (the id check of SenderCleanup, and the reservation that a finalizer keeps
\* until it is through); the one exception is an address where a connect was dropped.
LiveConnectionReachable ==
    \A c \in Conn :
        (Live(c) /\ \A d \in dropped : AddrOf[d] # AddrOf[c]) => senders[AddrOf[c]] = c

\* "If this future is dropped before the connection is finalized, the attempt is cleanly
\* rolled back": a live connection is reachable whatever was dropped before it.
ReachableDespiteCancel ==
    \A c \in Conn : Live(c) => senders[AddrOf[c]] = c

\* An entry of the senders map never outlives the writer task behind it, so that a
\* message can be queued only where some task will take it or fail it.
EntryHasWriter ==
    \A a \in Addr : senders[a] # NoConn => writer[senders[a]] \notin {"none", "ended"}

\* A writer whose channel is open is owned by somebody who can stop it: its setup task
\* or its connection (the reason for adopt_writer's place after the await).
WriterOwned ==
    \A c \in Conn : (writer[c] = "running" /\ ChannelOpen(c)) =>
        \/ c \in aborted
        \/ setup[c] \in {"awaiting", "adopted"}
        \/ stage[c] \in {"returned", "active"}

\* Whatever ended the connection, its writer task ends and gives up its entry.
WriterGoesWithConnection ==
    \A c \in Conn : stage[c] = "gone" ~> writer[c] \in {"none", "ended"}

\* "disconnect automatically regardless of how this task concludes": a registered
\* connection whose writer has concluded is being disconnected, or about to be.
WriterEndDisconnects ==
    \A c \in Conn :
        (active[AddrOf[c]] = c /\ writer[c] \in {"cleanup", "ended"})
            => c \in claimed \cup recovering

-----------------------------------------------------------------------------
(* The inductive invariant behind the safety properties. *)

\* How far the connect, the setup task and the writer of one instance can be apart.
StagesAgree ==
    \A c \in Conn :
        /\ stage[c] = "idle" <=> setup[c] = "none"
        /\ stage[c] \in {"setup", "cancelled"} <=> setup[c] \in {"queued", "awaiting", "adopted"}
        /\ stage[c] = "cancelled" => c \in dropped
        /\ setup[c] \in {"none", "queued"} => writer[c] = "none"
        /\ setup[c] = "awaiting" => writer[c] \in {"spawned", "running"}
        /\ setup[c] = "adopted" \/ stage[c] \in {"returned", "active"}
                => writer[c] \notin {"none", "spawned"}
        /\ c \in queued \cup aborted => setup[c] \in {"adopted", "done"}

\* An address belongs to one instance from the reservation to the removal.
AddressOwned ==
    /\ \A a \in Addr : active[a] # NoConn => AddrOf[active[a]] = a
    /\ \A c \in Conn : stage[c] = "active" <=> active[AddrOf[c]] = c
    /\ \A c, d \in Conn :
        /\ AddrOf[c] = AddrOf[d]
        /\ stage[c] \in {"setup", "returned", "active"}
        /\ stage[d] \in {"setup", "returned", "active"}
        => c = d

\* A claim has its finalizer until the connection is gone.
ClaimsFinalized ==
    \A c \in Conn :
        /\ c \in claimed <=> finalizer[c] # "none"
        /\ finalizer[c] \in {"armed", "sender_removed"} <=> c \in claimed /\ stage[c] = "active"
        /\ c \in claimed => stage[c] \in {"active", "gone"}

\* A published sender is of its address, has a writer, and an owner.
EntriesOwned ==
    \A a \in Addr : senders[a] # NoConn =>
        /\ AddrOf[senders[a]] = a
        /\ writer[senders[a]] \in {"running", "ending", "cleanup"}
        /\ setup[senders[a]] \in {"adopted", "done"}
        /\ \/ senders[a] \in aborted
           \/ setup[senders[a]] = "adopted"
           \/ stage[senders[a]] \in {"returned", "active"}

\* From its publication on, a sender stays where it is until the writer ends or a
\* disconnect claims the connection; a dropped connect at the address aside.
PublishedStays ==
    \A c \in Conn :
        (/\ setup[c] = "adopted" \/ stage[c] \in {"returned", "active"}
         /\ writer[c] = "running" /\ c \notin claimed
         /\ \A d \in dropped : AddrOf[d] # AddrOf[c]) => senders[AddrOf[c]] = c

\* What every step of Writing's setups, writers and disconnects preserves.
IInv ==
    /\ TypeOK
    /\ StagesAgree
    /\ AddressOwned
    /\ ClaimsFinalized
    /\ EntriesOwned
    /\ PublishedStays

=============================================================================
