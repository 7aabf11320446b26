------------------------------ MODULE Lifecycle ------------------------------
(***************************************************************************)
(* The life of a connection's hooks and the end of the node: adapt_stream  *)
(* from the registration on, the OnConnect scheduling task, the OnConnect  *)
(* and OnDisconnect handler tasks and the hooks they spawn,                *)
(* disconnect_w_origin, and shut_down with its two phases (the flag, then  *)
(* the handler signal).                                                    *)
(*                                                                         *)
(* Both hook protocols are enabled before any connection is made.  The     *)
(* address is reserved as in module Connections; the protocols' setup is   *)
(* one step that succeeds or fails.  The write lock of `active` is modelled *)
(* where a section under it has a visible middle (Connections::add); every *)
(* other section that takes it is one action that waits for the lock.      *)
(*                                                                         *)
(* An operator D_fault, placed before D, is a faulty variant of D: what a  *)
(* plausible mistake in that code would do.  Next does not use it.         *)
(***************************************************************************)
EXTENDS Naturals, FiniteSets

CONSTANTS
    Conn,        \* connection instances (Connection::id)
    Addr,
    AddrOf,      \* the address of each instance
    NoConn,      \* no instance
    ABORTABLE,   \* OnConnect::ABORTABLE
    HardAbort    \* whether shut_down may be dropped, or a deadline pass: the cases

ASSUME LifecycleAssumption ==
    /\ IsFiniteSet(Conn)
    /\ AddrOf \in [Conn -> Addr]
    /\ NoConn \notin Conn
    /\ ABORTABLE \in BOOLEAN /\ HardAbort \subseteq BOOLEAN

VARIABLES
    pc,          \* adapt_stream, then the scheduling task, of each instance
    lock,        \* the holder of active.write() inside Connections::add
    active,      \* Connections::active
    claimed,     \* instances whose disconnecting flag is set
    origin,      \* the DisconnectOrigin of the claim
    close,       \* disconnect_w_origin for each instance
    cancelled,   \* disconnects whose future was dropped
    recovering,  \* spawned disconnects of the OnConnect hooks' DisconnectOnDrop
    on_connect,     \* the OnConnect hook task of each instance
    attached,       \* hook tasks in their connection's `tasks`: {hook, connection}
    abort,          \* OnConnect hook tasks that were aborted
    on_disconnect,  \* the OnDisconnect hook task of each instance
    queue,       \* the triggers in the two handlers' channels
    handler,     \* the two handler tasks: "open", "draining", "exited"
    hard,        \* the handler tasks were aborted
    flag,        \* ShutdownState::flag
    signal,      \* ShutdownState::handler_signal
    sched,       \* ShutdownState::sched_in_flight
    sd,          \* shut_down
    fan,         \* the snapshot's addresses whose disconnect has not been polled
    notified,    \* shut_down's Notify waiter was woken
    hard_abort   \* the case of HardAbort; it never changes

connVars == <<pc, lock, active>>
closeVars == <<claimed, origin, close, cancelled, recovering>>
hookVars == <<on_connect, attached, abort, on_disconnect>>
handlerVars == <<queue, handler, hard>>
shutVars == <<flag, signal, sched, sd, fan, notified>>
nodeVars == <<connVars, closeVars, hookVars, handlerVars, shutVars>>
vars == <<nodeVars, hard_abort>>

Hooks == {"OnConnect", "OnDisconnect"}

To(f, x, s) == [f EXCEPT ![x] = s]

\* The instance is registered.
Registered(c) == active[AddrOf[c]] = c

\* A setup holds the reservation of its address.
Pending == {"setup", "guarded", "refused", "locked"}

-----------------------------------------------------------------------------
(* SchedulingGuard and Notify. *)

\* notify_waiters wakes shut_down if it is registered with that Notify.
Notify(stages) == notified' = (notified \/ sd \in stages)

DrainWaiter == {"drain_check", "drain_wait"}
SchedWaiter == {"sched_check", "sched_wait"}

\* SchedulingGuard::drop, i.e. sched_finished.
sched_finished ==
    /\ sched' = sched - 1
    /\ IF sched = 1 THEN Notify(SchedWaiter) ELSE UNCHANGED notified

-----------------------------------------------------------------------------
(* adapt_stream. *)

\* A connect or an accepted connection that passed the shutdown check and the
\* reservation.
Reserve(c) ==
    /\ pc[c] = "idle"
    /\ ~flag
    /\ active[AddrOf[c]] = NoConn
    /\ \A d \in Conn : AddrOf[d] = AddrOf[c] => pc[d] \notin Pending
    /\ pc' = To(pc, c, "setup")
    /\ UNCHANGED <<lock, active, closeVars, hookVars, handlerVars, shutVars>>

\* enable_protocols fails, or the setup is cancelled.
SetupFails(c) ==
    /\ pc[c] = "setup"
    /\ pc' = To(pc, c, "gone")
    /\ UNCHANGED <<lock, active, closeVars, hookVars, handlerVars, shutVars>>

\* enable_protocols succeeds; the scheduling is accounted for before the connection
\* becomes visible.
StartGuard(c) ==
    /\ pc[c] = "setup"
    /\ pc' = To(pc, c, "guarded")
    /\ sched' = sched + 1
    /\ UNCHANGED <<lock, active, closeVars, hookVars, handlerVars, flag, signal, sd,
                   fan, notified>>

\* The flag is read before the lock is taken.
AddLock_flag_read_early(c) ==
    /\ pc[c] = "guarded"
    /\ pc' = To(pc, c, IF flag THEN "refused" ELSE "locked")
    /\ UNCHANGED <<lock, active, closeVars, hookVars, handlerVars, shutVars>>

\* Connections::add: the lock is taken and the flag is read under it.
AddLock(c) ==
    /\ pc[c] = "guarded"
    /\ lock = NoConn
    /\ IF flag THEN pc' = To(pc, c, "refused") /\ UNCHANGED lock
               ELSE pc' = To(pc, c, "locked") /\ lock' = c
    /\ UNCHANGED <<active, closeVars, hookVars, handlerVars, shutVars>>

\* The refused connection's scheduling guard is dropped.
Refused(c) ==
    /\ pc[c] = "refused"
    /\ pc' = To(pc, c, "gone")
    /\ sched_finished
    /\ UNCHANGED <<lock, active, closeVars, hookVars, handlerVars, flag, signal, sd, fan>>

\* Still under the lock: the connection is inserted; then the lock is released and
\* the scheduling task is spawned.
Insert(c) ==
    /\ pc[c] = "locked"
    /\ active' = To(active, AddrOf[c], c)
    /\ lock' = NoConn
    /\ pc' = To(pc, c, "sched")
    /\ UNCHANGED <<closeVars, hookVars, handlerVars, shutVars>>

-----------------------------------------------------------------------------
(* The OnConnect scheduling task. *)

\* handler.trigger: a closed channel drops the item, and the hook with it.
ScheduleOnConnect(c) ==
    /\ pc[c] = "sched"
    /\ IF handler["OnConnect"] = "open"
       THEN /\ pc' = To(pc, c, "triggered")
            /\ queue' = To(queue, "OnConnect", queue["OnConnect"] \cup {c})
       ELSE pc' = To(pc, c, "finishing") /\ UNCHANGED queue
    /\ UNCHANGED <<lock, active, closeVars, hookVars, handler, hard, shutVars>>

\* The hook is attached to whatever connection has the address.
AttachOnConnect_any_instance(c) ==
    /\ pc[c] = "triggered" /\ on_connect[c] # "none"
    /\ lock = NoConn
    /\ pc' = To(pc, c, "finishing")
    /\ IF ~ABORTABLE THEN UNCHANGED <<attached, abort>>
       ELSE IF active[AddrOf[c]] # NoConn
       THEN attached' = attached \cup {<<c, active[AddrOf[c]]>>} /\ UNCHANGED abort
       ELSE abort' = abort \cup {c} /\ UNCHANGED attached
    /\ UNCHANGED <<lock, active, closeVars, on_connect, on_disconnect, handlerVars, shutVars>>

\* The hook is attached whatever ABORTABLE says.
AttachOnConnect_always(c) ==
    /\ pc[c] = "triggered" /\ on_connect[c] # "none"
    /\ lock = NoConn
    /\ pc' = To(pc, c, "finishing")
    /\ IF Registered(c) THEN attached' = attached \cup {<<c, c>>} /\ UNCHANGED abort
                        ELSE abort' = abort \cup {c} /\ UNCHANGED attached
    /\ UNCHANGED <<lock, active, closeVars, on_connect, on_disconnect, handlerVars, shutVars>>

\* The handle arrives: an abortable hook joins the tasks of its own connection, or is
\* aborted if that is gone.
AttachOnConnect(c) ==
    /\ pc[c] = "triggered" /\ on_connect[c] # "none"
    /\ lock = NoConn
    /\ pc' = To(pc, c, "finishing")
    /\ IF ~ABORTABLE THEN UNCHANGED <<attached, abort>>
       ELSE IF Registered(c)
       THEN attached' = attached \cup {<<c, c>>} /\ UNCHANGED abort
       ELSE abort' = abort \cup {c} /\ UNCHANGED attached
    /\ UNCHANGED <<lock, active, closeVars, on_connect, on_disconnect, handlerVars, shutVars>>

\* await_handler_response gives up on a handler that has not answered: it is gone, or
\* has been draining for longer than the grace period.
GivenUp(h) == handler[h] = "exited" \/ (hard_abort /\ handler[h] = "draining")

StrandedOnConnect(c) ==
    /\ pc[c] = "triggered" /\ on_connect[c] = "none"
    /\ GivenUp("OnConnect")
    /\ pc' = To(pc, c, "finishing")
    /\ UNCHANGED <<lock, active, closeVars, hookVars, handlerVars, shutVars>>

\* The task ends and drops its scheduling guard.
FinishScheduling(c) ==
    /\ pc[c] = "finishing"
    /\ pc' = To(pc, c, "done")
    /\ sched_finished
    /\ UNCHANGED <<lock, active, closeVars, hookVars, handlerVars, flag, signal, sd, fan>>

-----------------------------------------------------------------------------
(* The handler tasks (run_hook_handler_loop). *)

\* An OnConnect trigger is received: the hook is spawned and its handle sent back; if
\* the scheduling task has given up waiting, an abortable hook is aborted.
HandleOnConnect(c) ==
    /\ handler["OnConnect"] # "exited"
    /\ c \in queue["OnConnect"]
    /\ queue' = To(queue, "OnConnect", queue["OnConnect"] \ {c})
    /\ on_connect' = To(on_connect, c, "spawned")
    /\ abort' = IF ABORTABLE /\ pc[c] # "triggered" THEN abort \cup {c} ELSE abort
    /\ UNCHANGED <<connVars, closeVars, attached, on_disconnect, handler, hard, shutVars>>

\* An OnDisconnect trigger is received; a disconnect that no longer waits for the
\* handle has its hook aborted.
HandleOnDisconnect(c) ==
    /\ handler["OnDisconnect"] # "exited"
    /\ c \in queue["OnDisconnect"]
    /\ queue' = To(queue, "OnDisconnect", queue["OnDisconnect"] \ {c})
    /\ on_disconnect' = To(on_disconnect, c,
                           IF close[c] = "triggered" THEN "running" ELSE "aborted")
    /\ UNCHANGED <<connVars, closeVars, on_connect, attached, abort, handler, hard, shutVars>>

\* The signal is seen: the channel is closed, and drained from here on.
HandlerCloses(h) ==
    /\ signal
    /\ handler[h] = "open"
    /\ handler' = To(handler, h, "draining")
    /\ UNCHANGED <<connVars, closeVars, hookVars, queue, hard, shutVars>>

HandlerExits(h) ==
    /\ handler[h] = "draining"
    /\ queue[h] = {}
    /\ handler' = To(handler, h, "exited")
    /\ UNCHANGED <<connVars, closeVars, hookVars, queue, hard, shutVars>>

\* An aborted handler reaches an await and is dropped, with what was queued.
HandlerDropped(h) ==
    /\ hard
    /\ handler[h] # "exited"
    /\ handler' = To(handler, h, "exited")
    /\ queue' = To(queue, h, {})
    /\ UNCHANGED <<connVars, closeVars, hookVars, hard, shutVars>>

-----------------------------------------------------------------------------
(* The OnConnect hook. *)

\* The first poll arms the hook's DisconnectOnDrop and enters the user's code.
HookStarts(c) ==
    /\ on_connect[c] = "spawned"
    /\ c \notin abort
    /\ on_connect' = To(on_connect, c, "running")
    /\ UNCHANGED <<connVars, closeVars, attached, abort, on_disconnect, handlerVars, shutVars>>

\* It returns, which defuses the guard.
HookReturns(c) ==
    /\ on_connect[c] = "running"
    /\ on_connect' = To(on_connect, c, "done")
    /\ UNCHANGED <<connVars, closeVars, attached, abort, on_disconnect, handlerVars, shutVars>>

\* DisconnectOnDrop::drop, if the hook had been polled.
DropHookGuard(c) ==
    recovering' = IF on_connect[c] = "running" /\ Registered(c) /\ c \notin claimed
                  THEN recovering \cup {c} ELSE recovering

HookPanics(c) ==
    /\ on_connect[c] = "running"
    /\ lock = NoConn
    /\ on_connect' = To(on_connect, c, "panicked")
    /\ DropHookGuard(c)
    /\ UNCHANGED <<connVars, claimed, origin, close, cancelled, attached, abort,
                   on_disconnect, handlerVars, shutVars>>

HookAborted(c) ==
    /\ c \in abort
    /\ on_connect[c] \in {"spawned", "running"}
    /\ lock = NoConn
    /\ on_connect' = To(on_connect, c, "aborted")
    /\ DropHookGuard(c)
    /\ UNCHANGED <<connVars, claimed, origin, close, cancelled, attached, abort,
                   on_disconnect, handlerVars, shutVars>>

-----------------------------------------------------------------------------
(* disconnect_w_origin. *)

Claimable(c) == lock = NoConn /\ Registered(c) /\ c \notin claimed

\* claim_disconnect.
Claim(c, cause) ==
    /\ claimed' = claimed \cup {c}
    /\ origin' = To(origin, c, cause)
    /\ close' = To(close, c, "claimed")

\* Node::disconnect, or a reader, writer or processing task that ended.
Disconnect(c) ==
    /\ Claimable(c)
    /\ Claim(c, "Other")
    /\ UNCHANGED <<connVars, cancelled, recovering, hookVars, handlerVars, shutVars>>

\* The disconnect spawned by an OnConnect hook's guard, scoped to its instance.
Recover(c) ==
    /\ c \in recovering
    /\ lock = NoConn
    /\ recovering' = recovering \ {c}
    /\ IF Claimable(c) THEN Claim(c, "OnConnectAbort")
                       ELSE UNCHANGED <<claimed, origin, close>>
    /\ UNCHANGED <<connVars, cancelled, hookVars, handlerVars, shutVars>>

TriggerOnDisconnect(c) ==
    /\ close[c] = "claimed"
    /\ IF handler["OnDisconnect"] = "open"
       THEN /\ close' = To(close, c, "triggered")
            /\ queue' = To(queue, "OnDisconnect", queue["OnDisconnect"] \cup {c})
       ELSE close' = To(close, c, "finalize") /\ UNCHANGED queue
    /\ UNCHANGED <<connVars, claimed, origin, cancelled, recovering, hookVars, handler, hard, shutVars>>

\* The hook's handle arrives and is pushed to the connection's tasks.
RegisterOnDisconnect(c) ==
    /\ close[c] = "triggered"
    /\ on_disconnect[c] # "none"
    /\ lock = NoConn
    /\ close' = To(close, c, "waiting")
    /\ on_disconnect' = To(on_disconnect, c, IF on_disconnect[c] = "running" THEN "owned"
                                                                   ELSE on_disconnect[c])
    /\ UNCHANGED <<connVars, claimed, origin, cancelled, recovering, on_connect, attached,
                   abort, handlerVars, shutVars>>

StrandedOnDisconnect(c) ==
    /\ close[c] = "triggered"
    /\ on_disconnect[c] = "none"
    /\ GivenUp("OnDisconnect")
    /\ close' = To(close, c, "finalize")
    /\ UNCHANGED <<connVars, claimed, origin, cancelled, recovering, hookVars, handlerVars, shutVars>>

\* The OnDisconnect hook returns, panics or times out.
OnDisconnectReturns(c) ==
    /\ on_disconnect[c] \in {"running", "owned"}
    /\ on_disconnect' = To(on_disconnect, c, "finished")
    /\ UNCHANGED <<connVars, closeVars, on_connect, attached, abort, handlerVars, shutVars>>

\* waiter.await resolves, and the finalizer is dropped.
HookAwaited(c) ==
    /\ close[c] = "waiting"
    /\ on_disconnect[c] = "finished"
    /\ close' = To(close, c, "finalize")
    /\ UNCHANGED <<connVars, claimed, origin, cancelled, recovering, hookVars, handlerVars, shutVars>>

\* Connections::remove without the wake-up.
Removed_silently(c) == active' = To(active, AddrOf[c], NoConn) /\ UNCHANGED notified

\* Connections::remove: the entry goes, and a waiting shut_down is woken.
Removed(c) == active' = To(active, AddrOf[c], NoConn) /\ Notify(DrainWaiter)

\* DisconnectFinalizer::drop and the drop of the connection, which aborts the hooks
\* among its tasks.
Finalize(c) ==
    /\ close[c] = "finalize"
    /\ lock = NoConn
    /\ close' = To(close, c, "done")
    /\ Removed(c)
    /\ abort' = abort \cup {h \in Conn : <<h, c>> \in attached}
    /\ on_disconnect' = To(on_disconnect, c, IF on_disconnect[c] = "owned" THEN "aborted"
                                                                 ELSE on_disconnect[c])
    /\ UNCHANGED <<pc, lock, claimed, origin, cancelled, recovering, on_connect, attached,
                   handlerVars, flag, signal, sched, sd, fan>>

\* The disconnect's future is dropped at one of its awaits; a hook whose handle it had
\* not registered yet runs on detached.
CancelDisconnect(c) ==
    /\ close[c] \in {"claimed", "triggered", "waiting"}
    /\ origin[c] = "Other"
    /\ close' = To(close, c, "finalize")
    /\ cancelled' = cancelled \cup {c}
    /\ UNCHANGED <<connVars, claimed, origin, recovering, hookVars, handlerVars, shutVars>>

-----------------------------------------------------------------------------
(* shut_down. *)

\* What shut_down leaves alone while it moves from one stage to the next.
SdUnchanged == UNCHANGED <<connVars, closeVars, hookVars, handlerVars, sched>>

Begin ==
    /\ sd = "off"
    /\ flag' = TRUE
    /\ sd' = "snapshot"
    /\ SdUnchanged /\ UNCHANGED <<signal, fan, notified>>

\* connected_addrs: one disconnect future per registered address.
Snapshot ==
    /\ sd = "snapshot"
    /\ lock = NoConn
    /\ fan' = {a \in Addr : active[a] # NoConn}
    /\ sd' = "fanout"
    /\ SdUnchanged /\ UNCHANGED <<flag, signal, notified>>

\* A future of the fan-out is polled for the first time.
FanOut(a) ==
    /\ sd = "fanout"
    /\ a \in fan
    /\ lock = NoConn
    /\ fan' = fan \ {a}
    /\ IF active[a] # NoConn /\ active[a] \notin claimed THEN Claim(active[a], "Shutdown")
                                                        ELSE UNCHANGED <<claimed, origin, close>>
    /\ UNCHANGED <<connVars, cancelled, recovering, hookVars, handlerVars, flag, signal,
                   sched, sd, notified>>

\* All the futures of the fan-out have resolved.
FanOutDone ==
    /\ sd = "fanout"
    /\ fan = {}
    /\ \A c \in Conn : origin[c] = "Shutdown" => close[c] = "done"
    /\ sd' = "drain"
    /\ SdUnchanged /\ UNCHANGED <<flag, signal, fan, notified>>

\* wait_for_drain that looks first and registers afterwards.
wait_for_drain_looks_first(from, check, wait, next, drained) ==
    \/ /\ sd = from
       /\ sd' = IF drained THEN next ELSE check
       /\ UNCHANGED notified
    \/ /\ sd = check
       /\ notified' = FALSE
       /\ sd' = wait
    \/ /\ sd = wait
       /\ notified
       /\ sd' = from
       /\ UNCHANGED notified

\* wait_for_drain: register with the Notify, look, and wait if there is something left.
wait_for_drain(from, check, wait, next, drained) ==
    \/ /\ sd = from
       /\ notified' = FALSE
       /\ sd' = check
    \/ /\ sd = check
       /\ sd' = IF drained THEN next ELSE wait
       /\ UNCHANGED notified
    \/ /\ sd = wait
       /\ notified
       /\ sd' = from
       /\ UNCHANGED notified

\* The disconnects that others have claimed are not waited for.
WaitActiveDrained_skipped ==
    /\ sd = "drain" /\ sd' = "sched"
    /\ SdUnchanged /\ UNCHANGED <<flag, signal, fan, notified>>

\* The active connections: shut_down's own disconnects and everybody else's.
WaitActiveDrained ==
    /\ sd = "drain_check" => lock = NoConn
    /\ wait_for_drain("drain", "drain_check", "drain_wait", "sched",
                      \A a \in Addr : active[a] = NoConn)
    /\ SdUnchanged /\ UNCHANGED <<flag, signal, fan>>

\* The handlers are signalled right after the active connections have drained.
wait_sched_drained_skipped ==
    /\ sd = "sched" /\ sd' = "signal"
    /\ SdUnchanged /\ UNCHANGED <<flag, signal, fan, notified>>

\* The OnConnect scheduling tasks.
wait_sched_drained ==
    /\ wait_for_drain("sched", "sched_check", "sched_wait", "signal", sched = 0)
    /\ SdUnchanged /\ UNCHANGED <<flag, signal, fan>>

SignalHandlers ==
    /\ sd = "signal"
    /\ signal' = TRUE
    /\ sd' = "join"
    /\ SdUnchanged /\ UNCHANGED <<flag, fan, notified>>

\* Both handlers have exited (a repeated shut_down has none to wait for), or the deadline
\* has passed and they are aborted; then the listening address is cleared.
JoinHandlers ==
    /\ sd = "join"
    /\ \/ (\A h \in Hooks : handler[h] = "exited") /\ UNCHANGED hard
       \/ hard_abort /\ hard' = TRUE
    /\ sd' = "finished"
    /\ UNCHANGED <<connVars, closeVars, hookVars, queue, handler, sched, flag, signal, fan,
                   notified>>

\* The shut_down future is dropped at one of its awaits: the handlers are aborted, and
\* the disconnects it was driving are finalized.  It can be called again.
CancelShutdown ==
    /\ hard_abort
    /\ sd \in {"fanout", "drain_wait", "sched_wait", "join"}
    /\ sd' = "off"
    /\ hard' = TRUE
    /\ close' = [c \in Conn |->
          IF origin[c] = "Shutdown" /\ close[c] \in {"claimed", "triggered", "waiting"}
          THEN "finalize" ELSE close[c]]
    /\ cancelled' = cancelled \cup {c \in Conn : close'[c] # close[c]}
    /\ fan' = {}
    /\ UNCHANGED <<connVars, claimed, origin, recovering, hookVars, queue, handler, flag,
                   signal, sched, notified>>

-----------------------------------------------------------------------------
Init ==
    /\ pc = [c \in Conn |-> "idle"]
    /\ lock = NoConn
    /\ active = [a \in Addr |-> NoConn]
    /\ claimed = {}
    /\ origin = [c \in Conn |-> "none"]
    /\ close = [c \in Conn |-> "none"]
    /\ cancelled = {} /\ recovering = {}
    /\ on_connect = [c \in Conn |-> "none"]
    /\ attached = {} /\ abort = {}
    /\ on_disconnect = [c \in Conn |-> "none"]
    /\ queue = [h \in Hooks |-> {}]
    /\ handler = [h \in Hooks |-> "open"]
    /\ hard = FALSE
    /\ flag = FALSE /\ signal = FALSE
    /\ sched = 0
    /\ sd = "off"
    /\ fan = {}
    /\ notified = FALSE
    /\ hard_abort \in HardAbort

AdaptStream(c) == StartGuard(c) \/ AddLock(c) \/ Refused(c) \/ Insert(c)

Scheduling(c) ==
    ScheduleOnConnect(c) \/ AttachOnConnect(c) \/ StrandedOnConnect(c) \/ FinishScheduling(c)

Closing(c) ==
    \/ TriggerOnDisconnect(c) \/ RegisterOnDisconnect(c) \/ StrandedOnDisconnect(c)
    \/ OnDisconnectReturns(c) \/ HookAwaited(c) \/ Finalize(c)

Handling(c) == HandleOnConnect(c) \/ HandleOnDisconnect(c)

HandlerExit(h) == HandlerCloses(h) \/ HandlerExits(h) \/ HandlerDropped(h)

\* A step of shut_down itself.
ShutDown ==
    \/ Snapshot \/ (\E a \in Addr : FanOut(a)) \/ FanOutDone
    \/ WaitActiveDrained \/ wait_sched_drained \/ SignalHandlers \/ JoinHandlers

Next ==
    /\ UNCHANGED hard_abort
    /\ \/ \E c \in Conn :
             \/ Reserve(c) \/ SetupFails(c) \/ AdaptStream(c) \/ Scheduling(c) \/ Handling(c)
             \/ HookStarts(c) \/ HookReturns(c) \/ HookPanics(c) \/ HookAborted(c)
             \/ Disconnect(c) \/ Recover(c) \/ Closing(c) \/ CancelDisconnect(c)
       \/ \E h \in Hooks : HandlerExit(h)
       \/ Begin \/ ShutDown \/ CancelShutdown

\* Every task that can run is polled, and an OnDisconnect hook ends (TIMEOUT_MS).  The
\* user's OnConnect hook need not.
Fairness ==
    /\ \A c \in Conn : /\ WF_nodeVars(AdaptStream(c)) /\ WF_nodeVars(Scheduling(c))
                       /\ WF_nodeVars(Handling(c)) /\ WF_nodeVars(Closing(c))
    /\ \A h \in Hooks : WF_nodeVars(HandlerExit(h))
    /\ WF_nodeVars(ShutDown)

Spec == Init /\ [][Next]_vars

FairSpec == Spec /\ Fairness

-----------------------------------------------------------------------------
(* Properties. *)

\* Where shut_down can be.
SdStage ==
    {"off", "snapshot", "fanout", "drain", "sched", "signal", "join", "finished"}
        \cup DrainWaiter \cup SchedWaiter

\* The values of the variables.
TypeOK ==
    /\ pc \in [Conn -> Pending \cup {"idle", "sched", "triggered", "finishing", "done", "gone"}]
    /\ lock \in Conn \cup {NoConn}
    /\ active \in [Addr -> Conn \cup {NoConn}]
    /\ claimed \subseteq Conn /\ cancelled \subseteq Conn /\ recovering \subseteq Conn
    /\ origin \in [Conn -> {"none", "Other", "Shutdown", "OnConnectAbort"}]
    /\ close \in [Conn -> {"none", "claimed", "triggered", "waiting", "finalize", "done"}]
    /\ on_connect \in [Conn -> {"none", "spawned", "running", "done", "panicked", "aborted"}]
    /\ attached \subseteq Conn \X Conn /\ abort \subseteq Conn
    /\ on_disconnect \in [Conn -> {"none", "running", "owned", "finished", "aborted"}]
    /\ queue \in [Hooks -> SUBSET Conn]
    /\ handler \in [Hooks -> {"open", "draining", "exited"}]
    /\ hard \in BOOLEAN
    /\ flag \in BOOLEAN /\ signal \in BOOLEAN /\ notified \in BOOLEAN
    /\ sched \in Nat
    /\ sd \in SdStage
    /\ fan \subseteq Addr
    /\ hard_abort \in HardAbort

\* Once shut_down has taken its snapshot, no connection is ever inserted again: the
\* flag is read under the same lock the snapshot takes (Connections::add).
NoInsertAfterSnapshot ==
    [][(flag /\ sd # "snapshot") =>
          \A a \in Addr : active'[a] \in {active[a], NoConn}]_vars

\* When shut_down returns, no connection is registered and no OnConnect scheduling is
\* under way.
ShutdownLeavesNothing ==
    sd = "finished" => /\ \A a \in Addr : active[a] = NoConn
                       /\ \A c \in Conn : pc[c] \notin {"sched", "triggered"}

\* on_disconnect runs to its end for every connection that was registered, before the
\* connection is removed, unless the disconnect itself was cancelled; in particular no
\* trigger meets a handler that shut_down has already sent home.  (A shut_down that is
\* itself dropped cuts hooks short, as documented: this is about runs without.)
OnDisconnectPaired ==
    ~hard_abort => \A c \in Conn :
        (close[c] = "done" /\ c \notin cancelled) => on_disconnect[c] = "finished"

\* A scheduled on_connect is never skipped: its task has been spawned by the time the
\* scheduling is over (the reason for wait_sched_drained), as long as no shut_down is
\* dropped.
OnConnectNotSkipped ==
    ~hard_abort => \A c \in Conn : pc[c] \in {"finishing", "done"} => on_connect[c] # "none"

\* With ABORTABLE = false no hook task is ever aborted ...
DetachedRunsToCompletion ==
    ~ABORTABLE => \A c \in Conn : c \notin abort /\ on_connect[c] # "aborted"

\* ... and with ABORTABLE = true none escapes its own connection's teardown, nor is one
\* cut short by the teardown of another connection at the same address.  (The second part
\* is again about runs without a dropped shut_down: a scheduling task that gives up on a
\* handler has the hook aborted.)
HookFollowsConnection ==
    ABORTABLE => \A c \in Conn :
        /\ (pc[c] \in {"finishing", "done"} /\ ~Registered(c) /\ on_connect[c] \in {"spawned", "running"})
              => c \in abort
        /\ c \in abort /\ ~hard_abort => ~Registered(c)

\* shut_down never sleeps on a condition that already holds: when it waits, either there
\* is something left to wait for or its wake-up is on the way (wait_for_drain registers
\* before it looks).
NoLostWakeup ==
    /\ (sd = "drain_wait" /\ \A a \in Addr : active[a] = NoConn) => notified
    /\ (sd = "sched_wait" /\ sched = 0) => notified

\* shut_down returns, whatever disconnects, setups and scheduling tasks it races with,
\* and whatever an earlier shut_down that was cancelled has left behind.
ShutdownReturns == sd = "snapshot" ~> sd \in {"finished", "off"}

\* "the count can only fall from here": once the active connections have drained, no new
\* OnConnect scheduling is counted.
SchedOnlyFalls ==
    [][(sd \in {"sched", "sched_check", "sched_wait"}) => sched' <= sched]_vars

-----------------------------------------------------------------------------
(* The inductive invariant behind the safety of shut_down. *)

\* Who holds the lock is between the flag check and the insertion.
LockHeld == \A c \in Conn : pc[c] = "locked" <=> lock = c

\* Nobody is left between the two once the snapshot is taken, also by an earlier call.
FlagCloses ==
    /\ sd # "off" => flag
    /\ flag /\ sd # "snapshot" => lock = NoConn

\* The instances that own one unit of sched_in_flight.
Scheduled == {c \in Conn : pc[c] \in {"guarded", "refused", "locked", "sched", "triggered", "finishing"}}

SchedExact == sched = Cardinality(Scheduled)

AfterDrain == {"sched", "signal", "join", "finished"} \cup SchedWaiter

\* What shut_down has waited for stays as it is.
DrainLasts ==
    /\ sd \in AfterDrain => \A a \in Addr : active[a] = NoConn
    /\ sd \in {"signal", "join", "finished"} =>
          \A c \in Conn : pc[c] \notin {"sched", "triggered", "finishing"}

Detached ==
    ~ABORTABLE => attached = {} /\ abort = {} /\ \A c \in Conn : on_connect[c] # "aborted"

\* What every step of setups, schedulings, disconnects and shut_down itself preserves.
IInv ==
    /\ TypeOK
    /\ LockHeld
    /\ FlagCloses
    /\ SchedExact
    /\ DrainLasts
    /\ NoLostWakeup
    /\ Detached

-----------------------------------------------------------------------------
(* The inductive invariant behind the hooks, on top of IInv. *)

\* An address is reserved or registered by one instance at a time, and an instance is
\* registered only once it has been inserted.
AddressExclusive ==
    /\ \A a \in Addr : active[a] # NoConn => AddrOf[active[a]] = a
    /\ \A c \in Conn : Registered(c) => pc[c] \in {"sched", "triggered", "finishing", "done"}
    /\ \A c \in Conn : pc[c] \in Pending => active[AddrOf[c]] = NoConn
    /\ \A c, d \in Conn : pc[c] \in Pending /\ pc[d] \in Pending /\ AddrOf[c] = AddrOf[d] => c = d

\* A disconnect is under way for claimed instances only, and its instance stays registered
\* until it is finalized.
CloseOwned == \A c \in Conn :
    /\ c \in claimed <=> close[c] # "none"
    /\ close[c] \in {"claimed", "triggered", "waiting", "finalize"} => Registered(c)

\* As long as no shut_down is dropped a handler closes only when the last stage has begun,
\* and it has emptied its channel when it exits.
HandlersLast ==
    ~hard_abort =>
        /\ ~hard
        /\ signal => sd \in {"join", "finished"}
        /\ \A h \in Hooks : handler[h] # "open" => signal
        /\ \A h \in Hooks : handler[h] = "exited" => queue[h] = {}

\* Where the on_connect hook of an instance is at each stage of its scheduling.
ConnectStages == \A c \in Conn :
    /\ c \in queue["OnConnect"] => on_connect[c] = "none" /\ pc[c] \in {"triggered", "finishing", "done"}
    /\ pc[c] \notin {"triggered", "finishing", "done"} => on_connect[c] = "none"
    /\ ~hard_abort =>
        /\ pc[c] = "triggered" /\ on_connect[c] = "none" <=> c \in queue["OnConnect"]
        /\ pc[c] \in {"finishing", "done"} => on_connect[c] # "none"

\* Where the on_disconnect hook of an instance is at each stage of its disconnect.
DisconnectStages ==
    ~hard_abort => \A c \in Conn :
        /\ c \in queue["OnDisconnect"] => on_disconnect[c] = "none" /\ close[c] \notin {"none", "claimed"}
        /\ close[c] \in {"none", "claimed"} => on_disconnect[c] = "none"
        /\ c \notin cancelled =>
            /\ close[c] = "triggered" =>
                on_disconnect[c] \in {"running", "finished"}
                \/ (on_disconnect[c] = "none" /\ c \in queue["OnDisconnect"])
            /\ close[c] = "waiting" => on_disconnect[c] \in {"owned", "finished"}
            /\ close[c] \in {"finalize", "done"} => on_disconnect[c] = "finished"

\* A hook is attached to its own connection, and once the scheduling is over a hook that
\* has not ended is attached to a registered connection or aborted.
HooksAttached ==
    /\ \A p \in attached : p[1] = p[2] /\ pc[p[1]] \in {"finishing", "done"}
    /\ ABORTABLE => \A c \in Conn :
        /\ pc[c] \in {"finishing", "done"} /\ on_connect[c] \in {"spawned", "running"} =>
            (Registered(c) /\ <<c, c>> \in attached) \/ c \in abort
        /\ c \in abort /\ ~hard_abort => pc[c] \in {"finishing", "done"} /\ ~Registered(c)

HookInv ==
    /\ AddressExclusive
    /\ CloseOwned
    /\ HandlersLast
    /\ ConnectStages
    /\ DisconnectStages
    /\ HooksAttached

=============================================================================
