-------------------------------- MODULE Setup --------------------------------
(***************************************************************************)
(* The node's long-running tasks and the connection setups they serve: how *)
(* protocol handlers and the listener are spawned, registered and          *)
(* published, how a new connection passes through the handlers' channels,  *)
(* and how shut_down takes the tasks over, winds them down or aborts them. *)
(*                                                                         *)
(* A send into a handler's channel has two steps, the permit and the push, *)
(* since the channel may be closed or dropped between them.  The wait of   *)
(* shut_down for connections and hooks is the subject of Lifecycle; the    *)
(* reservation around a setup is the subject of Connections.               *)
(*                                                                         *)
(* An operator D_fault, placed before D, is a faulty variant of D: what a  *)
(* plausible mistake in that code would do.  Next does not use it.         *)
(***************************************************************************)
EXTENDS Naturals, Sequences, FiniteSets

CONSTANTS
    Conn,         \* connection setups
    MaxCalls,     \* calls of shut_down
    Pipeline,     \* the setup protocols, in the order of enable_protocols
    Capacity,     \* of a handler's channel: Config::max_connecting
    MaxToggles,   \* calls of toggle_listener
    Programs      \* the programs to consider: the tasks they enable, their calls of shut_down

Protocols == {Pipeline[i] : i \in 1 .. Len(Pipeline)}
NodeTask == Protocols \cup {"Listener"}

\* The calls of shut_down, in the order they begin.
Caller == 1 .. MaxCalls

ASSUME SetupAssumption ==
    /\ Pipeline \in Seq(STRING)
    /\ \A i \in 1 .. Len(Pipeline) : Pipeline[i] = "Handshake" => i = 1
    /\ "Listener" \notin Protocols
    /\ Programs \subseteq [tasks : SUBSET NodeTask, calls : Caller]
    /\ {Capacity, MaxToggles, MaxCalls} \subseteq Nat \ {0}

VARIABLES
    program,      \* one of the Programs; never changes
    shutdown,     \* ShutdownState::flag
    signalled,    \* ShutdownState::signal_handlers was called
    tasks,        \* the registered tasks (InnerNode::tasks)
    task,         \* what became of each task
    doomed,       \* tasks whose handle was aborted
    enabling,     \* the enable_* future, or the toggle_listener one, of each task
    slots,        \* the published protocols
    listening,    \* listening_addr is Some
    toggles,      \* calls of toggle_listener so far
    calls,        \* the calls of shut_down
    owned,        \* the task guards of each
    at,           \* each setup, as enable_protocols sees it
    next,         \* the place in the pipeline it has come to
    stream,       \* the connection's stream: whole, split or missing
    job,          \* its request, as the handler sees it
    seen,         \* history: the protocols published when the setup began
    served        \* history: the protocols that were applied to it

taskVars == <<tasks, task, doomed>>
nodeVars == <<enabling, slots, listening, toggles>>
shutVars == <<shutdown, signalled, calls, owned>>
setupVars == <<at, next, stream, job, seen, served>>
vars == <<program, taskVars, nodeVars, shutVars, setupVars>>
nodeStateVars == <<taskVars, nodeVars, shutVars, setupVars>>

Alive == {"spawned", "running", "draining"}
To(f, x, v) == [f EXCEPT ![x] = v]

\* The handler a setup is at.
At(c) == Pipeline[next[c]]
Jobs(p, s) == {c \in Conn : job[c] = s /\ At(c) = p}
Sending(p) == {c \in Conn : at[c] = "sending" /\ At(c) = p}

\* A handler's channel no longer accepts requests.
Closed(p) == task[p] \in {"draining", "exited", "aborted"}

-----------------------------------------------------------------------------
(* Tasks: from the spawn to the registration. *)

\* A registration that does not look at the shutdown flag.
register_task_unchecked(k) ==
    /\ tasks' = tasks \cup {k}
    /\ UNCHANGED doomed

\* register_task, under the tasks lock.
register_task(k) ==
    IF shutdown THEN doomed' = doomed \cup {k} /\ UNCHANGED tasks
                ELSE tasks' = tasks \cup {k} /\ UNCHANGED doomed

\* install_protocol_handler, up to the readiness await.  (A task whose enable was dropped
\* is gone before the next attempt.)
Enable(p) ==
    /\ p \in program.tasks
    /\ enabling[p] = "idle"
    /\ task[p] \notin Alive
    /\ task' = To(task, p, "spawned")
    /\ doomed' = doomed \ {p}
    /\ enabling' = To(enabling, p, "awaiting")
    /\ UNCHANGED <<tasks, slots, listening, toggles, shutVars, setupVars>>

\* A task's first poll: it reports to whoever spawned it, or finds them gone.
TaskStarts(k) ==
    /\ task[k] = "spawned"
    /\ task' = To(task, k, IF enabling[k] = "awaiting" THEN "running" ELSE "exited")
    /\ UNCHANGED <<tasks, doomed, nodeVars, shutVars, setupVars>>

\* The task has reported; its guard hands it over to the node.
Register(k) ==
    /\ enabling[k] = "awaiting"
    /\ task[k] # "spawned"
    /\ register_task(k)
    /\ enabling' = To(enabling, k, IF shutdown THEN "idle" ELSE "registered")
    /\ UNCHANGED <<task, slots, listening, toggles, shutVars, setupVars>>

\* The protocol becomes reachable.
Publish(p) ==
    /\ enabling[p] = "registered"
    /\ slots' = slots \cup {p}
    /\ enabling' = To(enabling, p, "done")
    /\ UNCHANGED <<taskVars, listening, toggles, shutVars, setupVars>>

\* The enable_* or toggle_listener future is dropped; UnregisteredTask aborts the task.
DropEnable(k) ==
    /\ enabling[k] = "awaiting"
    /\ doomed' = doomed \cup {k}
    /\ enabling' = To(enabling, k, "idle")
    /\ UNCHANGED <<tasks, task, slots, listening, toggles, shutVars, setupVars>>

\* An aborted task ends at an await.  A handler's receiver and its JoinSet go with it:
\* what is in the channel at that moment is dropped, and so are the running setups.
TaskAborted(k) ==
    /\ k \in doomed
    /\ task[k] \in Alive
    /\ task' = To(task, k, "aborted")
    /\ job' = [c \in Conn |-> IF job[c] \in {"queued", "running"} /\ At(c) = k
                              THEN "dropped" ELSE job[c]]
    /\ UNCHANGED <<tasks, doomed, nodeVars, shutVars, at, next, stream, seen, served>>

-----------------------------------------------------------------------------
(* The listener.  toggle_listener holds the listening_addr write guard throughout. *)

AddrLocked == enabling["Listener"] \in {"awaiting", "registered"}

\* The socket is bound, and start_listening spawns the accept loop.  (A listener that was
\* toggled off is gone by then; the bind may fail, which changes nothing.)
ToggleOn ==
    /\ "Listener" \in program.tasks
    /\ ~AddrLocked /\ ~listening
    /\ toggles < MaxToggles
    /\ task["Listener"] \notin Alive
    /\ toggles' = toggles + 1
    /\ task' = To(task, "Listener", "spawned")
    /\ doomed' = doomed \ {"Listener"}
    /\ enabling' = To(enabling, "Listener", "awaiting")
    /\ UNCHANGED <<tasks, slots, listening, shutVars, setupVars>>

\* Registered: the address is set, and the guard released.
ListenerStarted ==
    /\ enabling["Listener"] = "registered"
    /\ enabling' = To(enabling, "Listener", "idle")
    /\ listening' = TRUE
    /\ UNCHANGED <<taskVars, slots, toggles, shutVars, setupVars>>

\* Without a registered task there is a shutdown, and the address is left to it.
ToggleOff ==
    /\ ~AddrLocked /\ listening
    /\ toggles < MaxToggles
    /\ toggles' = toggles + 1
    /\ IF "Listener" \in tasks
       THEN /\ tasks' = tasks \ {"Listener"}
            /\ doomed' = doomed \cup {"Listener"}
            /\ listening' = FALSE
       ELSE UNCHANGED <<tasks, doomed, listening>>
    /\ UNCHANGED <<task, enabling, slots, shutVars, setupVars>>

-----------------------------------------------------------------------------
(* A new connection in enable_protocols. *)

\* A protocol whose handler is gone passes for one that is not enabled.
EnableProtocol_skips_closed(c) ==
    /\ at[c] \in {"idle", "next"}
    /\ seen' = IF at[c] = "idle" THEN To(seen, c, slots) ELSE seen
    /\ IF next[c] > Len(Pipeline)
       THEN at' = To(at, c, "ok") /\ UNCHANGED <<next, stream>>
       ELSE /\ stream' = IF next[c] > 1 /\ stream[c] = "whole"
                         THEN To(stream, c, "split") ELSE stream
            /\ \/ /\ At(c) \notin slots \/ Closed(At(c))
                  /\ at' = To(at, c, "next")
                  /\ next' = To(next, c, next[c] + 1)
               \/ /\ At(c) \in slots /\ ~Closed(At(c))
                  /\ Cardinality(Jobs(At(c), "queued") \cup Sending(At(c))) < Capacity
                  /\ at' = To(at, c, "sending")
                  /\ UNCHANGED next
    /\ UNCHANGED <<taskVars, nodeVars, shutVars, job, served>>

\* One protocol of the pipeline: it is skipped when it is not enabled; otherwise the
\* request needs a permit of the channel, and fails when that is closed.  The stream is
\* split after the handshake.
EnableProtocol(c) ==
    /\ at[c] \in {"idle", "next"}
    /\ seen' = IF at[c] = "idle" THEN To(seen, c, slots) ELSE seen
    /\ IF next[c] > Len(Pipeline)
       THEN at' = To(at, c, "ok") /\ UNCHANGED <<next, stream>>
       ELSE /\ stream' = IF next[c] > 1 /\ stream[c] = "whole"
                         THEN To(stream, c, "split") ELSE stream
            /\ \/ /\ At(c) \notin slots
                  /\ at' = To(at, c, "next")
                  /\ next' = To(next, c, next[c] + 1)
               \/ /\ At(c) \in slots /\ Closed(At(c))
                  /\ at' = To(at, c, "shutting_down")
                  /\ UNCHANGED next
               \/ /\ At(c) \in slots /\ ~Closed(At(c))
                  /\ Cardinality(Jobs(At(c), "queued") \cup Sending(At(c))) < Capacity
                  /\ at' = To(at, c, "sending")
                  /\ UNCHANGED next
    /\ UNCHANGED <<taskVars, nodeVars, shutVars, job, served>>

\* The push; a receiver that is gone does not see it, and does not drop it either.
Push(c) ==
    /\ at[c] = "sending"
    /\ at' = To(at, c, "waiting")
    /\ job' = To(job, c, IF task[At(c)] \in {"exited", "aborted"} THEN "stranded" ELSE "queued")
    /\ UNCHANGED <<taskVars, nodeVars, shutVars, next, stream, seen, served>>

\* The response, or the drop of the request.
Response(c) ==
    /\ at[c] = "waiting"
    /\ job[c] \in {"answered", "failed", "dropped"}
    /\ at' = To(at, c, CASE job[c] = "answered" -> "next"
                         [] job[c] = "failed" -> "failed"
                         [] job[c] = "dropped" -> "shutting_down")
    /\ next' = IF job[c] = "answered" THEN To(next, c, next[c] + 1) ELSE next
    /\ served' = IF job[c] = "answered" THEN To(served, c, served[c] \cup {At(c)}) ELSE served
    /\ job' = To(job, c, "none")
    /\ UNCHANGED <<taskVars, nodeVars, shutVars, stream, seen>>

\* A wait that only the handler can end.
GraceExpires_never(c) ==
    /\ FALSE
    /\ UNCHANGED nodeStateVars

\* await_handler_response gives up some time after the channel was closed.
GraceExpires(c) ==
    /\ at[c] = "waiting"
    /\ Closed(At(c))
    /\ at' = To(at, c, "shutting_down")
    /\ UNCHANGED <<taskVars, nodeVars, shutVars, next, stream, job, seen, served>>

\* The connect future is dropped; its request, if it was sent, runs on.
CancelConnect(c) ==
    /\ at[c] \in {"waiting", "next"}
    /\ at' = To(at, c, "cancelled")
    /\ UNCHANGED <<taskVars, nodeVars, shutVars, next, stream, job, seen, served>>

-----------------------------------------------------------------------------
(* run_setup_handler_loop, and the setups it spawns. *)

\* recv: the request becomes a setup task, or is failed by a drain.
HandlerTakes(p, c) ==
    /\ c \in Jobs(p, "queued")
    /\ task[p] \in {"running", "draining"}
    /\ job' = To(job, c, IF task[p] = "running" THEN "running" ELSE "dropped")
    /\ UNCHANGED <<taskVars, nodeVars, shutVars, at, next, stream, seen, served>>

\* The shutdown signal, which is looked at only when there is nothing to receive.
HandlerDrains(p) ==
    /\ task[p] = "running"
    /\ signalled
    /\ Jobs(p, "queued") = {}
    /\ task' = To(task, p, "draining")
    /\ UNCHANGED <<tasks, doomed, nodeVars, shutVars, setupVars>>

\* recv returns None: closed, empty, and no send is under way.  The setup tasks that are
\* still running are aborted with the JoinSet.
HandlerExits(p) ==
    /\ task[p] = "draining"
    /\ Jobs(p, "queued") = {} /\ Sending(p) = {}
    /\ task' = To(task, p, "exited")
    /\ job' = [c \in Conn |-> IF c \in Jobs(p, "running") THEN "dropped" ELSE job[c]]
    /\ UNCHANGED <<tasks, doomed, nodeVars, shutVars, at, next, stream, seen, served>>

\* A panic that takes the response with it.
SetupFails_uncaught(c) ==
    /\ job[c] = "running"
    /\ job' = To(job, c, "dropped")
    /\ UNCHANGED <<taskVars, nodeVars, shutVars, at, next, stream, seen, served>>

\* handle_new_connection answers with an error: the handshake failed, panicked or timed
\* out, a codec panicked, or the handshake did not give the stream back.
SetupFails(c) ==
    /\ job[c] = "running"
    /\ job' = To(job, c, "failed")
    /\ UNCHANGED <<taskVars, nodeVars, shutVars, at, next, stream, seen, served>>

\* It answers with the connection.  A handshake may take the stream, and give it back in
\* halves or not at all; Reading and Writing need their halves.
SetupSucceeds(c) ==
    /\ job[c] = "running"
    /\ job' = To(job, c, "answered")
    /\ IF At(c) = "Handshake"
       THEN \E s \in {"whole", "split", "missing"} : stream' = To(stream, c, s)
       ELSE stream[c] = "split" /\ UNCHANGED stream
    /\ UNCHANGED <<taskVars, nodeVars, shutVars, at, next, seen, served>>

-----------------------------------------------------------------------------
(* shut_down. *)

Begin(s) ==
    /\ calls[s] = "idle"
    /\ s <= program.calls
    /\ \A r \in 1 .. s - 1 : calls[r] # "idle"
    /\ calls' = To(calls, s, "begun")
    /\ shutdown' = TRUE
    /\ UNCHANGED <<signalled, owned, taskVars, nodeVars, setupVars>>

\* The tasks are taken out of the node, into guards; the listener's is dropped at once.
TakeTasks(s) ==
    /\ calls[s] = "begun"
    /\ calls' = To(calls, s, "taken")
    /\ owned' = To(owned, s, tasks \ {"Listener"})
    /\ doomed' = doomed \cup (tasks \cap {"Listener"})
    /\ tasks' = {}
    /\ UNCHANGED <<shutdown, signalled, task, nodeVars, setupVars>>

\* Connections and hooks have been waited for.
SignalHandlers(s) ==
    /\ calls[s] = "taken"
    /\ calls' = To(calls, s, "signalled")
    /\ signalled' = TRUE
    /\ UNCHANGED <<shutdown, owned, taskVars, nodeVars, setupVars>>

\* The handlers are waited for until the deadline, and aborted.
JoinHandlers(s) ==
    /\ calls[s] = "signalled"
    /\ calls' = To(calls, s, "clearing")
    /\ doomed' = doomed \cup owned[s]
    /\ owned' = To(owned, s, {})
    /\ UNCHANGED <<shutdown, signalled, tasks, task, nodeVars, setupVars>>

\* The write guard of the address is awaited.
ClearAddr(s) ==
    /\ calls[s] = "clearing"
    /\ ~AddrLocked
    /\ calls' = To(calls, s, "returned")
    /\ listening' = FALSE
    /\ UNCHANGED <<shutdown, signalled, owned, taskVars, enabling, slots, toggles, setupVars>>

\* A dropped shut_down that forgets its handles.
CancelShutdown_detaches(s) ==
    /\ calls[s] \in {"taken", "signalled", "clearing"}
    /\ calls' = To(calls, s, "cancelled")
    /\ owned' = To(owned, s, {})
    /\ UNCHANGED <<shutdown, signalled, taskVars, nodeVars, setupVars>>

\* The shut_down future is dropped, and its guards with it.
CancelShutdown(s) ==
    /\ calls[s] \in {"taken", "signalled", "clearing"}
    /\ calls' = To(calls, s, "cancelled")
    /\ doomed' = doomed \cup owned[s]
    /\ owned' = To(owned, s, {})
    /\ UNCHANGED <<shutdown, signalled, tasks, task, nodeVars, setupVars>>

-----------------------------------------------------------------------------
Init ==
    /\ program \in Programs
    /\ shutdown = FALSE /\ signalled = FALSE /\ listening = FALSE
    /\ tasks = {} /\ doomed = {} /\ slots = {}
    /\ task = [k \in NodeTask |-> "none"]
    /\ enabling = [k \in NodeTask |-> "idle"]
    /\ toggles = 0
    /\ calls = [s \in Caller |-> "idle"]
    /\ owned = [s \in Caller |-> {}]
    /\ at = [c \in Conn |-> "idle"]
    /\ next = [c \in Conn |-> 1]
    /\ stream = [c \in Conn |-> "whole"]
    /\ job = [c \in Conn |-> "none"]
    /\ seen = [c \in Conn |-> {}]
    /\ served = [c \in Conn |-> {}]

\* What the runtime drives by itself, once it was begun.
TaskStep(k) ==
    \/ TaskStarts(k) \/ Register(k) \/ TaskAborted(k)
    \/ k \in Protocols /\ Publish(k)
    \/ k = "Listener" /\ ListenerStarted

HandlerStep(p) ==
    \/ \E c \in Conn : HandlerTakes(p, c)
    \/ HandlerDrains(p) \/ HandlerExits(p)

ConnStep(c) == EnableProtocol(c) \/ Push(c) \/ Response(c) \/ GraceExpires(c)

ShutStep(s) == TakeTasks(s) \/ SignalHandlers(s) \/ JoinHandlers(s) \/ ClearAddr(s)

Next ==
    /\ \/ \E p \in Protocols : Enable(p) \/ HandlerStep(p)
       \/ \E k \in NodeTask : TaskStep(k) \/ DropEnable(k)
       \/ ToggleOn \/ ToggleOff
       \/ \E c \in Conn : ConnStep(c) \/ CancelConnect(c) \/ SetupSucceeds(c) \/ SetupFails(c)
       \/ \E s \in Caller : Begin(s) \/ ShutStep(s) \/ CancelShutdown(s)
    /\ UNCHANGED program

\* The runtime polls every task and future that can make progress; a setup task ends, in
\* the handshake's case by its timeout; and a grace period expires.
Fairness ==
    /\ \A k \in NodeTask : WF_nodeStateVars(TaskStep(k))
    /\ \A p \in Protocols : WF_nodeStateVars(HandlerStep(p))
    /\ \A c \in Conn : WF_nodeStateVars(ConnStep(c)) /\ WF_nodeStateVars(SetupFails(c))
    /\ \A s \in Caller : WF_nodeStateVars(ShutStep(s))

Spec == Init /\ [][Next]_vars

FairSpec == Spec /\ Fairness

-----------------------------------------------------------------------------
(* Properties. *)

\* The values of the variables.
TypeOK ==
    /\ {shutdown, signalled, listening} \subseteq BOOLEAN
    /\ tasks \subseteq NodeTask /\ doomed \subseteq NodeTask /\ slots \subseteq Protocols
    /\ task \in [NodeTask -> Alive \cup {"none", "exited", "aborted"}]
    /\ enabling \in [NodeTask -> {"idle", "awaiting", "registered", "done"}]
    /\ toggles \in 0 .. MaxToggles
    /\ calls \in [Caller -> {"idle", "begun", "taken", "signalled", "clearing", "returned",
                             "cancelled"}]
    /\ owned \in [Caller -> SUBSET Protocols]
    /\ at \in [Conn -> {"idle", "next", "sending", "waiting", "ok", "failed", "shutting_down",
                        "cancelled"}]
    /\ next \in [Conn -> 1 .. Len(Pipeline) + 1]
    /\ stream \in [Conn -> {"whole", "split", "missing"}]
    /\ job \in [Conn -> {"none", "queued", "stranded", "running", "answered", "failed",
                         "dropped"}]
    /\ seen \in [Conn -> SUBSET Protocols] /\ served \in [Conn -> SUBSET Protocols]

\* "a task nothing owns keeps running unreachably, holding a Node clone": a task that
\* runs is registered with the node, held by a guard (of an enable_*, of toggle_listener
\* or of a shut_down), or aborted, whichever of those futures is dropped and when.
TaskOwned ==
    \A k \in NodeTask : task[k] \in Alive =>
        \/ k \in tasks \cup doomed
        \/ enabling[k] = "awaiting"
        \/ \E s \in Caller : k \in owned[s]

\* A protocol that is published has its handler, registered and serving, until the node
\* shuts down.
HandlerBehindSlot ==
    \A p \in slots : ~shutdown => p \in tasks /\ task[p] = "running"

\* "all of which mean the node is shutting down": a setup that fails with ShuttingDown,
\* which callers are told to take as permanent, does so on a node that shuts down.
ShuttingDownIsTrue == \A c \in Conn : at[c] = "shutting_down" => shutdown

\* A handler that winds down by itself leaves no request behind: only one that is aborted
\* strands the message of a send that was under way.
StrandFree ==
    \A c \in Conn : job[c] \in {"queued", "stranded"} => task[At(c)] # "exited"

\* A connection that completes its setup went through every protocol that was enabled
\* when the setup began, and those that need its stream had it: neither a handler that is
\* winding down nor a handshake that loses the stream lets it pass.
ProtocolsApplied ==
    \A c \in Conn : at[c] = "ok" =>
        /\ seen[c] \subseteq served[c]
        /\ served[c] \subseteq {"Handshake"} \/ stream[c] = "split"

\* The listening address is the one of a registered listener, and once a shut_down has
\* returned there is none, whatever toggles were under way.
ListenerMatchesAddr ==
    /\ (~shutdown /\ ~AddrLocked) => (listening <=> "Listener" \in tasks)
    /\ (\E s \in Caller : calls[s] = "returned") => ~listening

\* A call of shut_down that has begun set the flag before anything else, and holds guards
\* only once it has taken the tasks.
ShutdownBegun ==
    /\ signalled => shutdown
    /\ \A s \in Caller : /\ calls[s] # "idle" => shutdown
                         /\ calls[s] \in {"idle", "begun"} => owned[s] = {}

\* Until a shutdown, a task stays as its enable left it, and nothing aborts it.
TasksKept ==
    \A k \in NodeTask :
        /\ enabling[k] \in {"registered", "done"} => task[k] # "spawned"
        /\ ~shutdown /\ enabling[k] = "awaiting" =>
              k \notin doomed /\ task[k] \in {"spawned", "running"}
        /\ ~shutdown /\ enabling[k] \in {"registered", "done"} =>
              k \in tasks /\ k \notin doomed /\ task[k] = "running"

\* A published protocol is never enabled again.
SlotsDone == \A p \in slots : enabling[p] = "done"

\* A request is at a published protocol, and its state agrees with that of the handler.
RequestsServed ==
    \A c \in Conn :
        /\ at[c] \in {"sending", "waiting"} \/ job[c] # "none" =>
              next[c] \in 1 .. Len(Pipeline) /\ At(c) \in slots
        /\ at[c] \in {"idle", "next", "sending"} => job[c] = "none"
        /\ at[c] = "sending" => task[At(c)] # "exited"
        /\ job[c] = "queued" => task[At(c)] \notin {"exited", "aborted"}
        /\ job[c] = "stranded" => task[At(c)] = "aborted"
        /\ job[c] = "dropped" => shutdown

\* The part of the pipeline a setup has behind it was applied as far as it was enabled
\* when the setup began, and what was applied after the handshake has the stream's halves.
PipelineApplied ==
    \A c \in Conn :
        /\ at[c] = "idle" => next[c] = 1
        /\ at[c] = "ok" => next[c] = Len(Pipeline) + 1
        /\ next[c] = 1 => served[c] = {}
        /\ seen[c] \subseteq slots
        /\ \A i \in 1 .. Len(Pipeline) :
              i < next[c] /\ Pipeline[i] \in seen[c] => Pipeline[i] \in served[c]
        /\ job[c] = "answered" /\ At(c) # "Handshake" => stream[c] = "split"
        /\ served[c] \subseteq {"Handshake"} \/ stream[c] = "split"

\* How far a toggle has come, and what the address and the task list say meanwhile.
ListenerAgrees ==
    /\ enabling["Listener"] # "done"
    /\ ~shutdown => /\ listening <=> enabling["Listener"] = "idle" /\ "Listener" \in tasks
                    /\ enabling["Listener"] = "awaiting" => "Listener" \notin tasks
    /\ (\E s \in Caller : calls[s] = "returned") =>
          ~listening /\ enabling["Listener"] # "registered"

\* The inductive invariant: what the futures and tasks that own the node's tasks know of
\* one another, from install_protocol_handler to the end of shut_down.
IInv ==
    /\ TypeOK /\ TaskOwned /\ ShutdownBegun /\ TasksKept /\ SlotsDone
    /\ RequestsServed /\ PipelineApplied /\ ShuttingDownIsTrue /\ ListenerAgrees

\* A setup never hangs: it is registered, fails, or was cancelled, even if its request was
\* stranded in the channel of an aborted handler.
SetupResolves ==
    \A c \in Conn : at[c] \in {"sending", "waiting", "next"} ~>
        at[c] \in {"ok", "failed", "shutting_down", "cancelled"}

\* Once a shutdown has begun, every task of the node ends, even if the shut_down future
\* is dropped and tasks are just being enabled.
TasksEnd ==
    \A k \in NodeTask : (\E s \in Caller : calls[s] = "taken") ~>
        (task[k] \notin Alive \/ enabling[k] = "awaiting")

=============================================================================
