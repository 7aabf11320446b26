---------------------------- MODULE SetupProofs ----------------------------
(* Theorems about Setup, for every pipeline, every capacity, any number of    *)
(* setups, of shut_down calls and of toggles: who owns the node's tasks, and  *)
(* what a setup may conclude from a handler that does not answer.             *)
EXTENDS Setup, TLAPS

\* A leaf that needs no arithmetic cites Zenon. The others are given to SMT, with
\* time for the longer ones, and then to Zenon.
USE SMTT(30), Zenon

-----------------------------------------------------------------------------
\* A place in the pipeline is the one of a protocol.
LEMMA PipelineProtocols ==
    /\ Len(Pipeline) \in Nat
    /\ \A i \in 1 .. Len(Pipeline) : Pipeline[i] \in Protocols
    /\ Protocols \subseteq NodeTask /\ "Listener" \in NodeTask
    /\ \A p \in Protocols : p # "Listener"
BY SetupAssumption DEF Protocols, NodeTask

\* A new node satisfies the invariant.
LEMMA InitInv == Init => IInv
<1> SUFFICES ASSUME Init PROVE IInv
    BY Zenon
<1>1. TypeOK
  <2>1. {shutdown, signalled, listening} \subseteq BOOLEAN
        BY Zenon DEF Init
  <2>2. next \in [Conn -> 1 .. Len(Pipeline) + 1]
        BY PipelineProtocols DEF Init
  <2> QED
        BY <2>1, <2>2, PipelineProtocols, SetupAssumption DEF Init, TypeOK, Alive
<1>2. TaskOwned /\ ShutdownBegun /\ TasksKept /\ SlotsDone
      BY Zenon DEF Init, TaskOwned, ShutdownBegun, TasksKept, SlotsDone, Alive
<1>3. RequestsServed /\ PipelineApplied /\ ShuttingDownIsTrue
      BY Zenon DEF Init, RequestsServed, PipelineApplied, ShuttingDownIsTrue
<1>4. ListenerAgrees
      BY PipelineProtocols, Zenon DEF Init, ListenerAgrees
<1> QED
      BY <1>1, <1>2, <1>3, <1>4, Zenon DEF IInv


\* Every step keeps the variables well-typed.
LEMMA NextType ==
    ASSUME IInv, [Next]_vars
    PROVE  TypeOK'
<1> USE DEF To, taskVars, nodeVars, shutVars, setupVars
<1>0. /\ TypeOK /\ RequestsServed
      /\ Protocols \subseteq NodeTask /\ "Listener" \in NodeTask \ Protocols
      BY PipelineProtocols, Zenon DEF IInv
<1>1. ASSUME NEW p \in Protocols, Enable(p)
      PROVE  TypeOK'
      BY <1>0, <1>1, Zenon DEF Enable, Alive, TypeOK
<1>2. ASSUME NEW p \in Protocols, NEW c \in Conn, HandlerTakes(p, c)
      PROVE  TypeOK'
      BY <1>0, <1>2, Zenon DEF HandlerTakes, Jobs, At, TypeOK, Alive
<1>3. ASSUME NEW p \in Protocols, HandlerDrains(p)
      PROVE  TypeOK'
      BY <1>0, <1>3, Zenon DEF HandlerDrains, Jobs, At, TypeOK, Alive
<1>4. ASSUME NEW p \in Protocols, HandlerExits(p)
      PROVE  TypeOK'
      BY <1>0, <1>4, Zenon DEF HandlerExits, Jobs, Sending, At, TypeOK, Alive
<1>5. ASSUME NEW k \in NodeTask, TaskStarts(k)
      PROVE  TypeOK'
      BY <1>0, <1>5, Zenon DEF TaskStarts, TypeOK, Alive
<1>6. ASSUME NEW k \in NodeTask, Register(k)
      PROVE  TypeOK'
      BY <1>0, <1>6 DEF Register, register_task, TypeOK, Alive
<1>7. ASSUME NEW k \in NodeTask, TaskAborted(k)
      PROVE  TypeOK'
      BY <1>0, <1>7, Zenon DEF TaskAborted, At, Alive, TypeOK
<1>8. ASSUME NEW p \in Protocols, Publish(p)
      PROVE  TypeOK'
      BY <1>0, <1>8 DEF Publish, TypeOK, Alive
<1>9. CASE ListenerStarted
      BY <1>0, <1>9, Zenon DEF ListenerStarted, TypeOK, Alive
<1>10. ASSUME NEW k \in NodeTask, DropEnable(k)
      PROVE  TypeOK'
      BY <1>0, <1>10, Zenon DEF DropEnable, TypeOK, Alive
<1>11. CASE ToggleOn
      BY <1>0, <1>11, SetupAssumption DEF ToggleOn, TypeOK, Alive
<1>12. CASE ToggleOff
  <2>1. {shutdown, signalled, listening}' \subseteq BOOLEAN
        BY <1>0, <1>12, Zenon DEF ToggleOff, TypeOK
  <2>2. toggles' \in 0 .. MaxToggles
        BY <1>0, <1>12, SetupAssumption DEF ToggleOff, TypeOK
  <2>3. tasks' \subseteq NodeTask /\ doomed' \subseteq NodeTask
        BY <1>0, <1>12, ZenonT(30) DEF ToggleOff, TypeOK
  <2> QED
        BY <1>0, <1>12, <2>1, <2>2, <2>3, Zenon DEF ToggleOff, TypeOK
<1>13. ASSUME NEW c \in Conn, EnableProtocol(c)
      PROVE  TypeOK'
  <2>1. seen' \in [Conn -> SUBSET Protocols]
        BY <1>0, <1>13, Zenon DEF EnableProtocol, TypeOK
  <2>2. stream' \in [Conn -> {"whole", "split", "missing"}]
    <3>1. stream' = stream \/ stream' = To(stream, c, "split")
          BY <1>13, Zenon DEF EnableProtocol
    <3> QED
          BY <1>0, <3>1, Zenon DEF TypeOK
  <2>3. next' \in [Conn -> 1 .. Len(Pipeline) + 1]
    <3>1. next' = next \/ (next[c] <= Len(Pipeline) /\ next' = To(next, c, next[c] + 1))
          BY <1>0, <1>13, PipelineProtocols DEF EnableProtocol, TypeOK
    <3>2. next[c] <= Len(Pipeline) => next[c] + 1 \in 1 .. Len(Pipeline) + 1
          BY <1>0, PipelineProtocols DEF TypeOK
    <3> QED
          BY <1>0, <3>1, <3>2, Zenon DEF TypeOK
  <2>4. \E v \in {"ok", "next", "shutting_down", "sending"} : at' = To(at, c, v)
        BY <1>13, Zenon DEF EnableProtocol
  <2>5. UNCHANGED <<taskVars, nodeVars, shutVars, job, served>>
        BY <1>13, Zenon DEF EnableProtocol
  <2> QED
        BY <1>0, <2>1, <2>2, <2>3, <2>4, <2>5 DEF TypeOK
<1>14. ASSUME NEW c \in Conn, Push(c)
      PROVE  TypeOK'
      BY <1>0, <1>14, Zenon DEF Push, At, TypeOK, Alive
<1>15. ASSUME NEW c \in Conn, Response(c)
      PROVE  TypeOK'
  <2>1. next[c] \in 1 .. Len(Pipeline) /\ At(c) \in Protocols
        BY <1>0, <1>15, PipelineProtocols, Zenon DEF Response, RequestsServed, TypeOK
  <2>2. next' \in [Conn -> 1 .. Len(Pipeline) + 1]
        BY <1>0, <1>15, <2>1, PipelineProtocols DEF Response, TypeOK
  <2>3. served' \in [Conn -> SUBSET Protocols]
        BY <1>0, <1>15, <2>1 DEF Response, TypeOK
  <2>4. \E v \in {"next", "failed", "shutting_down"} : at' = To(at, c, v)
        BY <1>15, Zenon DEF Response
  <2>5. job' = To(job, c, "none") /\ UNCHANGED <<taskVars, nodeVars, shutVars, stream, seen>>
        BY <1>15, Zenon DEF Response
  <2> QED
        BY <1>0, <2>2, <2>3, <2>4, <2>5 DEF TypeOK
<1>16. ASSUME NEW c \in Conn, GraceExpires(c)
      PROVE  TypeOK'
      BY <1>0, <1>16, Zenon DEF GraceExpires, At, Closed, TypeOK, Alive
<1>17. ASSUME NEW c \in Conn, CancelConnect(c)
      PROVE  TypeOK'
      BY <1>0, <1>17, Zenon DEF CancelConnect, TypeOK, Alive
<1>18. ASSUME NEW c \in Conn, SetupSucceeds(c)
      PROVE  TypeOK'
  <2>1. stream' \in [Conn -> {"whole", "split", "missing"}]
        BY <1>0, <1>18, ZenonT(30) DEF SetupSucceeds, TypeOK
  <2> QED
        BY <1>0, <1>18, <2>1, Zenon DEF SetupSucceeds, TypeOK
<1>19. ASSUME NEW c \in Conn, SetupFails(c)
      PROVE  TypeOK'
      BY <1>0, <1>19, Zenon DEF SetupFails, TypeOK, Alive
<1>20. ASSUME NEW s \in Caller, Begin(s)
      PROVE  TypeOK'
      BY <1>0, <1>20, Zenon DEF Begin, TypeOK, Alive
<1>21. ASSUME NEW s \in Caller, TakeTasks(s)
      PROVE  TypeOK'
  <2>1. tasks \ {"Listener"} \subseteq Protocols
        BY <1>0, Zenon DEF TypeOK, NodeTask
  <2> QED
        BY <1>0, <1>21, <2>1, Zenon DEF TakeTasks, TypeOK
<1>22. ASSUME NEW s \in Caller, SignalHandlers(s)
      PROVE  TypeOK'
      BY <1>0, <1>22, Zenon DEF SignalHandlers, TypeOK, Alive
<1>23. ASSUME NEW s \in Caller, JoinHandlers(s)
      PROVE  TypeOK'
      BY <1>0, <1>23, Zenon DEF JoinHandlers, TypeOK, Alive
<1>24. ASSUME NEW s \in Caller, ClearAddr(s)
      PROVE  TypeOK'
      BY <1>0, <1>24, Zenon DEF ClearAddr, AddrLocked, TypeOK, Alive
<1>25. ASSUME NEW s \in Caller, CancelShutdown(s)
      PROVE  TypeOK'
      BY <1>0, <1>25, Zenon DEF CancelShutdown, TypeOK, Alive
<1>26. ASSUME UNCHANGED <<shutdown, signalled, tasks, task, doomed, enabling, slots, listening, toggles, calls, owned, at, next, stream, job, seen, served>>
      PROVE  TypeOK'
      BY <1>0, <1>26, Zenon DEF TypeOK, Alive, At
<1>27. CASE UNCHANGED vars
      BY <1>27, <1>26, Zenon DEF vars
<1> QED
      BY <1>1, <1>2, <1>3, <1>4, <1>5, <1>6, <1>7, <1>8, <1>9, <1>10, <1>11, <1>12,
          <1>13, <1>14, <1>15, <1>16, <1>17, <1>18, <1>19, <1>20, <1>21, <1>22, <1>23,
          <1>24, <1>25, <1>26, <1>27, Zenon
      DEF Next, HandlerStep, TaskStep, ConnStep, ShutStep, Protocols, NodeTask

\* Only a call that has begun can go on, and the flag is never reset.
LEMMA NextBegun ==
    ASSUME IInv, [Next]_vars
    PROVE  ShutdownBegun'
<1> USE DEF To, taskVars, nodeVars, shutVars, setupVars
<1>0. /\ TypeOK /\ ShutdownBegun
      /\ Protocols \subseteq NodeTask /\ "Listener" \in NodeTask \ Protocols
      BY PipelineProtocols, Zenon DEF IInv
<1>1. ASSUME NEW s \in Caller, Begin(s)
      PROVE  ShutdownBegun'
      BY <1>0, <1>1, Zenon DEF Begin, TypeOK, ShutdownBegun
<1>2. ASSUME NEW s \in Caller, TakeTasks(s)
      PROVE  ShutdownBegun'
      BY <1>0, <1>2, Zenon DEF TakeTasks, TypeOK, ShutdownBegun
<1>3. ASSUME NEW s \in Caller, SignalHandlers(s)
      PROVE  ShutdownBegun'
      BY <1>0, <1>3, Zenon DEF SignalHandlers, TypeOK, ShutdownBegun
<1>4. ASSUME NEW s \in Caller, JoinHandlers(s)
      PROVE  ShutdownBegun'
      BY <1>0, <1>4, Zenon DEF JoinHandlers, TypeOK, ShutdownBegun
<1>5. ASSUME NEW s \in Caller, ClearAddr(s)
      PROVE  ShutdownBegun'
      BY <1>0, <1>5, Zenon DEF ClearAddr, AddrLocked, TypeOK, ShutdownBegun
<1>6. ASSUME NEW s \in Caller, CancelShutdown(s)
      PROVE  ShutdownBegun'
      BY <1>0, <1>6, Zenon DEF CancelShutdown, TypeOK, ShutdownBegun
<1>7. ASSUME UNCHANGED <<signalled, shutdown, calls, owned>>
      PROVE  ShutdownBegun'
      BY <1>0, <1>7, Zenon DEF TypeOK, ShutdownBegun
<1>8. ASSUME NEW p \in Protocols, Enable(p) \/ HandlerDrains(p) \/ HandlerExits(p) \/
             Publish(p)
      PROVE  UNCHANGED <<signalled, shutdown, calls, owned>>
      BY <1>8, Zenon DEF Enable, HandlerDrains, HandlerExits, Publish
<1>9. ASSUME NEW p \in Protocols, NEW c \in Conn, HandlerTakes(p, c)
      PROVE  UNCHANGED <<signalled, shutdown, calls, owned>>
      BY <1>9, Zenon DEF HandlerTakes
<1>10. ASSUME NEW k \in NodeTask, TaskStarts(k) \/ Register(k) \/ TaskAborted(k) \/
             DropEnable(k)
      PROVE  UNCHANGED <<signalled, shutdown, calls, owned>>
      BY <1>10, Zenon DEF TaskStarts, Register, TaskAborted, DropEnable, register_task
<1>11. ASSUME ListenerStarted \/ ToggleOn \/ ToggleOff
      PROVE  UNCHANGED <<signalled, shutdown, calls, owned>>
      BY <1>11, Zenon DEF ListenerStarted, ToggleOn, ToggleOff
<1>12. ASSUME NEW c \in Conn, EnableProtocol(c) \/ Push(c) \/ Response(c) \/
             GraceExpires(c) \/ CancelConnect(c) \/ SetupSucceeds(c) \/ SetupFails(c)
      PROVE  UNCHANGED <<signalled, shutdown, calls, owned>>
      BY <1>12, Zenon DEF EnableProtocol, Push, Response, GraceExpires, CancelConnect,
          SetupSucceeds, SetupFails
<1>13. CASE UNCHANGED vars
      BY <1>13, <1>7, Zenon DEF vars
<1> QED
      BY <1>1, <1>2, <1>3, <1>4, <1>5, <1>6, <1>7, <1>8, <1>9, <1>10, <1>11, <1>12,
          <1>13, Zenon
      DEF Next, HandlerStep, TaskStep, ConnStep, ShutStep, Protocols, NodeTask

\* A task changes hands, and is never left without an owner.
LEMMA NextOwned ==
    ASSUME IInv, [Next]_vars
    PROVE  TaskOwned'
<1> USE DEF To, taskVars, nodeVars, shutVars, setupVars
<1>0. /\ TypeOK /\ ShutdownBegun /\ TaskOwned
      /\ Protocols \subseteq NodeTask /\ "Listener" \in NodeTask \ Protocols
      BY PipelineProtocols, Zenon DEF IInv
<1>1. ASSUME NEW p \in Protocols, Enable(p)
      PROVE  TaskOwned'
      BY <1>0, <1>1 DEF Enable, Alive, TypeOK, ShutdownBegun, TaskOwned
<1>2. ASSUME NEW p \in Protocols, HandlerDrains(p)
      PROVE  TaskOwned'
      BY <1>0, <1>2 DEF HandlerDrains, Jobs, At, TypeOK, ShutdownBegun, TaskOwned, Alive
<1>3. ASSUME NEW p \in Protocols, HandlerExits(p)
      PROVE  TaskOwned'
      BY <1>0, <1>3 DEF HandlerExits, Jobs, Sending, At, TypeOK, ShutdownBegun,
          TaskOwned, Alive
<1>4. ASSUME NEW k \in NodeTask, TaskStarts(k)
      PROVE  TaskOwned'
      BY <1>0, <1>4 DEF TaskStarts, TypeOK, ShutdownBegun, TaskOwned, Alive
<1>5. ASSUME NEW k \in NodeTask, Register(k)
      PROVE  TaskOwned'
      BY <1>0, <1>5 DEF Register, register_task, TypeOK, ShutdownBegun, TaskOwned, Alive
<1>6. ASSUME NEW k \in NodeTask, TaskAborted(k)
      PROVE  TaskOwned'
      BY <1>0, <1>6, Zenon DEF TaskAborted, At, Alive, TypeOK, ShutdownBegun, TaskOwned
<1>7. ASSUME NEW p \in Protocols, Publish(p)
      PROVE  TaskOwned'
      BY <1>0, <1>7, Zenon DEF Publish, TypeOK, ShutdownBegun, TaskOwned, Alive
<1>8. CASE ListenerStarted
      BY <1>0, <1>8, Zenon DEF ListenerStarted, TypeOK, ShutdownBegun, TaskOwned, Alive
<1>9. ASSUME NEW k \in NodeTask, DropEnable(k)
      PROVE  TaskOwned'
      BY <1>0, <1>9, Zenon DEF DropEnable, TypeOK, ShutdownBegun, TaskOwned, Alive
<1>10. CASE ToggleOn
      BY <1>0, <1>10 DEF ToggleOn, AddrLocked, TypeOK, ShutdownBegun, TaskOwned, Alive
<1>11. CASE ToggleOff
      BY <1>0, <1>11, Zenon DEF ToggleOff, AddrLocked, TypeOK, ShutdownBegun, TaskOwned, Alive
<1>12. ASSUME NEW s \in Caller, TakeTasks(s)
      PROVE  TaskOwned'
      BY <1>0, <1>12, Zenon DEF TakeTasks, TypeOK, ShutdownBegun, TaskOwned, Alive
<1>13. ASSUME NEW s \in Caller, JoinHandlers(s)
      PROVE  TaskOwned'
      BY <1>0, <1>13, Zenon DEF JoinHandlers, TypeOK, ShutdownBegun, TaskOwned, Alive
<1>14. ASSUME NEW s \in Caller, CancelShutdown(s)
      PROVE  TaskOwned'
      BY <1>0, <1>14, Zenon DEF CancelShutdown, TypeOK, ShutdownBegun, TaskOwned, Alive
<1>15. ASSUME UNCHANGED <<task, tasks, doomed, enabling, owned>>
      PROVE  TaskOwned'
      BY <1>0, <1>15, Zenon DEF TypeOK, ShutdownBegun, TaskOwned, Alive
<1>16. ASSUME NEW p \in Protocols, NEW c \in Conn, HandlerTakes(p, c)
      PROVE  UNCHANGED <<task, tasks, doomed, enabling, owned>>
      BY <1>16, Zenon DEF HandlerTakes
<1>17. ASSUME NEW c \in Conn, EnableProtocol(c) \/ Push(c) \/ Response(c) \/
             GraceExpires(c) \/ CancelConnect(c) \/ SetupSucceeds(c) \/ SetupFails(c)
      PROVE  UNCHANGED <<task, tasks, doomed, enabling, owned>>
      BY <1>17, Zenon DEF EnableProtocol, Push, Response, GraceExpires, CancelConnect,
          SetupSucceeds, SetupFails
<1>18. ASSUME NEW s \in Caller, Begin(s) \/ SignalHandlers(s) \/ ClearAddr(s)
      PROVE  UNCHANGED <<task, tasks, doomed, enabling, owned>>
      BY <1>18, Zenon DEF Begin, SignalHandlers, ClearAddr
<1>19. CASE UNCHANGED vars
      BY <1>19, <1>15, Zenon DEF vars
<1> QED
      BY <1>1, <1>2, <1>3, <1>4, <1>5, <1>6, <1>7, <1>8, <1>9, <1>10, <1>11, <1>12,
          <1>13, <1>14, <1>15, <1>16, <1>17, <1>18, <1>19, Zenon
      DEF Next, HandlerStep, TaskStep, ConnStep, ShutStep, Protocols, NodeTask

\* Before a shutdown nothing touches a task that is enabled or being enabled.
LEMMA NextKept ==
    ASSUME IInv, [Next]_vars
    PROVE  TasksKept'
<1> USE DEF To, taskVars, nodeVars, shutVars, setupVars
<1>0. /\ TypeOK /\ ShutdownBegun /\ TasksKept /\ ListenerAgrees
      /\ Protocols \subseteq NodeTask /\ "Listener" \in NodeTask \ Protocols
      BY PipelineProtocols, Zenon DEF IInv
<1>1. ASSUME NEW p \in Protocols, Enable(p)
      PROVE  TasksKept'
      BY <1>0, <1>1 DEF Enable, Alive, TypeOK, ShutdownBegun, TasksKept, ListenerAgrees
<1>2. ASSUME NEW p \in Protocols, HandlerDrains(p)
      PROVE  TasksKept'
      BY <1>0, <1>2, Zenon DEF HandlerDrains, Jobs, At, TypeOK, ShutdownBegun, TasksKept,
          ListenerAgrees, Alive
<1>3. ASSUME NEW p \in Protocols, HandlerExits(p)
      PROVE  TasksKept'
      BY <1>0, <1>3 DEF HandlerExits, Jobs, Sending, At, TypeOK, ShutdownBegun,
          TasksKept, ListenerAgrees, Alive
<1>4. ASSUME NEW k \in NodeTask, TaskStarts(k)
      PROVE  TasksKept'
      BY <1>0, <1>4 DEF TaskStarts, TypeOK, ShutdownBegun, TasksKept, ListenerAgrees,
          Alive
<1>5. ASSUME NEW k \in NodeTask, Register(k)
      PROVE  TasksKept'
      BY <1>0, <1>5 DEF Register, register_task, TypeOK, ShutdownBegun, TasksKept,
          ListenerAgrees, Alive
<1>6. ASSUME NEW k \in NodeTask, TaskAborted(k)
      PROVE  TasksKept'
      BY <1>0, <1>6 DEF TaskAborted, At, Alive, TypeOK, ShutdownBegun, TasksKept,
          ListenerAgrees
<1>7. ASSUME NEW p \in Protocols, Publish(p)
      PROVE  TasksKept'
      BY <1>0, <1>7 DEF Publish, TypeOK, ShutdownBegun, TasksKept, ListenerAgrees, Alive
<1>8. CASE ListenerStarted
      BY <1>0, <1>8 DEF ListenerStarted, TypeOK, ShutdownBegun, TasksKept,
          ListenerAgrees, Alive
<1>9. ASSUME NEW k \in NodeTask, DropEnable(k)
      PROVE  TasksKept'
      BY <1>0, <1>9 DEF DropEnable, TypeOK, ShutdownBegun, TasksKept, ListenerAgrees,
          Alive
<1>10. CASE ToggleOn
      BY <1>0, <1>10 DEF ToggleOn, AddrLocked, TypeOK, ShutdownBegun, TasksKept,
          ListenerAgrees, Alive
<1>11. CASE ToggleOff
  <2>1. /\ enabling["Listener"] = "idle"
        /\ UNCHANGED <<shutdown, task, enabling>>
        BY <1>0, <1>11, Zenon DEF ToggleOff, AddrLocked, TypeOK, ListenerAgrees
  <2>2. /\ tasks \ {"Listener"} \subseteq tasks'
        /\ doomed' \subseteq doomed \cup {"Listener"}
        BY <1>11, Zenon DEF ToggleOff
  <2> QED
        BY <1>0, <2>1, <2>2, Zenon DEF TasksKept
<1>12. ASSUME NEW s \in Caller, Begin(s)
      PROVE  TasksKept'
      BY <1>0, <1>12, Zenon DEF Begin, TypeOK, ShutdownBegun, TasksKept, ListenerAgrees, Alive
<1>13. ASSUME NEW s \in Caller, TakeTasks(s)
      PROVE  TasksKept'
      BY <1>0, <1>13, Zenon DEF TakeTasks, TypeOK, ShutdownBegun, TasksKept, ListenerAgrees,
          Alive
<1>14. ASSUME NEW s \in Caller, JoinHandlers(s)
      PROVE  TasksKept'
      BY <1>0, <1>14, Zenon DEF JoinHandlers, TypeOK, ShutdownBegun, TasksKept, ListenerAgrees,
          Alive
<1>15. ASSUME NEW s \in Caller, CancelShutdown(s)
      PROVE  TasksKept'
      BY <1>0, <1>15, Zenon DEF CancelShutdown, TypeOK, ShutdownBegun, TasksKept,
          ListenerAgrees, Alive
<1>16. ASSUME UNCHANGED <<shutdown, task, tasks, doomed, enabling>>
      PROVE  TasksKept'
      BY <1>0, <1>16, Zenon DEF TypeOK, ShutdownBegun, TasksKept, ListenerAgrees, Alive
<1>17. ASSUME NEW p \in Protocols, NEW c \in Conn, HandlerTakes(p, c)
      PROVE  UNCHANGED <<shutdown, task, tasks, doomed, enabling>>
      BY <1>17, Zenon DEF HandlerTakes
<1>18. ASSUME NEW c \in Conn, EnableProtocol(c) \/ Push(c) \/ Response(c) \/
             GraceExpires(c) \/ CancelConnect(c) \/ SetupSucceeds(c) \/ SetupFails(c)
      PROVE  UNCHANGED <<shutdown, task, tasks, doomed, enabling>>
      BY <1>18, Zenon DEF EnableProtocol, Push, Response, GraceExpires, CancelConnect,
          SetupSucceeds, SetupFails
<1>19. ASSUME NEW s \in Caller, SignalHandlers(s) \/ ClearAddr(s)
      PROVE  UNCHANGED <<shutdown, task, tasks, doomed, enabling>>
      BY <1>19, Zenon DEF SignalHandlers, ClearAddr
<1>20. CASE UNCHANGED vars
      BY <1>20, <1>16, Zenon DEF vars
<1> QED
      BY <1>1, <1>2, <1>3, <1>4, <1>5, <1>6, <1>7, <1>8, <1>9, <1>10, <1>11, <1>12,
          <1>13, <1>14, <1>15, <1>16, <1>17, <1>18, <1>19, <1>20, Zenon
      DEF Next, HandlerStep, TaskStep, ConnStep, ShutStep, Protocols, NodeTask

\* A published protocol stays enabled.
LEMMA NextSlots ==
    ASSUME IInv, [Next]_vars
    PROVE  SlotsDone'
<1> USE DEF To, taskVars, nodeVars, shutVars, setupVars
<1>0. /\ TypeOK /\ SlotsDone
      /\ Protocols \subseteq NodeTask /\ "Listener" \in NodeTask \ Protocols
      BY PipelineProtocols, Zenon DEF IInv
<1>1. ASSUME NEW p \in Protocols, Enable(p)
      PROVE  SlotsDone'
      BY <1>0, <1>1 DEF Enable, Alive, TypeOK, SlotsDone
<1>2. ASSUME NEW k \in NodeTask, Register(k)
      PROVE  SlotsDone'
      BY <1>0, <1>2 DEF Register, register_task, TypeOK, SlotsDone
<1>3. ASSUME NEW p \in Protocols, Publish(p)
      PROVE  SlotsDone'
      BY <1>0, <1>3 DEF Publish, TypeOK, SlotsDone
<1>4. CASE ListenerStarted
      BY <1>0, <1>4 DEF ListenerStarted, TypeOK, SlotsDone
<1>5. ASSUME NEW k \in NodeTask, DropEnable(k)
      PROVE  SlotsDone'
      BY <1>0, <1>5 DEF DropEnable, TypeOK, SlotsDone
<1>6. CASE ToggleOn
      BY <1>0, <1>6 DEF ToggleOn, AddrLocked, TypeOK, SlotsDone
<1>7. ASSUME UNCHANGED <<slots, enabling>>
      PROVE  SlotsDone'
      BY <1>0, <1>7, Zenon DEF TypeOK, SlotsDone
<1>8. ASSUME NEW p \in Protocols, NEW c \in Conn, HandlerTakes(p, c)
      PROVE  UNCHANGED <<slots, enabling>>
      BY <1>8, Zenon DEF HandlerTakes
<1>9. ASSUME NEW p \in Protocols, HandlerDrains(p) \/ HandlerExits(p)
      PROVE  UNCHANGED <<slots, enabling>>
      BY <1>9, Zenon DEF HandlerDrains, HandlerExits
<1>10. ASSUME NEW k \in NodeTask, TaskStarts(k) \/ TaskAborted(k)
      PROVE  UNCHANGED <<slots, enabling>>
      BY <1>10, Zenon DEF TaskStarts, TaskAborted
<1>11. ASSUME ToggleOff
      PROVE  UNCHANGED <<slots, enabling>>
      BY <1>11, Zenon DEF ToggleOff
<1>12. ASSUME NEW c \in Conn, EnableProtocol(c) \/ Push(c) \/ Response(c) \/
             GraceExpires(c) \/ CancelConnect(c) \/ SetupSucceeds(c) \/ SetupFails(c)
      PROVE  UNCHANGED <<slots, enabling>>
      BY <1>12, Zenon DEF EnableProtocol, Push, Response, GraceExpires, CancelConnect,
          SetupSucceeds, SetupFails
<1>13. ASSUME NEW s \in Caller, Begin(s) \/ TakeTasks(s) \/ SignalHandlers(s) \/
             JoinHandlers(s) \/ ClearAddr(s) \/ CancelShutdown(s)
      PROVE  UNCHANGED <<slots, enabling>>
      BY <1>13, Zenon DEF Begin, TakeTasks, SignalHandlers, JoinHandlers, ClearAddr,
          CancelShutdown
<1>14. CASE UNCHANGED vars
      BY <1>14, <1>7, Zenon DEF vars
<1> QED
      BY <1>1, <1>2, <1>3, <1>4, <1>5, <1>6, <1>7, <1>8, <1>9, <1>10, <1>11, <1>12,
          <1>13, <1>14, Zenon
      DEF Next, HandlerStep, TaskStep, ConnStep, ShutStep, Protocols, NodeTask

\* The address and the task list change together.
LEMMA NextListener ==
    ASSUME IInv, [Next]_vars
    PROVE  ListenerAgrees'
<1> USE DEF To, taskVars, nodeVars, shutVars, setupVars
<1>0. /\ TypeOK /\ ShutdownBegun /\ TasksKept /\ ListenerAgrees
      /\ Protocols \subseteq NodeTask /\ "Listener" \in NodeTask \ Protocols
      BY PipelineProtocols, Zenon DEF IInv
<1>1. ASSUME NEW p \in Protocols, Enable(p)
      PROVE  ListenerAgrees'
      BY <1>0, <1>1 DEF Enable, Alive, TypeOK, ShutdownBegun, TasksKept, ListenerAgrees
<1>2. ASSUME NEW k \in NodeTask, Register(k)
      PROVE  ListenerAgrees'
      BY <1>0, <1>2 DEF Register, register_task, TypeOK, ShutdownBegun, TasksKept,
          ListenerAgrees
<1>3. ASSUME NEW p \in Protocols, Publish(p)
      PROVE  ListenerAgrees'
      BY <1>0, <1>3, Zenon DEF Publish, TypeOK, ShutdownBegun, TasksKept, ListenerAgrees
<1>4. CASE ListenerStarted
      BY <1>0, <1>4, Zenon DEF ListenerStarted, TypeOK, ShutdownBegun, TasksKept,
          ListenerAgrees
<1>5. ASSUME NEW k \in NodeTask, DropEnable(k)
      PROVE  ListenerAgrees'
      BY <1>0, <1>5, Zenon DEF DropEnable, TypeOK, ShutdownBegun, TasksKept, ListenerAgrees
<1>6. CASE ToggleOn
      BY <1>0, <1>6 DEF ToggleOn, AddrLocked, TypeOK, ShutdownBegun, TasksKept,
          ListenerAgrees
<1>7. CASE ToggleOff
      BY <1>0, <1>7, Zenon DEF ToggleOff, AddrLocked, TypeOK, ListenerAgrees
<1>8. ASSUME NEW s \in Caller, Begin(s)
      PROVE  ListenerAgrees'
      BY <1>0, <1>8, Zenon DEF Begin, TypeOK, ShutdownBegun, TasksKept, ListenerAgrees
<1>9. ASSUME NEW s \in Caller, TakeTasks(s)
      PROVE  ListenerAgrees'
      BY <1>0, <1>9, Zenon DEF TakeTasks, TypeOK, ShutdownBegun, TasksKept, ListenerAgrees
<1>10. ASSUME NEW s \in Caller, SignalHandlers(s)
      PROVE  ListenerAgrees'
      BY <1>0, <1>10, Zenon DEF SignalHandlers, TypeOK, ShutdownBegun, TasksKept,
          ListenerAgrees
<1>11. ASSUME NEW s \in Caller, JoinHandlers(s)
      PROVE  ListenerAgrees'
      BY <1>0, <1>11, Zenon DEF JoinHandlers, TypeOK, ShutdownBegun, TasksKept, ListenerAgrees
<1>12. ASSUME NEW s \in Caller, ClearAddr(s)
      PROVE  ListenerAgrees'
      BY <1>0, <1>12, Zenon DEF ClearAddr, AddrLocked, TypeOK, ShutdownBegun, TasksKept,
          ListenerAgrees
<1>13. ASSUME NEW s \in Caller, CancelShutdown(s)
      PROVE  ListenerAgrees'
      BY <1>0, <1>13, Zenon DEF CancelShutdown, TypeOK, ShutdownBegun, TasksKept,
          ListenerAgrees
<1>14. ASSUME UNCHANGED <<shutdown, tasks, enabling, listening, calls>>
      PROVE  ListenerAgrees'
      BY <1>0, <1>14, Zenon DEF TypeOK, ShutdownBegun, TasksKept, ListenerAgrees
<1>15. ASSUME NEW p \in Protocols, NEW c \in Conn, HandlerTakes(p, c)
      PROVE  UNCHANGED <<shutdown, tasks, enabling, listening, calls>>
      BY <1>15, Zenon DEF HandlerTakes
<1>16. ASSUME NEW p \in Protocols, HandlerDrains(p) \/ HandlerExits(p)
      PROVE  UNCHANGED <<shutdown, tasks, enabling, listening, calls>>
      BY <1>16, Zenon DEF HandlerDrains, HandlerExits
<1>17. ASSUME NEW k \in NodeTask, TaskStarts(k) \/ TaskAborted(k)
      PROVE  UNCHANGED <<shutdown, tasks, enabling, listening, calls>>
      BY <1>17, Zenon DEF TaskStarts, TaskAborted
<1>18. ASSUME NEW c \in Conn, EnableProtocol(c) \/ Push(c) \/ Response(c) \/
             GraceExpires(c) \/ CancelConnect(c) \/ SetupSucceeds(c) \/ SetupFails(c)
      PROVE  UNCHANGED <<shutdown, tasks, enabling, listening, calls>>
      BY <1>18, Zenon DEF EnableProtocol, Push, Response, GraceExpires, CancelConnect,
          SetupSucceeds, SetupFails
<1>19. CASE UNCHANGED vars
      BY <1>19, <1>14, Zenon DEF vars
<1> QED
      BY <1>1, <1>2, <1>3, <1>4, <1>5, <1>6, <1>7, <1>8, <1>9, <1>10, <1>11, <1>12,
          <1>13, <1>14, <1>15, <1>16, <1>17, <1>18, <1>19, Zenon
      DEF Next, HandlerStep, TaskStep, ConnStep, ShutStep, Protocols, NodeTask

\* A request is answered, dropped or stranded as its handler goes.
LEMMA NextRequests ==
    ASSUME IInv, [Next]_vars
    PROVE  RequestsServed'
<1> USE DEF To, taskVars, nodeVars, shutVars, setupVars
<1>0. /\ TypeOK /\ ShutdownBegun /\ TasksKept /\ SlotsDone /\ RequestsServed
      /\ Protocols \subseteq NodeTask /\ "Listener" \in NodeTask \ Protocols
      BY PipelineProtocols, Zenon DEF IInv
<1>1. ASSUME NEW p \in Protocols, Enable(p)
      PROVE  RequestsServed'
      BY <1>0, <1>1 DEF Enable, Alive, TypeOK, ShutdownBegun, TasksKept, SlotsDone,
          RequestsServed, At
<1>2. ASSUME NEW p \in Protocols, NEW c \in Conn, HandlerTakes(p, c)
      PROVE  RequestsServed'
      BY <1>0, <1>2 DEF HandlerTakes, Jobs, At, TypeOK, ShutdownBegun, TasksKept,
          SlotsDone, RequestsServed, Alive
<1>3. ASSUME NEW p \in Protocols, HandlerDrains(p)
      PROVE  RequestsServed'
      BY <1>0, <1>3 DEF HandlerDrains, Jobs, At, TypeOK, ShutdownBegun, TasksKept,
          SlotsDone, RequestsServed, Alive
<1>4. ASSUME NEW p \in Protocols, HandlerExits(p)
      PROVE  RequestsServed'
      BY <1>0, <1>4 DEF HandlerExits, Jobs, Sending, At, TypeOK, ShutdownBegun,
          TasksKept, SlotsDone, RequestsServed, Alive
<1>5. ASSUME NEW k \in NodeTask, TaskStarts(k)
      PROVE  RequestsServed'
      BY <1>0, <1>5 DEF TaskStarts, TypeOK, ShutdownBegun, TasksKept, SlotsDone,
          RequestsServed, At, Alive
<1>6. ASSUME NEW k \in NodeTask, TaskAborted(k)
      PROVE  RequestsServed'
      BY <1>0, <1>6 DEF TaskAborted, At, Alive, TypeOK, ShutdownBegun, TasksKept,
          SlotsDone, RequestsServed
<1>7. ASSUME NEW p \in Protocols, Publish(p)
      PROVE  RequestsServed'
      BY <1>0, <1>7, Zenon DEF Publish, TypeOK, ShutdownBegun, TasksKept, SlotsDone,
          RequestsServed, At, Alive
<1>8. CASE ToggleOn
      BY <1>0, <1>8 DEF ToggleOn, AddrLocked, TypeOK, ShutdownBegun, TasksKept,
          SlotsDone, RequestsServed, At, Alive
<1>9. ASSUME NEW c \in Conn, EnableProtocol(c)
      PROVE  RequestsServed'
      BY <1>0, <1>9 DEF EnableProtocol, At, Closed, Jobs, Sending, TypeOK,
          ShutdownBegun, TasksKept, SlotsDone, RequestsServed, Alive
<1>10. ASSUME NEW c \in Conn, Push(c)
      PROVE  RequestsServed'
      BY <1>0, <1>10 DEF Push, At, TypeOK, ShutdownBegun, TasksKept, SlotsDone,
          RequestsServed, Alive
<1>11. ASSUME NEW c \in Conn, Response(c)
      PROVE  RequestsServed'
      BY <1>0, <1>11 DEF Response, At, TypeOK, ShutdownBegun, TasksKept, SlotsDone,
          RequestsServed, Alive
<1>12. ASSUME NEW c \in Conn, GraceExpires(c)
      PROVE  RequestsServed'
      BY <1>0, <1>12 DEF GraceExpires, At, Closed, TypeOK, ShutdownBegun, TasksKept,
          SlotsDone, RequestsServed, Alive
<1>13. ASSUME NEW c \in Conn, CancelConnect(c)
      PROVE  RequestsServed'
      BY <1>0, <1>13 DEF CancelConnect, TypeOK, ShutdownBegun, TasksKept, SlotsDone,
          RequestsServed, At, Alive
<1>14. ASSUME NEW c \in Conn, SetupSucceeds(c)
      PROVE  RequestsServed'
      BY <1>0, <1>14 DEF SetupSucceeds, At, TypeOK, ShutdownBegun, TasksKept, SlotsDone,
          RequestsServed, Alive
<1>15. ASSUME NEW c \in Conn, SetupFails(c)
      PROVE  RequestsServed'
      BY <1>0, <1>15 DEF SetupFails, TypeOK, ShutdownBegun, TasksKept, SlotsDone,
          RequestsServed, At, Alive
<1>16. ASSUME NEW s \in Caller, Begin(s)
      PROVE  RequestsServed'
      BY <1>0, <1>16, Zenon DEF Begin, TypeOK, ShutdownBegun, TasksKept, SlotsDone,
          RequestsServed, At, Alive
<1>17. ASSUME UNCHANGED <<shutdown, task, slots, at, next, job>>
      PROVE  RequestsServed'
      BY <1>0, <1>17, Zenon DEF TypeOK, ShutdownBegun, TasksKept, SlotsDone, RequestsServed,
          At, Alive
<1>18. ASSUME NEW k \in NodeTask, Register(k) \/ DropEnable(k)
      PROVE  UNCHANGED <<shutdown, task, slots, at, next, job>>
      BY <1>18, Zenon DEF Register, DropEnable, register_task
<1>19. ASSUME ListenerStarted \/ ToggleOff
      PROVE  UNCHANGED <<shutdown, task, slots, at, next, job>>
      BY <1>19, Zenon DEF ListenerStarted, ToggleOff
<1>20. ASSUME NEW s \in Caller, TakeTasks(s) \/ SignalHandlers(s) \/ JoinHandlers(s) \/
             ClearAddr(s) \/ CancelShutdown(s)
      PROVE  UNCHANGED <<shutdown, task, slots, at, next, job>>
      BY <1>20, Zenon DEF TakeTasks, SignalHandlers, JoinHandlers, ClearAddr, CancelShutdown
<1>21. CASE UNCHANGED vars
      BY <1>21, <1>17, Zenon DEF vars
<1> QED
      BY <1>1, <1>2, <1>3, <1>4, <1>5, <1>6, <1>7, <1>8, <1>9, <1>10, <1>11, <1>12,
          <1>13, <1>14, <1>15, <1>16, <1>17, <1>18, <1>19, <1>20, <1>21, Zenon
      DEF Next, HandlerStep, TaskStep, ConnStep, ShutStep, Protocols, NodeTask

\* ShuttingDown is only ever concluded from what a shutdown does.
LEMMA NextTruth ==
    ASSUME IInv, [Next]_vars
    PROVE  ShuttingDownIsTrue'
<1> USE DEF To, taskVars, nodeVars, shutVars, setupVars
<1>0. /\ TypeOK /\ ShutdownBegun /\ TasksKept /\ SlotsDone /\ RequestsServed /\ ShuttingDownIsTrue
      /\ Protocols \subseteq NodeTask /\ "Listener" \in NodeTask \ Protocols
      BY PipelineProtocols, Zenon DEF IInv
<1>1. ASSUME NEW c \in Conn, EnableProtocol(c)
      PROVE  ShuttingDownIsTrue'
      BY <1>0, <1>1 DEF EnableProtocol, At, Closed, Jobs, Sending, TypeOK,
          ShutdownBegun, TasksKept, SlotsDone, RequestsServed, ShuttingDownIsTrue
<1>2. ASSUME NEW c \in Conn, Push(c)
      PROVE  ShuttingDownIsTrue'
      BY <1>0, <1>2 DEF Push, At, TypeOK, ShutdownBegun, TasksKept, SlotsDone,
          RequestsServed, ShuttingDownIsTrue
<1>3. ASSUME NEW c \in Conn, Response(c)
      PROVE  ShuttingDownIsTrue'
      BY <1>0, <1>3 DEF Response, At, TypeOK, ShutdownBegun, TasksKept, SlotsDone,
          RequestsServed, ShuttingDownIsTrue
<1>4. ASSUME NEW c \in Conn, GraceExpires(c)
      PROVE  ShuttingDownIsTrue'
      BY <1>0, <1>4, Zenon DEF GraceExpires, At, Closed, TypeOK, ShutdownBegun, TasksKept,
          SlotsDone, RequestsServed, ShuttingDownIsTrue
<1>5. ASSUME NEW c \in Conn, CancelConnect(c)
      PROVE  ShuttingDownIsTrue'
      BY <1>0, <1>5 DEF CancelConnect, TypeOK, ShutdownBegun, TasksKept, SlotsDone,
          RequestsServed, ShuttingDownIsTrue
<1>6. ASSUME NEW s \in Caller, Begin(s)
      PROVE  ShuttingDownIsTrue'
      BY <1>0, <1>6, Zenon DEF Begin, TypeOK, ShutdownBegun, TasksKept, SlotsDone,
          RequestsServed, ShuttingDownIsTrue
<1>7. ASSUME UNCHANGED <<shutdown, at>>
      PROVE  ShuttingDownIsTrue'
      BY <1>0, <1>7, Zenon DEF TypeOK, ShutdownBegun, TasksKept, SlotsDone, RequestsServed,
          ShuttingDownIsTrue
<1>8. ASSUME NEW p \in Protocols, Enable(p) \/ HandlerDrains(p) \/ HandlerExits(p) \/
             Publish(p)
      PROVE  UNCHANGED <<shutdown, at>>
      BY <1>8, Zenon DEF Enable, HandlerDrains, HandlerExits, Publish
<1>9. ASSUME NEW p \in Protocols, NEW c \in Conn, HandlerTakes(p, c)
      PROVE  UNCHANGED <<shutdown, at>>
      BY <1>9, Zenon DEF HandlerTakes
<1>10. ASSUME NEW k \in NodeTask, TaskStarts(k) \/ Register(k) \/ TaskAborted(k) \/
             DropEnable(k)
      PROVE  UNCHANGED <<shutdown, at>>
      BY <1>10, Zenon DEF TaskStarts, Register, TaskAborted, DropEnable, register_task
<1>11. ASSUME ListenerStarted \/ ToggleOn \/ ToggleOff
      PROVE  UNCHANGED <<shutdown, at>>
      BY <1>11, Zenon DEF ListenerStarted, ToggleOn, ToggleOff
<1>12. ASSUME NEW c \in Conn, SetupSucceeds(c) \/ SetupFails(c)
      PROVE  UNCHANGED <<shutdown, at>>
      BY <1>12, Zenon DEF SetupSucceeds, SetupFails
<1>13. ASSUME NEW s \in Caller, TakeTasks(s) \/ SignalHandlers(s) \/ JoinHandlers(s) \/
             ClearAddr(s) \/ CancelShutdown(s)
      PROVE  UNCHANGED <<shutdown, at>>
      BY <1>13, Zenon DEF TakeTasks, SignalHandlers, JoinHandlers, ClearAddr, CancelShutdown
<1>14. CASE UNCHANGED vars
      BY <1>14, <1>7, Zenon DEF vars
<1> QED
      BY <1>1, <1>2, <1>3, <1>4, <1>5, <1>6, <1>7, <1>8, <1>9, <1>10, <1>11, <1>12,
          <1>13, <1>14, Zenon
      DEF Next, HandlerStep, TaskStep, ConnStep, ShutStep, Protocols, NodeTask

\* No protocol of the pipeline is passed over, and the stream stays split.
LEMMA NextApplied ==
    ASSUME IInv, [Next]_vars
    PROVE  PipelineApplied'
<1> USE DEF To, taskVars, nodeVars, shutVars, setupVars
<1>0. /\ TypeOK /\ RequestsServed /\ PipelineApplied
      /\ Protocols \subseteq NodeTask /\ "Listener" \in NodeTask \ Protocols
      BY PipelineProtocols, Zenon DEF IInv
<1>1. ASSUME NEW p \in Protocols, NEW c \in Conn, HandlerTakes(p, c)
      PROVE  PipelineApplied'
      BY <1>0, <1>1 DEF HandlerTakes, Jobs, At, TypeOK, RequestsServed, PipelineApplied
<1>2. ASSUME NEW p \in Protocols, HandlerExits(p)
      PROVE  PipelineApplied'
      BY <1>0, <1>2, Zenon DEF HandlerExits, Jobs, Sending, At, TypeOK, RequestsServed,
          PipelineApplied
<1>3. ASSUME NEW k \in NodeTask, TaskAborted(k)
      PROVE  PipelineApplied'
      BY <1>0, <1>3, Zenon DEF TaskAborted, At, Alive, TypeOK, RequestsServed, PipelineApplied
<1>4. ASSUME NEW p \in Protocols, Publish(p)
      PROVE  PipelineApplied'
      BY <1>0, <1>4, Zenon DEF Publish, TypeOK, RequestsServed, PipelineApplied, At
<1>5. ASSUME NEW c \in Conn, EnableProtocol(c)
      PROVE  PipelineApplied'
      BY <1>0, <1>5 DEF EnableProtocol, At, Closed, Jobs, Sending, TypeOK,
          RequestsServed, PipelineApplied
<1>6. ASSUME NEW c \in Conn, Push(c)
      PROVE  PipelineApplied'
      BY <1>0, <1>6 DEF Push, At, TypeOK, RequestsServed, PipelineApplied
<1>7. ASSUME NEW c \in Conn, Response(c)
      PROVE  PipelineApplied'
      BY <1>0, <1>7 DEF Response, At, TypeOK, RequestsServed, PipelineApplied
<1>8. ASSUME NEW c \in Conn, GraceExpires(c)
      PROVE  PipelineApplied'
      BY <1>0, <1>8 DEF GraceExpires, At, Closed, TypeOK, RequestsServed,
          PipelineApplied
<1>9. ASSUME NEW c \in Conn, CancelConnect(c)
      PROVE  PipelineApplied'
      BY <1>0, <1>9 DEF CancelConnect, TypeOK, RequestsServed, PipelineApplied, At
<1>10. ASSUME NEW c \in Conn, SetupSucceeds(c)
      PROVE  PipelineApplied'
      BY <1>0, <1>10, SetupAssumption DEF SetupSucceeds, At, TypeOK, RequestsServed, PipelineApplied
<1>11. ASSUME NEW c \in Conn, SetupFails(c)
      PROVE  PipelineApplied'
      BY <1>0, <1>11 DEF SetupFails, TypeOK, RequestsServed, PipelineApplied, At
<1>12. ASSUME UNCHANGED <<at, next, served, seen, slots, job, stream>>
      PROVE  PipelineApplied'
      BY <1>0, <1>12, Zenon DEF TypeOK, RequestsServed, PipelineApplied, At
<1>13. ASSUME NEW p \in Protocols, Enable(p) \/ HandlerDrains(p)
      PROVE  UNCHANGED <<at, next, served, seen, slots, job, stream>>
      BY <1>13, Zenon DEF Enable, HandlerDrains
<1>14. ASSUME NEW k \in NodeTask, TaskStarts(k) \/ Register(k) \/ DropEnable(k)
      PROVE  UNCHANGED <<at, next, served, seen, slots, job, stream>>
      BY <1>14, Zenon DEF TaskStarts, Register, DropEnable, register_task
<1>15. ASSUME ListenerStarted \/ ToggleOn \/ ToggleOff
      PROVE  UNCHANGED <<at, next, served, seen, slots, job, stream>>
      BY <1>15, Zenon DEF ListenerStarted, ToggleOn, ToggleOff
<1>16. ASSUME NEW s \in Caller, Begin(s) \/ TakeTasks(s) \/ SignalHandlers(s) \/
             JoinHandlers(s) \/ ClearAddr(s) \/ CancelShutdown(s)
      PROVE  UNCHANGED <<at, next, served, seen, slots, job, stream>>
      BY <1>16, Zenon DEF Begin, TakeTasks, SignalHandlers, JoinHandlers, ClearAddr,
          CancelShutdown
<1>17. CASE UNCHANGED vars
      BY <1>17, <1>12, Zenon DEF vars
<1> QED
      BY <1>1, <1>2, <1>3, <1>4, <1>5, <1>6, <1>7, <1>8, <1>9, <1>10, <1>11, <1>12,
          <1>13, <1>14, <1>15, <1>16, <1>17, Zenon
      DEF Next, HandlerStep, TaskStep, ConnStep, ShutStep, Protocols, NodeTask

-----------------------------------------------------------------------------
\* The invariant holds in every reachable state.
THEOREM SetupInvariance == Spec => []IInv
<1>1. IInv /\ [Next]_vars => IInv'
      BY NextType, NextBegun, NextOwned, NextKept, NextSlots, NextListener, NextRequests,
         NextApplied, NextTruth, Zenon DEF IInv
<1> QED
      BY <1>1, InitInv, PTL DEF Spec

\* No task of the node runs without an owner, whichever enable_*, toggle_listener or
\* shut_down future is dropped, and when.
THEOREM TasksAreOwned == Spec => []TaskOwned
<1>1. IInv => TaskOwned
      BY Zenon DEF IInv
<1> QED
      BY <1>1, SetupInvariance, PTL

\* A published protocol is served by a registered handler until the node shuts down.
THEOREM SlotsAreServed == Spec => []HandlerBehindSlot
<1>1. IInv => HandlerBehindSlot
      BY PipelineProtocols, Zenon DEF IInv, TypeOK, SlotsDone, TasksKept, HandlerBehindSlot
<1> QED
      BY <1>1, SetupInvariance, PTL

\* A setup that fails with ShuttingDown does so on a node that shuts down.
THEOREM ShuttingDownIsTruthful == Spec => []ShuttingDownIsTrue
<1>1. IInv => ShuttingDownIsTrue
      BY Zenon DEF IInv
<1> QED
      BY <1>1, SetupInvariance, PTL

\* A handler that returns by itself leaves no request in its channel.
THEOREM NoRequestStranded == Spec => []StrandFree
<1>1. IInv => StrandFree
      BY Zenon DEF IInv, RequestsServed, StrandFree
<1> QED
      BY <1>1, SetupInvariance, PTL

\* The listening address is that of the registered listener, and none is left behind by a
\* shut_down that has returned.
THEOREM AddressMatchesListener == Spec => []ListenerMatchesAddr
<1>1. IInv => ListenerMatchesAddr
      BY PipelineProtocols, Zenon DEF IInv, TypeOK, ListenerAgrees, ListenerMatchesAddr, AddrLocked
<1> QED
      BY <1>1, SetupInvariance, PTL

\* A connection that completes its setup passed through every protocol that was enabled
\* when it began, and those that need the stream had it.
THEOREM SetupsAreComplete == Spec => []ProtocolsApplied
<1>1. IInv => ProtocolsApplied
  <2> SUFFICES ASSUME IInv, NEW c \in Conn, at[c] = "ok"
               PROVE  /\ seen[c] \subseteq served[c]
                      /\ served[c] \subseteq {"Handshake"} \/ stream[c] = "split"
      BY Zenon DEF ProtocolsApplied
  <2>1. next[c] = Len(Pipeline) + 1 /\ seen[c] \subseteq Protocols
        BY Zenon DEF IInv, TypeOK, PipelineApplied
  <2>2. \A i \in 1 .. Len(Pipeline) : i < next[c]
        BY <2>1, PipelineProtocols
  <2>3. \A i \in 1 .. Len(Pipeline) : Pipeline[i] \in seen[c] => Pipeline[i] \in served[c]
        BY <2>2, Zenon DEF IInv, PipelineApplied
  <2> QED
        BY <2>1, <2>3, Zenon DEF IInv, PipelineApplied, Protocols
<1> QED
      BY <1>1, SetupInvariance, PTL

=============================================================================
