--------------------------- MODULE LifecycleProofs ---------------------------
(* Theorems about Lifecycle, for every set of connections and addresses, for   *)
(* both values of ABORTABLE, and with and without dropped shut_downs and       *)
(* passed deadlines: the safety of shut_down; and its hooks: every on_connect  *)
(* that is scheduled is spawned, every on_disconnect runs to its end before    *)
(* its connection is removed, and a hook that can be aborted goes with its own *)
(* connection and with no other.                                               *)
EXTENDS Lifecycle, FiniteSetTheorems, TLAPS

\* A leaf that needs no arithmetic cites Zenon. The others are given to SMT, with
\* time for the longer ones, and then to Zenon.
USE SMTT(30), Zenon

USE LifecycleAssumption

-----------------------------------------------------------------------------
(* Counting the schedulings. *)

\* The schedulings under way are finitely many.
LEMMA ScheduledFinite ==
    /\ Scheduled \subseteq Conn /\ IsFiniteSet(Scheduled)
    /\ Cardinality(Scheduled) \in Nat
<1>1. Scheduled \subseteq Conn
      BY Zenon DEF Scheduled
<1>2. IsFiniteSet(Scheduled)
      BY <1>1, FS_Subset, Zenon
<1> QED
      BY <1>1, <1>2, FS_CardinalityType, Zenon

\* A task that still has its guard is counted, so that the count is not zero.
LEMMA GuardCounted ==
    ASSUME SchedExact, NEW c \in Scheduled
    PROVE  sched \in Nat \ {0}
<1>1. Cardinality(Scheduled) # 0
      BY ScheduledFinite, FS_EmptySet, Zenon
<1> QED
      BY <1>1, ScheduledFinite, Zenon DEF SchedExact

-----------------------------------------------------------------------------
(* The parts of the invariant, one lemma each, one step for each action. *)

\* A new node satisfies the invariant.
LEMMA InitInv == Init => IInv
<1> SUFFICES ASSUME Init PROVE IInv
    BY Zenon
<1>1. TypeOK
      BY Zenon DEF Init, TypeOK, SdStage, Hooks, Pending, DrainWaiter, SchedWaiter
<1>2. LockHeld /\ FlagCloses /\ NoLostWakeup
      BY Zenon DEF Init, LockHeld, FlagCloses, NoLostWakeup
<1>3. DrainLasts /\ Detached
      BY Zenon DEF Init, DrainLasts, Detached, AfterDrain, SchedWaiter
<1>4. SchedExact
  <2>1. Scheduled = {} /\ sched = 0
        BY ZenonT(30) DEF Init, Scheduled
  <2> QED
        BY <2>1, FS_EmptySet, Zenon DEF SchedExact
<1> QED
      BY <1>1, <1>2, <1>3, <1>4, Zenon DEF IInv

\* Every step keeps the variables well-typed.
LEMMA NextType ==
    ASSUME IInv, [Next]_vars
    PROVE  TypeOK'
<1> USE DEF Pending, Hooks, DrainWaiter, SchedWaiter, To, connVars,
             closeVars, hookVars, handlerVars, shutVars, SdUnchanged
<1>0. TypeOK /\ SchedExact /\ hard_abort' = hard_abort
      BY Zenon DEF IInv, Next, vars
<1>1. ASSUME NEW c \in Conn, Reserve(c)
      PROVE  TypeOK'
      BY <1>0, <1>1, Zenon DEF Reserve, TypeOK
<1>2. ASSUME NEW c \in Conn, SetupFails(c)
      PROVE  TypeOK'
      BY <1>0, <1>2, Zenon DEF SetupFails, TypeOK
<1>3. ASSUME NEW c \in Conn, StartGuard(c)
      PROVE  TypeOK'
      BY <1>0, <1>3 DEF StartGuard, TypeOK
<1>4. ASSUME NEW c \in Conn, AddLock(c)
      PROVE  TypeOK'
      BY <1>0, <1>4 DEF AddLock, TypeOK
<1>5. ASSUME NEW c \in Conn, Refused(c)
      PROVE  TypeOK'
  <2>1. c \in Scheduled /\ sched' = sched - 1
        BY <1>5, Zenon DEF Refused, sched_finished, Scheduled
  <2>2. sched' \in Nat
        BY <1>0, <2>1, GuardCounted
  <2>3. notified' \in BOOLEAN
        BY <1>0, <1>5, Zenon DEF Refused, sched_finished, Notify, TypeOK
  <2> QED
        BY <1>0, <1>5, <2>2, <2>3, Zenon DEF Refused, TypeOK
<1>6. ASSUME NEW c \in Conn, Insert(c)
      PROVE  TypeOK'
      BY <1>0, <1>6, Zenon DEF Insert, TypeOK
<1>7. ASSUME NEW c \in Conn, ScheduleOnConnect(c)
      PROVE  TypeOK'
      BY <1>0, <1>7 DEF ScheduleOnConnect, TypeOK
<1>8. ASSUME NEW c \in Conn, AttachOnConnect(c)
      PROVE  TypeOK'
      BY <1>0, <1>8 DEF AttachOnConnect, Registered, TypeOK
<1>9. ASSUME NEW c \in Conn, StrandedOnConnect(c)
      PROVE  TypeOK'
      BY <1>0, <1>9, Zenon DEF StrandedOnConnect, GivenUp, TypeOK
<1>10. ASSUME NEW c \in Conn, FinishScheduling(c)
      PROVE  TypeOK'
  <2>1. c \in Scheduled /\ sched' = sched - 1
        BY <1>10, Zenon DEF FinishScheduling, sched_finished, Scheduled
  <2>2. sched' \in Nat
        BY <1>0, <2>1, GuardCounted
  <2>3. notified' \in BOOLEAN
        BY <1>0, <1>10, Zenon DEF FinishScheduling, sched_finished, Notify, TypeOK
  <2> QED
        BY <1>0, <1>10, <2>2, <2>3, Zenon DEF FinishScheduling, TypeOK
<1>11. ASSUME NEW c \in Conn, HandleOnConnect(c)
      PROVE  TypeOK'
      BY <1>0, <1>11, Zenon DEF HandleOnConnect, TypeOK
<1>12. ASSUME NEW c \in Conn, HandleOnDisconnect(c)
      PROVE  TypeOK'
      BY <1>0, <1>12, Zenon DEF HandleOnDisconnect, TypeOK
<1>13. ASSUME NEW c \in Conn, HookStarts(c)
      PROVE  TypeOK'
      BY <1>0, <1>13, Zenon DEF HookStarts, TypeOK
<1>14. ASSUME NEW c \in Conn, HookReturns(c)
      PROVE  TypeOK'
      BY <1>0, <1>14, Zenon DEF HookReturns, TypeOK
<1>15. ASSUME NEW c \in Conn, HookPanics(c)
      PROVE  TypeOK'
      BY <1>0, <1>15, Zenon DEF HookPanics, DropHookGuard, TypeOK
<1>16. ASSUME NEW c \in Conn, HookAborted(c)
      PROVE  TypeOK'
      BY <1>0, <1>16, Zenon DEF HookAborted, DropHookGuard, TypeOK
<1>17. ASSUME NEW c \in Conn, Disconnect(c)
      PROVE  TypeOK'
      BY <1>0, <1>17, Zenon DEF Disconnect, Claimable, Claim, TypeOK
<1>18. ASSUME NEW c \in Conn, Recover(c)
      PROVE  TypeOK'
      BY <1>0, <1>18 DEF Recover, Claimable, Claim, TypeOK
<1>19. ASSUME NEW c \in Conn, TriggerOnDisconnect(c)
      PROVE  TypeOK'
      BY <1>0, <1>19 DEF TriggerOnDisconnect, TypeOK
<1>20. ASSUME NEW c \in Conn, RegisterOnDisconnect(c)
      PROVE  TypeOK'
      BY <1>0, <1>20, Zenon DEF RegisterOnDisconnect, TypeOK
<1>21. ASSUME NEW c \in Conn, StrandedOnDisconnect(c)
      PROVE  TypeOK'
      BY <1>0, <1>21, Zenon DEF StrandedOnDisconnect, GivenUp, TypeOK
<1>22. ASSUME NEW c \in Conn, OnDisconnectReturns(c)
      PROVE  TypeOK'
      BY <1>0, <1>22, Zenon DEF OnDisconnectReturns, TypeOK
<1>23. ASSUME NEW c \in Conn, HookAwaited(c)
      PROVE  TypeOK'
      BY <1>0, <1>23, Zenon DEF HookAwaited, TypeOK
<1>24. ASSUME NEW c \in Conn, Finalize(c)
      PROVE  TypeOK'
      BY <1>0, <1>24, Zenon DEF Finalize, Removed, Notify, TypeOK
<1>25. ASSUME NEW c \in Conn, CancelDisconnect(c)
      PROVE  TypeOK'
      BY <1>0, <1>25, Zenon DEF CancelDisconnect, TypeOK
<1>26. ASSUME NEW h \in Hooks, HandlerCloses(h)
      PROVE  TypeOK'
      BY <1>0, <1>26, Zenon DEF HandlerCloses, TypeOK
<1>27. ASSUME NEW h \in Hooks, HandlerExits(h)
      PROVE  TypeOK'
      BY <1>0, <1>27, Zenon DEF HandlerExits, TypeOK
<1>28. ASSUME NEW h \in Hooks, HandlerDropped(h)
      PROVE  TypeOK'
      BY <1>0, <1>28, Zenon DEF HandlerDropped, TypeOK
<1>29. ASSUME NEW a \in Addr, FanOut(a)
      PROVE  TypeOK'
      BY <1>0, <1>29 DEF FanOut, Claim, TypeOK
<1>30. CASE Begin
      BY <1>0, <1>30, Zenon DEF Begin, TypeOK, SdStage
<1>31. CASE Snapshot
      BY <1>0, <1>31, Zenon DEF Snapshot, TypeOK, SdStage
<1>32. CASE FanOutDone
      BY <1>0, <1>32, Zenon DEF FanOutDone, TypeOK, SdStage
<1>33. CASE WaitActiveDrained
  <2>1. notified' \in BOOLEAN
        BY <1>0, <1>33, Zenon DEF WaitActiveDrained, wait_for_drain, TypeOK
  <2>2. sd' \in SdStage
        BY <1>33, Zenon DEF WaitActiveDrained, wait_for_drain, SdStage
  <2>3. UNCHANGED <<connVars, closeVars, hookVars, handlerVars, flag, signal, sched, fan>>
        BY <1>33, ZenonT(30) DEF WaitActiveDrained
  <2> QED
        BY <1>0, <2>1, <2>2, <2>3, Zenon DEF TypeOK
<1>34. CASE wait_sched_drained
  <2>1. notified' \in BOOLEAN
        BY <1>0, <1>34, Zenon DEF wait_sched_drained, wait_for_drain, TypeOK
  <2>2. sd' \in SdStage
        BY <1>34, Zenon DEF wait_sched_drained, wait_for_drain, SdStage
  <2>3. UNCHANGED <<connVars, closeVars, hookVars, handlerVars, flag, signal, sched, fan>>
        BY <1>34, Zenon DEF wait_sched_drained
  <2> QED
        BY <1>0, <2>1, <2>2, <2>3, Zenon DEF TypeOK
<1>35. CASE SignalHandlers
      BY <1>0, <1>35, Zenon DEF SignalHandlers, TypeOK, SdStage
<1>36. CASE JoinHandlers
  <2>1. hard' \in BOOLEAN
        BY <1>0, <1>36, Zenon DEF JoinHandlers, TypeOK
  <2>2. sd' = "finished" /\ UNCHANGED <<connVars, closeVars, hookVars, queue, handler, sched,
                                       flag, signal, fan, notified>>
        BY <1>36, Zenon DEF JoinHandlers
  <2> QED
        BY <1>0, <2>1, <2>2, Zenon DEF TypeOK, SdStage
<1>37. CASE CancelShutdown
  <2>1. close' \in [Conn -> {"none", "claimed", "triggered", "waiting", "finalize", "done"}]
        BY <1>0, <1>37, Zenon DEF CancelShutdown, TypeOK
  <2>2. /\ cancelled' \subseteq Conn /\ hard' = TRUE /\ fan' = {} /\ sd' = "off"
        /\ UNCHANGED <<connVars, claimed, origin, recovering, hookVars, queue, handler, flag,
                       signal, sched, notified>>
        BY <1>0, <1>37, Zenon DEF CancelShutdown, TypeOK
  <2> QED
        BY <1>0, <2>1, <2>2, Zenon DEF TypeOK, SdStage
<1>38. ASSUME UNCHANGED <<pc, lock, active, claimed, origin, close, cancelled, recovering, on_connect, attached, abort, on_disconnect, queue, handler, hard, flag, signal, sched, sd, fan, notified>>
      PROVE  TypeOK'
      BY <1>0, <1>38, Zenon DEF TypeOK
<1>39. ASSUME UNCHANGED vars
      PROVE  UNCHANGED <<pc, lock, active, claimed, origin, close, cancelled, recovering, on_connect, attached, abort, on_disconnect, queue, handler, hard, flag, signal, sched, sd, fan, notified>>
      BY <1>39, Zenon DEF vars, nodeVars
<1> QED
      BY <1>1, <1>2, <1>3, <1>4, <1>5, <1>6, <1>7, <1>8, <1>9, <1>10, <1>11, <1>12,
         <1>13, <1>14, <1>15, <1>16, <1>17, <1>18, <1>19, <1>20, <1>21, <1>22, <1>23,
         <1>24, <1>25, <1>26, <1>27, <1>28, <1>29, <1>30, <1>31, <1>32, <1>33, <1>34,
         <1>35, <1>36, <1>37, <1>38, <1>39
      DEF Next, AdaptStream, Scheduling, Handling, Closing, HandlerExit, ShutDown

\* The lock is held exactly between the flag check and the insertion.
LEMMA NextLock ==
    ASSUME IInv, [Next]_vars
    PROVE  LockHeld'
<1> USE DEF To, connVars, closeVars, hookVars, handlerVars, shutVars, SdUnchanged
<1>0. TypeOK /\ LockHeld
      BY Zenon DEF IInv
<1>1. ASSUME NEW c \in Conn, Reserve(c)
      PROVE  LockHeld'
      BY <1>0, <1>1 DEF Reserve, TypeOK, LockHeld
<1>2. ASSUME NEW c \in Conn, SetupFails(c)
      PROVE  LockHeld'
      BY <1>0, <1>2 DEF SetupFails, TypeOK, LockHeld
<1>3. ASSUME NEW c \in Conn, StartGuard(c)
      PROVE  LockHeld'
      BY <1>0, <1>3 DEF StartGuard, TypeOK, LockHeld
<1>4. ASSUME NEW c \in Conn, AddLock(c)
      PROVE  LockHeld'
      BY <1>0, <1>4 DEF AddLock, TypeOK, LockHeld
<1>5. ASSUME NEW c \in Conn, Refused(c)
      PROVE  LockHeld'
      BY <1>0, <1>5 DEF Refused, sched_finished, Notify, TypeOK, LockHeld
<1>6. ASSUME NEW c \in Conn, Insert(c)
      PROVE  LockHeld'
      BY <1>0, <1>6 DEF Insert, TypeOK, LockHeld
<1>7. ASSUME NEW c \in Conn, ScheduleOnConnect(c)
      PROVE  LockHeld'
      BY <1>0, <1>7 DEF ScheduleOnConnect, TypeOK, LockHeld
<1>8. ASSUME NEW c \in Conn, AttachOnConnect(c)
      PROVE  LockHeld'
      BY <1>0, <1>8, Zenon DEF AttachOnConnect, Registered, TypeOK, LockHeld
<1>9. ASSUME NEW c \in Conn, StrandedOnConnect(c)
      PROVE  LockHeld'
      BY <1>0, <1>9 DEF StrandedOnConnect, GivenUp, TypeOK, LockHeld
<1>10. ASSUME NEW c \in Conn, FinishScheduling(c)
      PROVE  LockHeld'
      BY <1>0, <1>10 DEF FinishScheduling, sched_finished, Notify, TypeOK, LockHeld
<1>11. ASSUME UNCHANGED <<pc, lock>>
      PROVE  LockHeld'
      BY <1>0, <1>11, Zenon DEF LockHeld
<1>12. ASSUME NEW c \in Conn,
             HandleOnConnect(c) \/ HandleOnDisconnect(c) \/ HookStarts(c) \/
             HookReturns(c) \/ HookPanics(c) \/ HookAborted(c) \/ Disconnect(c)
      PROVE  UNCHANGED <<pc, lock>>
      BY <1>12, Zenon DEF HandleOnConnect, HandleOnDisconnect, HookStarts, HookReturns,
          HookPanics, HookAborted, Disconnect
<1>13. ASSUME NEW c \in Conn,
             Recover(c) \/ TriggerOnDisconnect(c) \/ RegisterOnDisconnect(c) \/
             StrandedOnDisconnect(c) \/ OnDisconnectReturns(c) \/ HookAwaited(c) \/
             Finalize(c)
      PROVE  UNCHANGED <<pc, lock>>
      BY <1>13, Zenon DEF Recover, TriggerOnDisconnect, RegisterOnDisconnect,
          StrandedOnDisconnect, OnDisconnectReturns, HookAwaited, Finalize
<1>14. ASSUME NEW c \in Conn,
             CancelDisconnect(c)
      PROVE  UNCHANGED <<pc, lock>>
      BY <1>14, Zenon DEF CancelDisconnect
<1>15. ASSUME NEW h \in Hooks,
             HandlerCloses(h) \/ HandlerExits(h) \/ HandlerDropped(h)
      PROVE  UNCHANGED <<pc, lock>>
      BY <1>15, Zenon DEF HandlerCloses, HandlerExits, HandlerDropped
<1>16. ASSUME NEW a \in Addr,
             FanOut(a)
      PROVE  UNCHANGED <<pc, lock>>
      BY <1>16, Zenon DEF FanOut
<1>17. ASSUME Begin \/ Snapshot \/ FanOutDone \/ WaitActiveDrained \/
             wait_sched_drained \/ SignalHandlers \/ JoinHandlers \/ CancelShutdown \/
             UNCHANGED vars
      PROVE  UNCHANGED <<pc, lock>>
      BY <1>17, Zenon DEF Begin, Snapshot, FanOutDone, WaitActiveDrained, wait_sched_drained,
          SignalHandlers, JoinHandlers, CancelShutdown, vars, nodeVars
<1> QED
      BY <1>1, <1>2, <1>3, <1>4, <1>5, <1>6, <1>7, <1>8, <1>9, <1>10, <1>11, <1>12,
         <1>13, <1>14, <1>15, <1>16, <1>17, Zenon
      DEF Next, AdaptStream, Scheduling, Handling, Closing, HandlerExit, ShutDown

\* Once the flag is seen under the lock, nobody passes the check any more.
LEMMA NextFlag ==
    ASSUME IInv, [Next]_vars
    PROVE  FlagCloses'
<1> USE DEF To, connVars, closeVars, hookVars, handlerVars, shutVars, SdUnchanged
<1>0. TypeOK /\ LockHeld /\ FlagCloses
      BY Zenon DEF IInv
<1>1. ASSUME NEW c \in Conn, AddLock(c)
      PROVE  FlagCloses'
      BY <1>0, <1>1, Zenon DEF AddLock, TypeOK, LockHeld, FlagCloses
<1>2. ASSUME NEW c \in Conn, Insert(c)
      PROVE  FlagCloses'
      BY <1>0, <1>2, Zenon DEF Insert, TypeOK, LockHeld, FlagCloses
<1>3. CASE Begin
      BY <1>0, <1>3, Zenon DEF Begin, TypeOK, LockHeld, FlagCloses
<1>4. CASE Snapshot
      BY <1>0, <1>4, Zenon DEF Snapshot, TypeOK, LockHeld, FlagCloses
<1>5. CASE FanOutDone
      BY <1>0, <1>5, Zenon DEF FanOutDone, TypeOK, LockHeld, FlagCloses
<1>6. CASE WaitActiveDrained
      BY <1>0, <1>6, Zenon DEF WaitActiveDrained, wait_for_drain, TypeOK, LockHeld, FlagCloses
<1>7. CASE wait_sched_drained
      BY <1>0, <1>7, Zenon DEF wait_sched_drained, wait_for_drain, TypeOK, LockHeld, FlagCloses
<1>8. CASE SignalHandlers
      BY <1>0, <1>8, Zenon DEF SignalHandlers, TypeOK, LockHeld, FlagCloses
<1>9. CASE JoinHandlers
      BY <1>0, <1>9, Zenon DEF JoinHandlers, TypeOK, LockHeld, FlagCloses
<1>10. CASE CancelShutdown
      BY <1>0, <1>10, Zenon DEF CancelShutdown, TypeOK, LockHeld, FlagCloses
<1>11. ASSUME UNCHANGED <<lock, flag, sd>>
      PROVE  FlagCloses'
      BY <1>0, <1>11, Zenon DEF FlagCloses
<1>12. ASSUME NEW c \in Conn,
             Reserve(c) \/ SetupFails(c) \/ StartGuard(c) \/ Refused(c) \/
             ScheduleOnConnect(c) \/ AttachOnConnect(c) \/ StrandedOnConnect(c)
      PROVE  UNCHANGED <<lock, flag, sd>>
      BY <1>12, Zenon DEF Reserve, SetupFails, StartGuard, Refused, ScheduleOnConnect,
          AttachOnConnect, StrandedOnConnect
<1>13. ASSUME NEW c \in Conn,
             FinishScheduling(c) \/ HandleOnConnect(c) \/ HandleOnDisconnect(c) \/
             HookStarts(c) \/ HookReturns(c) \/ HookPanics(c) \/ HookAborted(c)
      PROVE  UNCHANGED <<lock, flag, sd>>
      BY <1>13, Zenon DEF FinishScheduling, HandleOnConnect, HandleOnDisconnect, HookStarts,
          HookReturns, HookPanics, HookAborted
<1>14. ASSUME NEW c \in Conn,
             Disconnect(c) \/ Recover(c) \/ TriggerOnDisconnect(c) \/
             RegisterOnDisconnect(c) \/ StrandedOnDisconnect(c) \/
             OnDisconnectReturns(c) \/ HookAwaited(c)
      PROVE  UNCHANGED <<lock, flag, sd>>
      BY <1>14, Zenon DEF Disconnect, Recover, TriggerOnDisconnect, RegisterOnDisconnect,
          StrandedOnDisconnect, OnDisconnectReturns, HookAwaited
<1>15. ASSUME NEW c \in Conn,
             Finalize(c) \/ CancelDisconnect(c)
      PROVE  UNCHANGED <<lock, flag, sd>>
      BY <1>15, Zenon DEF Finalize, CancelDisconnect
<1>16. ASSUME NEW h \in Hooks,
             HandlerCloses(h) \/ HandlerExits(h) \/ HandlerDropped(h)
      PROVE  UNCHANGED <<lock, flag, sd>>
      BY <1>16, Zenon DEF HandlerCloses, HandlerExits, HandlerDropped
<1>17. ASSUME NEW a \in Addr,
             FanOut(a)
      PROVE  UNCHANGED <<lock, flag, sd>>
      BY <1>17, Zenon DEF FanOut
<1>18. ASSUME UNCHANGED vars
      PROVE  UNCHANGED <<lock, flag, sd>>
      BY <1>18 DEF vars, nodeVars
<1> QED
      BY <1>1, <1>2, <1>3, <1>4, <1>5, <1>6, <1>7, <1>8, <1>9, <1>10, <1>11, <1>12,
         <1>13, <1>14, <1>15, <1>16, <1>17, <1>18
      DEF Next, AdaptStream, Scheduling, Handling, Closing, HandlerExit, ShutDown

\* sched_in_flight is the number of guards: one more in adapt_stream, one less in each drop.
LEMMA NextSched ==
    ASSUME IInv, [Next]_vars
    PROVE  SchedExact'
<1> USE DEF To, connVars, closeVars, hookVars, handlerVars, shutVars, SdUnchanged
<1>0. TypeOK /\ SchedExact
      BY Zenon DEF IInv
<1>1. ASSUME NEW c \in Conn, Reserve(c)
      PROVE  SchedExact'
  <2>1. Scheduled' = Scheduled /\ sched' = sched
        BY <1>0, <1>1, Zenon DEF Reserve, TypeOK, Scheduled
  <2> QED
        BY <1>0, <2>1, Zenon DEF SchedExact
<1>2. ASSUME NEW c \in Conn, SetupFails(c)
      PROVE  SchedExact'
  <2>1. Scheduled' = Scheduled /\ sched' = sched
        BY <1>0, <1>2, Zenon DEF SetupFails, TypeOK, Scheduled
  <2> QED
        BY <1>0, <2>1, Zenon DEF SchedExact
<1>3. ASSUME NEW c \in Conn, StartGuard(c)
      PROVE  SchedExact'
  <2>1. c \notin Scheduled /\ Scheduled' = Scheduled \cup {c} /\ sched' = sched + 1
        BY <1>0, <1>3 DEF StartGuard, TypeOK, Scheduled
  <2>2. Cardinality(Scheduled') = Cardinality(Scheduled) + 1
        BY <2>1, ScheduledFinite, FS_AddElement, Zenon
  <2> QED
        BY <1>0, <2>1, <2>2, Zenon DEF SchedExact
<1>4. ASSUME NEW c \in Conn, AddLock(c)
      PROVE  SchedExact'
  <2>1. Scheduled' = Scheduled /\ sched' = sched
        BY <1>0, <1>4 DEF AddLock, TypeOK, Scheduled
  <2> QED
        BY <1>0, <2>1, Zenon DEF SchedExact
<1>5. ASSUME NEW c \in Conn, Refused(c)
      PROVE  SchedExact'
  <2>1. c \in Scheduled /\ Scheduled' = Scheduled \ {c} /\ sched' = sched - 1
        BY <1>0, <1>5, Zenon DEF Refused, sched_finished, TypeOK, Scheduled
  <2>2. Cardinality(Scheduled') = Cardinality(Scheduled) - 1
        BY <2>1, ScheduledFinite, FS_RemoveElement, Zenon
  <2> QED
        BY <1>0, <2>1, <2>2, Zenon DEF SchedExact
<1>6. ASSUME NEW c \in Conn, Insert(c)
      PROVE  SchedExact'
  <2>1. Scheduled' = Scheduled /\ sched' = sched
        BY <1>0, <1>6 DEF Insert, TypeOK, Scheduled
  <2> QED
        BY <1>0, <2>1, Zenon DEF SchedExact
<1>7. ASSUME NEW c \in Conn, ScheduleOnConnect(c)
      PROVE  SchedExact'
  <2>1. Scheduled' = Scheduled /\ sched' = sched
        BY <1>0, <1>7 DEF ScheduleOnConnect, TypeOK, Scheduled
  <2> QED
        BY <1>0, <2>1, Zenon DEF SchedExact
<1>8. ASSUME NEW c \in Conn, AttachOnConnect(c)
      PROVE  SchedExact'
  <2>1. Scheduled' = Scheduled /\ sched' = sched
        BY <1>0, <1>8 DEF AttachOnConnect, TypeOK, Scheduled
  <2> QED
        BY <1>0, <2>1, Zenon DEF SchedExact
<1>9. ASSUME NEW c \in Conn, StrandedOnConnect(c)
      PROVE  SchedExact'
  <2>1. Scheduled' = Scheduled /\ sched' = sched
        BY <1>0, <1>9 DEF StrandedOnConnect, TypeOK, Scheduled
  <2> QED
        BY <1>0, <2>1, Zenon DEF SchedExact
<1>10. ASSUME NEW c \in Conn, FinishScheduling(c)
      PROVE  SchedExact'
  <2>1. c \in Scheduled /\ Scheduled' = Scheduled \ {c} /\ sched' = sched - 1
        BY <1>0, <1>10, Zenon DEF FinishScheduling, sched_finished, TypeOK, Scheduled
  <2>2. Cardinality(Scheduled') = Cardinality(Scheduled) - 1
        BY <2>1, ScheduledFinite, FS_RemoveElement, Zenon
  <2> QED
        BY <1>0, <2>1, <2>2, Zenon DEF SchedExact
<1>11. ASSUME UNCHANGED <<pc, sched>>
      PROVE  SchedExact'
      BY <1>0, <1>11, Zenon DEF SchedExact, Scheduled
<1>12. ASSUME NEW c \in Conn,
             HandleOnConnect(c) \/ HandleOnDisconnect(c) \/ HookStarts(c) \/
             HookReturns(c) \/ HookPanics(c) \/ HookAborted(c) \/ Disconnect(c)
      PROVE  UNCHANGED <<pc, sched>>
      BY <1>12, Zenon DEF HandleOnConnect, HandleOnDisconnect, HookStarts, HookReturns,
          HookPanics, HookAborted, Disconnect
<1>13. ASSUME NEW c \in Conn,
             Recover(c) \/ TriggerOnDisconnect(c) \/ RegisterOnDisconnect(c) \/
             StrandedOnDisconnect(c) \/ OnDisconnectReturns(c) \/ HookAwaited(c) \/
             Finalize(c)
      PROVE  UNCHANGED <<pc, sched>>
      BY <1>13, Zenon DEF Recover, TriggerOnDisconnect, RegisterOnDisconnect,
          StrandedOnDisconnect, OnDisconnectReturns, HookAwaited, Finalize
<1>14. ASSUME NEW c \in Conn,
             CancelDisconnect(c)
      PROVE  UNCHANGED <<pc, sched>>
      BY <1>14, Zenon DEF CancelDisconnect
<1>15. ASSUME NEW h \in Hooks,
             HandlerCloses(h) \/ HandlerExits(h) \/ HandlerDropped(h)
      PROVE  UNCHANGED <<pc, sched>>
      BY <1>15, Zenon DEF HandlerCloses, HandlerExits, HandlerDropped
<1>16. ASSUME NEW a \in Addr,
             FanOut(a)
      PROVE  UNCHANGED <<pc, sched>>
      BY <1>16, Zenon DEF FanOut
<1>17. ASSUME Begin \/ Snapshot \/ FanOutDone \/ WaitActiveDrained \/
             wait_sched_drained \/ SignalHandlers \/ JoinHandlers \/ CancelShutdown \/
             UNCHANGED vars
      PROVE  UNCHANGED <<pc, sched>>
      BY <1>17, Zenon DEF Begin, Snapshot, FanOutDone, WaitActiveDrained, wait_sched_drained,
          SignalHandlers, JoinHandlers, CancelShutdown, vars, nodeVars
<1> QED
      BY <1>1, <1>2, <1>3, <1>4, <1>5, <1>6, <1>7, <1>8, <1>9, <1>10, <1>11, <1>12,
         <1>13, <1>14, <1>15, <1>16, <1>17, Zenon
      DEF Next, AdaptStream, Scheduling, Handling, Closing, HandlerExit, ShutDown

\* What shut_down has waited for does not come back: nobody is inserted, so nobody is scheduled.
LEMMA NextDrain ==
    ASSUME IInv, [Next]_vars
    PROVE  DrainLasts'
<1> USE DEF To, connVars, closeVars, hookVars, handlerVars, shutVars, SdUnchanged
<1>0. TypeOK /\ LockHeld /\ FlagCloses /\ SchedExact /\ DrainLasts
      BY Zenon DEF IInv
<1>1. ASSUME NEW c \in Conn, Reserve(c)
      PROVE  DrainLasts'
      BY <1>0, <1>1, Zenon DEF Reserve, TypeOK, LockHeld, FlagCloses, SchedExact, DrainLasts,
          AfterDrain, SchedWaiter
<1>2. ASSUME NEW c \in Conn, SetupFails(c)
      PROVE  DrainLasts'
      BY <1>0, <1>2 DEF SetupFails, TypeOK, LockHeld, FlagCloses, SchedExact,
          DrainLasts, AfterDrain, SchedWaiter
<1>3. ASSUME NEW c \in Conn, StartGuard(c)
      PROVE  DrainLasts'
      BY <1>0, <1>3 DEF StartGuard, TypeOK, LockHeld, FlagCloses, SchedExact,
          DrainLasts, AfterDrain, SchedWaiter
<1>4. ASSUME NEW c \in Conn, AddLock(c)
      PROVE  DrainLasts'
      BY <1>0, <1>4 DEF AddLock, TypeOK, LockHeld, FlagCloses, SchedExact, DrainLasts,
          AfterDrain, SchedWaiter
<1>5. ASSUME NEW c \in Conn, Refused(c)
      PROVE  DrainLasts'
      BY <1>0, <1>5 DEF Refused, sched_finished, Notify, TypeOK, LockHeld, FlagCloses,
          SchedExact, DrainLasts, AfterDrain, SchedWaiter
<1>6. ASSUME NEW c \in Conn, Insert(c)
      PROVE  DrainLasts'
      BY <1>0, <1>6, Zenon DEF Insert, TypeOK, LockHeld, FlagCloses, SchedExact, DrainLasts,
          AfterDrain, SchedWaiter
<1>7. ASSUME NEW c \in Conn, ScheduleOnConnect(c)
      PROVE  DrainLasts'
      BY <1>0, <1>7, Zenon DEF ScheduleOnConnect, TypeOK, LockHeld, FlagCloses, SchedExact,
          DrainLasts, AfterDrain, SchedWaiter
<1>8. ASSUME NEW c \in Conn, AttachOnConnect(c)
      PROVE  DrainLasts'
      BY <1>0, <1>8, Zenon DEF AttachOnConnect, Registered, TypeOK, LockHeld, FlagCloses,
          SchedExact, DrainLasts, AfterDrain, SchedWaiter
<1>9. ASSUME NEW c \in Conn, StrandedOnConnect(c)
      PROVE  DrainLasts'
      BY <1>0, <1>9, Zenon DEF StrandedOnConnect, GivenUp, TypeOK, LockHeld, FlagCloses,
          SchedExact, DrainLasts, AfterDrain, SchedWaiter
<1>10. ASSUME NEW c \in Conn, FinishScheduling(c)
      PROVE  DrainLasts'
      BY <1>0, <1>10, Zenon DEF FinishScheduling, sched_finished, Notify, TypeOK, LockHeld,
          FlagCloses, SchedExact, DrainLasts, AfterDrain, SchedWaiter
<1>11. ASSUME NEW c \in Conn, Finalize(c)
      PROVE  DrainLasts'
      BY <1>0, <1>11 DEF Finalize, Removed, Notify, TypeOK, LockHeld, FlagCloses,
          SchedExact, DrainLasts, AfterDrain, SchedWaiter
<1>12. CASE Begin
      BY <1>0, <1>12, Zenon DEF Begin, TypeOK, LockHeld, FlagCloses, SchedExact, DrainLasts,
          AfterDrain, SchedWaiter
<1>13. CASE Snapshot
      BY <1>0, <1>13, Zenon DEF Snapshot, TypeOK, LockHeld, FlagCloses, SchedExact, DrainLasts,
          AfterDrain, SchedWaiter
<1>14. CASE FanOutDone
      BY <1>0, <1>14, Zenon DEF FanOutDone, TypeOK, LockHeld, FlagCloses, SchedExact,
          DrainLasts, AfterDrain, SchedWaiter
<1>15. CASE WaitActiveDrained
      BY <1>0, <1>15, Zenon DEF WaitActiveDrained, wait_for_drain, TypeOK, LockHeld,
          FlagCloses, SchedExact, DrainLasts, AfterDrain, SchedWaiter
<1>16. CASE wait_sched_drained
  <2>1. sched = 0 => \A c \in Conn : pc[c] \notin {"sched", "triggered", "finishing"}
        BY <1>0, GuardCounted, Zenon DEF Scheduled
  <2>2. /\ UNCHANGED <<pc, active>>
        /\ sd \in {"sched", "sched_check", "sched_wait"}
        /\ sd' \in {"sched", "sched_check", "sched_wait"} \/ (sd' = "signal" /\ sched = 0)
        BY <1>16, Zenon DEF wait_sched_drained, wait_for_drain
  <2> QED
        BY <1>0, <2>1, <2>2, Zenon DEF DrainLasts, AfterDrain, SchedWaiter
<1>17. CASE SignalHandlers
      BY <1>0, <1>17, Zenon DEF SignalHandlers, TypeOK, LockHeld, FlagCloses, SchedExact,
          DrainLasts, AfterDrain, SchedWaiter
<1>18. CASE JoinHandlers
      BY <1>0, <1>18, Zenon DEF JoinHandlers, TypeOK, LockHeld, FlagCloses, SchedExact,
          DrainLasts, AfterDrain, SchedWaiter
<1>19. CASE CancelShutdown
      BY <1>0, <1>19, Zenon DEF CancelShutdown, TypeOK, LockHeld, FlagCloses, SchedExact,
          DrainLasts, AfterDrain, SchedWaiter
<1>20. ASSUME UNCHANGED <<pc, active, sd>>
      PROVE  DrainLasts'
      BY <1>0, <1>20, Zenon DEF DrainLasts, AfterDrain
<1>21. ASSUME NEW c \in Conn,
             HandleOnConnect(c) \/ HandleOnDisconnect(c) \/ HookStarts(c) \/
             HookReturns(c) \/ HookPanics(c) \/ HookAborted(c) \/ Disconnect(c)
      PROVE  UNCHANGED <<pc, active, sd>>
      BY <1>21, Zenon DEF HandleOnConnect, HandleOnDisconnect, HookStarts, HookReturns,
          HookPanics, HookAborted, Disconnect
<1>22. ASSUME NEW c \in Conn,
             Recover(c) \/ TriggerOnDisconnect(c) \/ RegisterOnDisconnect(c) \/
             StrandedOnDisconnect(c) \/ OnDisconnectReturns(c) \/ HookAwaited(c) \/
             CancelDisconnect(c)
      PROVE  UNCHANGED <<pc, active, sd>>
      BY <1>22, Zenon DEF Recover, TriggerOnDisconnect, RegisterOnDisconnect,
          StrandedOnDisconnect, OnDisconnectReturns, HookAwaited, CancelDisconnect
<1>23. ASSUME NEW h \in Hooks,
             HandlerCloses(h) \/ HandlerExits(h) \/ HandlerDropped(h)
      PROVE  UNCHANGED <<pc, active, sd>>
      BY <1>23, Zenon DEF HandlerCloses, HandlerExits, HandlerDropped
<1>24. ASSUME NEW a \in Addr,
             FanOut(a)
      PROVE  UNCHANGED <<pc, active, sd>>
      BY <1>24, Zenon DEF FanOut
<1>25. ASSUME UNCHANGED vars
      PROVE  UNCHANGED <<pc, active, sd>>
      BY <1>25, Zenon DEF vars, nodeVars
<1> QED
      BY <1>1, <1>2, <1>3, <1>4, <1>5, <1>6, <1>7, <1>8, <1>9, <1>10, <1>11, <1>12,
         <1>13, <1>14, <1>15, <1>16, <1>17, <1>18, <1>19, <1>20, <1>21, <1>22, <1>23,
         <1>24, <1>25
      DEF Next, AdaptStream, Scheduling, Handling, Closing, HandlerExit, ShutDown

\* Whoever empties what shut_down waits for also wakes it.
LEMMA NextWakeup ==
    ASSUME IInv, [Next]_vars
    PROVE  NoLostWakeup'
<1> USE DEF To, connVars, closeVars, hookVars, handlerVars, shutVars, SdUnchanged
<1>0. TypeOK /\ SchedExact /\ NoLostWakeup
      BY Zenon DEF IInv
<1>1. ASSUME NEW c \in Conn, StartGuard(c)
      PROVE  NoLostWakeup'
      BY <1>0, <1>1 DEF StartGuard, TypeOK, SchedExact, NoLostWakeup, DrainWaiter,
          SchedWaiter
<1>2. ASSUME NEW c \in Conn, Refused(c)
      PROVE  NoLostWakeup'
  <2>1. c \in Scheduled /\ sched' = sched - 1 /\ UNCHANGED <<active, sd>>
        BY <1>2, Zenon DEF Refused, sched_finished, Scheduled
  <2>2. sched \in Nat \ {0}
        BY <1>0, <2>1, GuardCounted, Zenon
  <2>3. notified => notified'
        BY <1>2, Zenon DEF Refused, sched_finished, Notify
  <2>4. sched = 1 /\ sd = "sched_wait" => notified'
        BY <1>2, Zenon DEF Refused, sched_finished, Notify, SchedWaiter
  <2>5. sched' = 0 => sched = 1
        BY <2>1, <2>2
  <2> QED
        BY <1>0, <2>1, <2>3, <2>4, <2>5, Zenon DEF NoLostWakeup
<1>3. ASSUME NEW c \in Conn, Insert(c)
      PROVE  NoLostWakeup'
      BY <1>0, <1>3, Zenon DEF Insert, TypeOK, SchedExact, NoLostWakeup, DrainWaiter,
          SchedWaiter
<1>4. ASSUME NEW c \in Conn, FinishScheduling(c)
      PROVE  NoLostWakeup'
  <2>1. c \in Scheduled /\ sched' = sched - 1 /\ UNCHANGED <<active, sd>>
        BY <1>4, Zenon DEF FinishScheduling, sched_finished, Scheduled
  <2>2. sched \in Nat \ {0}
        BY <1>0, <2>1, GuardCounted, Zenon
  <2>3. notified => notified'
        BY <1>4, Zenon DEF FinishScheduling, sched_finished, Notify
  <2>4. sched = 1 /\ sd = "sched_wait" => notified'
        BY <1>4, Zenon DEF FinishScheduling, sched_finished, Notify, SchedWaiter
  <2>5. sched' = 0 => sched = 1
        BY <2>1, <2>2
  <2> QED
        BY <1>0, <2>1, <2>3, <2>4, <2>5, Zenon DEF NoLostWakeup
<1>5. ASSUME NEW c \in Conn, Finalize(c)
      PROVE  NoLostWakeup'
      BY <1>0, <1>5, Zenon DEF Finalize, Removed, Notify, TypeOK, SchedExact, NoLostWakeup,
          DrainWaiter, SchedWaiter
<1>6. CASE Begin
      BY <1>0, <1>6, Zenon DEF Begin, TypeOK, SchedExact, NoLostWakeup, DrainWaiter,
          SchedWaiter
<1>7. CASE Snapshot
      BY <1>0, <1>7, Zenon DEF Snapshot, TypeOK, SchedExact, NoLostWakeup, DrainWaiter,
          SchedWaiter
<1>8. CASE FanOutDone
      BY <1>0, <1>8, Zenon DEF FanOutDone, TypeOK, SchedExact, NoLostWakeup, DrainWaiter,
          SchedWaiter
<1>9. CASE WaitActiveDrained
      BY <1>0, <1>9, Zenon DEF WaitActiveDrained, wait_for_drain, TypeOK, SchedExact,
          NoLostWakeup, DrainWaiter, SchedWaiter
<1>10. CASE wait_sched_drained
      BY <1>0, <1>10, Zenon DEF wait_sched_drained, wait_for_drain, TypeOK, SchedExact,
          NoLostWakeup, DrainWaiter, SchedWaiter
<1>11. CASE SignalHandlers
      BY <1>0, <1>11, Zenon DEF SignalHandlers, TypeOK, SchedExact, NoLostWakeup, DrainWaiter,
          SchedWaiter
<1>12. CASE JoinHandlers
      BY <1>0, <1>12, Zenon DEF JoinHandlers, TypeOK, SchedExact, NoLostWakeup, DrainWaiter,
          SchedWaiter
<1>13. CASE CancelShutdown
      BY <1>0, <1>13, Zenon DEF CancelShutdown, TypeOK, SchedExact, NoLostWakeup, DrainWaiter,
          SchedWaiter
<1>14. ASSUME UNCHANGED <<active, sched, sd, notified>>
      PROVE  NoLostWakeup'
      BY <1>0, <1>14, Zenon DEF NoLostWakeup
<1>15. ASSUME NEW c \in Conn,
             Reserve(c) \/ SetupFails(c) \/ AddLock(c) \/ ScheduleOnConnect(c) \/
             AttachOnConnect(c) \/ StrandedOnConnect(c) \/ HandleOnConnect(c)
      PROVE  UNCHANGED <<active, sched, sd, notified>>
      BY <1>15, Zenon DEF Reserve, SetupFails, AddLock, ScheduleOnConnect, AttachOnConnect,
          StrandedOnConnect, HandleOnConnect
<1>16. ASSUME NEW c \in Conn,
             HandleOnDisconnect(c) \/ HookStarts(c) \/ HookReturns(c) \/
             HookPanics(c) \/ HookAborted(c) \/ Disconnect(c) \/ Recover(c)
      PROVE  UNCHANGED <<active, sched, sd, notified>>
      BY <1>16, Zenon DEF HandleOnDisconnect, HookStarts, HookReturns, HookPanics, HookAborted,
          Disconnect, Recover
<1>17. ASSUME NEW c \in Conn,
             TriggerOnDisconnect(c) \/ RegisterOnDisconnect(c) \/
             StrandedOnDisconnect(c) \/ OnDisconnectReturns(c) \/ HookAwaited(c) \/
             CancelDisconnect(c)
      PROVE  UNCHANGED <<active, sched, sd, notified>>
      BY <1>17, Zenon DEF TriggerOnDisconnect, RegisterOnDisconnect, StrandedOnDisconnect,
          OnDisconnectReturns, HookAwaited, CancelDisconnect
<1>18. ASSUME NEW h \in Hooks,
             HandlerCloses(h) \/ HandlerExits(h) \/ HandlerDropped(h)
      PROVE  UNCHANGED <<active, sched, sd, notified>>
      BY <1>18, Zenon DEF HandlerCloses, HandlerExits, HandlerDropped
<1>19. ASSUME NEW a \in Addr,
             FanOut(a)
      PROVE  UNCHANGED <<active, sched, sd, notified>>
      BY <1>19, Zenon DEF FanOut
<1>20. ASSUME UNCHANGED vars
      PROVE  UNCHANGED <<active, sched, sd, notified>>
      BY <1>20, Zenon DEF vars, nodeVars
<1> QED
      BY <1>1, <1>2, <1>3, <1>4, <1>5, <1>6, <1>7, <1>8, <1>9, <1>10, <1>11, <1>12,
         <1>13, <1>14, <1>15, <1>16, <1>17, <1>18, <1>19, <1>20, Zenon
      DEF Next, AdaptStream, Scheduling, Handling, Closing, HandlerExit, ShutDown

\* Without ABORTABLE no hook is attached, and none aborted.
LEMMA NextDetached ==
    ASSUME IInv, [Next]_vars
    PROVE  Detached'
<1> USE DEF To, connVars, closeVars, hookVars, handlerVars, shutVars, SdUnchanged
<1>0. TypeOK /\ Detached
      BY Zenon DEF IInv
<1>1. ASSUME NEW c \in Conn, AttachOnConnect(c)
      PROVE  Detached'
      BY <1>0, <1>1, Zenon DEF AttachOnConnect, Registered, TypeOK, Detached
<1>2. ASSUME NEW c \in Conn, HandleOnConnect(c)
      PROVE  Detached'
      BY <1>0, <1>2 DEF HandleOnConnect, TypeOK, Detached
<1>3. ASSUME NEW c \in Conn, HookStarts(c)
      PROVE  Detached'
      BY <1>0, <1>3 DEF HookStarts, TypeOK, Detached
<1>4. ASSUME NEW c \in Conn, HookReturns(c)
      PROVE  Detached'
      BY <1>0, <1>4 DEF HookReturns, TypeOK, Detached
<1>5. ASSUME NEW c \in Conn, HookPanics(c)
      PROVE  Detached'
      BY <1>0, <1>5 DEF HookPanics, DropHookGuard, TypeOK, Detached
<1>6. ASSUME NEW c \in Conn, HookAborted(c)
      PROVE  Detached'
      BY <1>0, <1>6, Zenon DEF HookAborted, DropHookGuard, TypeOK, Detached
<1>7. ASSUME NEW c \in Conn, Finalize(c)
      PROVE  Detached'
      BY <1>0, <1>7, Zenon DEF Finalize, Removed, Notify, TypeOK, Detached
<1>8. ASSUME UNCHANGED <<attached, abort, on_connect>>
      PROVE  Detached'
      BY <1>0, <1>8, Zenon DEF Detached
<1>9. ASSUME NEW c \in Conn,
             Reserve(c) \/ SetupFails(c) \/ StartGuard(c) \/ AddLock(c) \/
             Refused(c) \/ Insert(c) \/ ScheduleOnConnect(c)
      PROVE  UNCHANGED <<attached, abort, on_connect>>
      BY <1>9, Zenon DEF Reserve, SetupFails, StartGuard, AddLock, Refused, Insert,
          ScheduleOnConnect
<1>10. ASSUME NEW c \in Conn,
             StrandedOnConnect(c) \/ FinishScheduling(c) \/ HandleOnDisconnect(c) \/
             Disconnect(c) \/ Recover(c) \/ TriggerOnDisconnect(c) \/
             RegisterOnDisconnect(c)
      PROVE  UNCHANGED <<attached, abort, on_connect>>
      BY <1>10, Zenon DEF StrandedOnConnect, FinishScheduling, HandleOnDisconnect, Disconnect,
          Recover, TriggerOnDisconnect, RegisterOnDisconnect
<1>11. ASSUME NEW c \in Conn,
             StrandedOnDisconnect(c) \/ OnDisconnectReturns(c) \/ HookAwaited(c) \/
             CancelDisconnect(c)
      PROVE  UNCHANGED <<attached, abort, on_connect>>
      BY <1>11, Zenon DEF StrandedOnDisconnect, OnDisconnectReturns, HookAwaited,
          CancelDisconnect
<1>12. ASSUME NEW h \in Hooks,
             HandlerCloses(h) \/ HandlerExits(h) \/ HandlerDropped(h)
      PROVE  UNCHANGED <<attached, abort, on_connect>>
      BY <1>12, Zenon DEF HandlerCloses, HandlerExits, HandlerDropped
<1>13. ASSUME NEW a \in Addr,
             FanOut(a)
      PROVE  UNCHANGED <<attached, abort, on_connect>>
      BY <1>13, Zenon DEF FanOut
<1>14. ASSUME Begin \/ Snapshot \/ FanOutDone \/ WaitActiveDrained \/
             wait_sched_drained \/ SignalHandlers \/ JoinHandlers \/ CancelShutdown \/
             UNCHANGED vars
      PROVE  UNCHANGED <<attached, abort, on_connect>>
      BY <1>14, Zenon DEF Begin, Snapshot, FanOutDone, WaitActiveDrained, wait_sched_drained,
          SignalHandlers, JoinHandlers, CancelShutdown, vars, nodeVars
<1> QED
      BY <1>1, <1>2, <1>3, <1>4, <1>5, <1>6, <1>7, <1>8, <1>9, <1>10, <1>11, <1>12,
         <1>13, <1>14, Zenon
      DEF Next, AdaptStream, Scheduling, Handling, Closing, HandlerExit, ShutDown

-----------------------------------------------------------------------------
(* The theorems. *)

\* The invariant of setups, schedulings, hooks, disconnects and shut_down.
THEOREM LifecycleInvariance == Spec => []IInv
<1>1. IInv /\ [Next]_vars => IInv'
      BY NextType, NextLock, NextFlag, NextSched, NextDrain, NextWakeup, NextDetached, Zenon
      DEF IInv
<1> QED
      BY <1>1, InitInv, PTL DEF Spec

\* When shut_down returns, no connection is registered and no OnConnect scheduling is
\* under way, also after earlier calls that were dropped.
THEOREM NothingIsLeft == Spec => []ShutdownLeavesNothing
<1>1. IInv => ShutdownLeavesNothing
      BY Zenon DEF IInv, DrainLasts, AfterDrain, ShutdownLeavesNothing
<1> QED
      BY <1>1, LifecycleInvariance, PTL

\* shut_down never sleeps on a condition that already holds without a wake-up on its way.
THEOREM NoWakeupIsLost == Spec => []NoLostWakeup
<1>1. IInv => NoLostWakeup
      BY Zenon DEF IInv
<1> QED
      BY <1>1, LifecycleInvariance, PTL

\* With ABORTABLE = false no OnConnect hook is ever aborted.
THEOREM DetachedHooksComplete == Spec => []DetachedRunsToCompletion
<1>1. IInv => DetachedRunsToCompletion
      BY Zenon DEF IInv, Detached, DetachedRunsToCompletion
<1> QED
      BY <1>1, LifecycleInvariance, PTL

\* No connection is inserted once the snapshot has been taken: Connections::add reads the
\* flag under the lock that the snapshot takes.
THEOREM SnapshotIsFinal == Spec => NoInsertAfterSnapshot
<1> DEFINE Kept == (flag /\ sd # "snapshot") =>
                      \A a \in Addr : active'[a] \in {active[a], NoConn}
<1>1. ASSUME IInv, Next PROVE Kept
  <2> USE DEF To, connVars, closeVars, hookVars, handlerVars, shutVars, SdUnchanged
  <2>0. /\ active \in [Addr -> Conn \cup {NoConn}]
        /\ LockHeld /\ FlagCloses
        BY <1>1, Zenon DEF IInv, TypeOK
  <2>1. ASSUME NEW c \in Conn, Insert(c) PROVE Kept
        BY <2>0, <2>1, Zenon DEF Insert, LockHeld, FlagCloses
  <2>2. ASSUME NEW c \in Conn, Finalize(c) PROVE Kept
        BY <2>0, <2>2, Zenon DEF Finalize, Removed
  <2>3. ASSUME NEW c \in Conn,
               Reserve(c) \/ SetupFails(c) \/ StartGuard(c) \/ AddLock(c) \/
               Refused(c) \/ ScheduleOnConnect(c) \/ AttachOnConnect(c)
        PROVE  active' = active
        BY <2>3, Zenon DEF Reserve, SetupFails, StartGuard, AddLock, Refused,
            ScheduleOnConnect, AttachOnConnect
  <2>4. ASSUME NEW c \in Conn,
               StrandedOnConnect(c) \/ FinishScheduling(c) \/ HandleOnConnect(c) \/
               HandleOnDisconnect(c) \/ HookStarts(c) \/ HookReturns(c) \/
               HookPanics(c)
        PROVE  active' = active
        BY <2>4, Zenon DEF StrandedOnConnect, FinishScheduling, HandleOnConnect,
            HandleOnDisconnect, HookStarts, HookReturns, HookPanics
  <2>5. ASSUME NEW c \in Conn,
               HookAborted(c) \/ Disconnect(c) \/ Recover(c) \/
               TriggerOnDisconnect(c) \/ RegisterOnDisconnect(c) \/
               StrandedOnDisconnect(c) \/ OnDisconnectReturns(c)
        PROVE  active' = active
        BY <2>5, Zenon DEF HookAborted, Disconnect, Recover, TriggerOnDisconnect,
            RegisterOnDisconnect, StrandedOnDisconnect, OnDisconnectReturns
  <2>6. ASSUME NEW c \in Conn,
               HookAwaited(c) \/ CancelDisconnect(c)
        PROVE  active' = active
        BY <2>6, Zenon DEF HookAwaited, CancelDisconnect
  <2>7. ASSUME NEW h \in Hooks,
               HandlerCloses(h) \/ HandlerExits(h) \/ HandlerDropped(h)
        PROVE  active' = active
        BY <2>7, Zenon DEF HandlerCloses, HandlerExits, HandlerDropped
  <2>8. ASSUME NEW a \in Addr,
               FanOut(a)
        PROVE  active' = active
        BY <2>8, Zenon DEF FanOut
  <2>9. ASSUME Begin \/ Snapshot \/ FanOutDone \/ WaitActiveDrained \/
               wait_sched_drained \/ SignalHandlers \/ JoinHandlers \/ CancelShutdown
        PROVE  active' = active
        BY <2>9, Zenon DEF Begin, Snapshot, FanOutDone, WaitActiveDrained, wait_sched_drained,
            SignalHandlers, JoinHandlers, CancelShutdown
  <2> QED
        BY <1>1, <2>1, <2>2, <2>3, <2>4, <2>5, <2>6, <2>7, <2>8, <2>9, Zenon
        DEF Next, AdaptStream, Scheduling, Handling, Closing, HandlerExit, ShutDown
<1>2. IInv /\ [Next]_vars => [Kept]_vars
      BY <1>1, Zenon
<1>3. []IInv /\ [][Next]_vars => [][Kept]_vars
      BY <1>2, PTL
<1> QED
      BY <1>3, LifecycleInvariance, PTL DEF Spec, NoInsertAfterSnapshot

-----------------------------------------------------------------------------
(* The hooks: the parts of their invariant, one lemma each, one step for each action. *)

\* A new node has no connection and no hook.
LEMMA InitHooks == Init => HookInv
<1> SUFFICES ASSUME Init PROVE HookInv
    BY Zenon
<1>1. AddressExclusive /\ CloseOwned
      BY Zenon DEF Init, AddressExclusive, CloseOwned, Registered, Pending
<1>2. HandlersLast /\ ConnectStages /\ DisconnectStages /\ HooksAttached
      BY Zenon DEF Init, HandlersLast, ConnectStages, DisconnectStages, HooksAttached, Hooks
<1> QED
      BY <1>1, <1>2, Zenon DEF HookInv

\* One instance at a time has an address.
LEMMA NextAddress ==
    ASSUME IInv, HookInv, [Next]_vars
    PROVE  AddressExclusive'
<1> USE DEF To, Hooks, connVars, closeVars, hookVars, handlerVars, shutVars, SdUnchanged
<1>0. /\ AddressExclusive /\ hard_abort' = hard_abort
      /\ pc \in [Conn -> Pending \cup {"idle", "sched", "triggered", "finishing", "done", "gone"}]
      /\ active \in [Addr -> Conn \cup {NoConn}]
      BY Zenon DEF IInv, HookInv, TypeOK, Next, vars
<1>1. ASSUME NEW c \in Conn, Reserve(c)
      PROVE  AddressExclusive'
      BY <1>0, <1>1 DEF Reserve, AddressExclusive, Registered, Pending
<1>2. ASSUME NEW c \in Conn, SetupFails(c)
      PROVE  AddressExclusive'
      BY <1>0, <1>2, Zenon DEF SetupFails, AddressExclusive, Registered, Pending
<1>3. ASSUME NEW c \in Conn, StartGuard(c)
      PROVE  AddressExclusive'
      BY <1>0, <1>3, Zenon DEF StartGuard, AddressExclusive, Registered, Pending
<1>4. ASSUME NEW c \in Conn, AddLock(c)
      PROVE  AddressExclusive'
      BY <1>0, <1>4 DEF AddLock, AddressExclusive, Registered, Pending
<1>5. ASSUME NEW c \in Conn, Refused(c)
      PROVE  AddressExclusive'
      BY <1>0, <1>5, Zenon DEF Refused, sched_finished, Notify, AddressExclusive, Registered, Pending
<1>6. ASSUME NEW c \in Conn, Insert(c)
      PROVE  AddressExclusive'
      BY <1>0, <1>6, Zenon DEF Insert, AddressExclusive, Registered, Pending
<1>7. ASSUME NEW c \in Conn, ScheduleOnConnect(c)
      PROVE  AddressExclusive'
      BY <1>0, <1>7 DEF ScheduleOnConnect, AddressExclusive, Registered, Pending
<1>8. ASSUME NEW c \in Conn, AttachOnConnect(c)
      PROVE  AddressExclusive'
      BY <1>0, <1>8, Zenon DEF AttachOnConnect, AddressExclusive, Registered, Pending
<1>9. ASSUME NEW c \in Conn, StrandedOnConnect(c)
      PROVE  AddressExclusive'
      BY <1>0, <1>9, Zenon DEF StrandedOnConnect, GivenUp, AddressExclusive, Registered, Pending
<1>10. ASSUME NEW c \in Conn, FinishScheduling(c)
      PROVE  AddressExclusive'
      BY <1>0, <1>10, Zenon DEF FinishScheduling, sched_finished, Notify, AddressExclusive, Registered, Pending
<1>11. ASSUME NEW c \in Conn, Finalize(c)
      PROVE  AddressExclusive'
      BY <1>0, <1>11, Zenon DEF Finalize, Removed, Notify, AddressExclusive, Registered, Pending
<1>12. ASSUME UNCHANGED <<pc, active>>
      PROVE  AddressExclusive'
      BY <1>0, <1>12, Zenon DEF AddressExclusive, Registered, Pending
<1>13. ASSUME NEW c \in Conn, HandleOnConnect(c) \/ HandleOnDisconnect(c) \/ HookStarts(c)
             \/ HookReturns(c) \/ HookPanics(c) \/ HookAborted(c) \/ Disconnect(c)
      PROVE  UNCHANGED <<pc, active>>
      BY <1>13, Zenon DEF HandleOnConnect, HandleOnDisconnect, HookStarts, HookReturns, HookPanics,
          HookAborted, Disconnect
<1>14. ASSUME NEW c \in Conn, Recover(c) \/ TriggerOnDisconnect(c) \/
             RegisterOnDisconnect(c) \/ StrandedOnDisconnect(c) \/ OnDisconnectReturns(c) \/
             HookAwaited(c) \/ CancelDisconnect(c)
      PROVE  UNCHANGED <<pc, active>>
      BY <1>14, Zenon DEF Recover, TriggerOnDisconnect, RegisterOnDisconnect, StrandedOnDisconnect,
          OnDisconnectReturns, HookAwaited, CancelDisconnect
<1>15. ASSUME NEW h \in Hooks, HandlerCloses(h) \/ HandlerExits(h) \/ HandlerDropped(h)
      PROVE  UNCHANGED <<pc, active>>
      BY <1>15, Zenon DEF HandlerCloses, HandlerExits, HandlerDropped
<1>16. ASSUME NEW a \in Addr, FanOut(a)
      PROVE  UNCHANGED <<pc, active>>
      BY <1>16, Zenon DEF FanOut
<1>17. ASSUME Begin \/ Snapshot \/ FanOutDone \/ WaitActiveDrained \/ wait_sched_drained \/
             SignalHandlers \/ JoinHandlers \/ CancelShutdown \/ UNCHANGED vars
      PROVE  UNCHANGED <<pc, active>>
      BY <1>17, Zenon DEF Begin, Snapshot, FanOutDone, WaitActiveDrained, wait_sched_drained,
          SignalHandlers, JoinHandlers, CancelShutdown, vars, nodeVars
<1> QED
      BY <1>1, <1>2, <1>3, <1>4, <1>5, <1>6, <1>7, <1>8, <1>9, <1>10, <1>11, <1>12,
         <1>13, <1>14, <1>15, <1>16, <1>17
      DEF Next, AdaptStream, Scheduling, Handling, Closing, HandlerExit, ShutDown

\* A disconnect keeps its instance registered until the end.
LEMMA NextClose ==
    ASSUME IInv, HookInv, [Next]_vars
    PROVE  CloseOwned'
<1> USE DEF To, Hooks, connVars, closeVars, hookVars, handlerVars, shutVars, SdUnchanged
<1>0. /\ AddressExclusive /\ CloseOwned /\ hard_abort' = hard_abort
      /\ active \in [Addr -> Conn \cup {NoConn}]
      /\ claimed \subseteq Conn
      /\ close \in [Conn -> {"none", "claimed", "triggered", "waiting", "finalize", "done"}]
      BY Zenon DEF IInv, HookInv, TypeOK, Next, vars
<1>1. ASSUME NEW c \in Conn, Insert(c)
      PROVE  CloseOwned'
      BY <1>0, <1>1 DEF Insert, CloseOwned, Registered, AddressExclusive, Pending
<1>2. ASSUME NEW c \in Conn, Disconnect(c)
      PROVE  CloseOwned'
      BY <1>0, <1>2, Zenon DEF Disconnect, Claimable, Claim, CloseOwned, Registered
<1>3. ASSUME NEW c \in Conn, Recover(c)
      PROVE  CloseOwned'
      BY <1>0, <1>3 DEF Recover, Claimable, Claim, CloseOwned, Registered
<1>4. ASSUME NEW c \in Conn, TriggerOnDisconnect(c)
      PROVE  CloseOwned'
      BY <1>0, <1>4, Zenon DEF TriggerOnDisconnect, CloseOwned, Registered
<1>5. ASSUME NEW c \in Conn, RegisterOnDisconnect(c)
      PROVE  CloseOwned'
      BY <1>0, <1>5, Zenon DEF RegisterOnDisconnect, CloseOwned, Registered
<1>6. ASSUME NEW c \in Conn, StrandedOnDisconnect(c)
      PROVE  CloseOwned'
      BY <1>0, <1>6, Zenon DEF StrandedOnDisconnect, GivenUp, CloseOwned, Registered
<1>7. ASSUME NEW c \in Conn, HookAwaited(c)
      PROVE  CloseOwned'
      BY <1>0, <1>7, Zenon DEF HookAwaited, CloseOwned, Registered
<1>8. ASSUME NEW c \in Conn, Finalize(c)
      PROVE  CloseOwned'
      BY <1>0, <1>8, Zenon DEF Finalize, Removed, Notify, CloseOwned, Registered
<1>9. ASSUME NEW c \in Conn, CancelDisconnect(c)
      PROVE  CloseOwned'
      BY <1>0, <1>9, Zenon DEF CancelDisconnect, CloseOwned, Registered
<1>10. ASSUME NEW a \in Addr, FanOut(a)
      PROVE  CloseOwned'
  <2>1. active[a] # NoConn => active[a] \in Conn /\ Registered(active[a])
        BY <1>0 DEF AddressExclusive, Registered
  <2> QED
        BY <1>0, <1>10, <2>1 DEF FanOut, Claim, CloseOwned, Registered
<1>11. CASE CancelShutdown
      BY <1>0, <1>11, Zenon DEF CancelShutdown, CloseOwned, Registered
<1>12. ASSUME UNCHANGED <<active, claimed, close>>
      PROVE  CloseOwned'
      BY <1>0, <1>12, Zenon DEF CloseOwned, Registered
<1>13. ASSUME NEW c \in Conn, Reserve(c) \/ SetupFails(c) \/ StartGuard(c) \/ AddLock(c) \/
             Refused(c) \/ ScheduleOnConnect(c) \/ AttachOnConnect(c)
      PROVE  UNCHANGED <<active, claimed, close>>
      BY <1>13, Zenon DEF Reserve, SetupFails, StartGuard, AddLock, Refused, ScheduleOnConnect,
          AttachOnConnect
<1>14. ASSUME NEW c \in Conn, StrandedOnConnect(c) \/ FinishScheduling(c) \/
             HandleOnConnect(c) \/ HandleOnDisconnect(c) \/ HookStarts(c) \/ HookReturns(c)
             \/ HookPanics(c)
      PROVE  UNCHANGED <<active, claimed, close>>
      BY <1>14, Zenon DEF StrandedOnConnect, FinishScheduling, HandleOnConnect, HandleOnDisconnect,
          HookStarts, HookReturns, HookPanics
<1>15. ASSUME NEW c \in Conn, HookAborted(c) \/ OnDisconnectReturns(c)
      PROVE  UNCHANGED <<active, claimed, close>>
      BY <1>15, Zenon DEF HookAborted, OnDisconnectReturns
<1>16. ASSUME NEW h \in Hooks, HandlerCloses(h) \/ HandlerExits(h) \/ HandlerDropped(h)
      PROVE  UNCHANGED <<active, claimed, close>>
      BY <1>16, Zenon DEF HandlerCloses, HandlerExits, HandlerDropped
<1>17. ASSUME Begin \/ Snapshot \/ FanOutDone \/ WaitActiveDrained \/ wait_sched_drained \/
             SignalHandlers \/ JoinHandlers \/ UNCHANGED vars
      PROVE  UNCHANGED <<active, claimed, close>>
      BY <1>17, Zenon DEF Begin, Snapshot, FanOutDone, WaitActiveDrained, wait_sched_drained,
          SignalHandlers, JoinHandlers, vars, nodeVars
<1> QED
      BY <1>1, <1>2, <1>3, <1>4, <1>5, <1>6, <1>7, <1>8, <1>9, <1>10, <1>11, <1>12,
         <1>13, <1>14, <1>15, <1>16, <1>17, ZenonT(30)
      DEF Next, AdaptStream, Scheduling, Handling, Closing, HandlerExit, ShutDown

\* The handlers stay open until the last stage of shut_down.
LEMMA NextHandlers ==
    ASSUME IInv, HookInv, [Next]_vars
    PROVE  HandlersLast'
<1> USE DEF To, Hooks, connVars, closeVars, hookVars, handlerVars, shutVars, SdUnchanged
<1>0. /\ HandlersLast /\ hard_abort' = hard_abort
      /\ queue \in [Hooks -> SUBSET Conn]
      /\ handler \in [Hooks -> {"open", "draining", "exited"}]
      BY Zenon DEF IInv, HookInv, TypeOK, Next, vars
<1>1. ASSUME NEW c \in Conn, ScheduleOnConnect(c)
      PROVE  HandlersLast'
      BY <1>0, <1>1, Zenon DEF ScheduleOnConnect, HandlersLast
<1>2. ASSUME NEW c \in Conn, HandleOnConnect(c)
      PROVE  HandlersLast'
      BY <1>0, <1>2, Zenon DEF HandleOnConnect, HandlersLast
<1>3. ASSUME NEW c \in Conn, HandleOnDisconnect(c)
      PROVE  HandlersLast'
      BY <1>0, <1>3, Zenon DEF HandleOnDisconnect, HandlersLast
<1>4. ASSUME NEW c \in Conn, TriggerOnDisconnect(c)
      PROVE  HandlersLast'
      BY <1>0, <1>4, Zenon DEF TriggerOnDisconnect, HandlersLast
<1>5. ASSUME NEW h \in Hooks, HandlerCloses(h)
      PROVE  HandlersLast'
      BY <1>0, <1>5, Zenon DEF HandlerCloses, HandlersLast
<1>6. ASSUME NEW h \in Hooks, HandlerExits(h)
      PROVE  HandlersLast'
      BY <1>0, <1>6, Zenon DEF HandlerExits, HandlersLast
<1>7. ASSUME NEW h \in Hooks, HandlerDropped(h)
      PROVE  HandlersLast'
      BY <1>0, <1>7, Zenon DEF HandlerDropped, HandlersLast
<1>8. CASE Begin
      BY <1>0, <1>8, Zenon DEF Begin, HandlersLast
<1>9. CASE Snapshot
      BY <1>0, <1>9, Zenon DEF Snapshot, HandlersLast
<1>10. CASE FanOutDone
      BY <1>0, <1>10, Zenon DEF FanOutDone, HandlersLast
<1>11. CASE WaitActiveDrained
      BY <1>0, <1>11, Zenon DEF WaitActiveDrained, wait_for_drain, HandlersLast
<1>12. CASE wait_sched_drained
      BY <1>0, <1>12, Zenon DEF wait_sched_drained, wait_for_drain, HandlersLast
<1>13. CASE SignalHandlers
      BY <1>0, <1>13, Zenon DEF SignalHandlers, HandlersLast
<1>14. CASE JoinHandlers
      BY <1>0, <1>14, Zenon DEF JoinHandlers, HandlersLast
<1>15. CASE CancelShutdown
      BY <1>0, <1>15, Zenon DEF CancelShutdown, HandlersLast
<1>16. ASSUME UNCHANGED <<queue, handler, hard, signal, sd>>
      PROVE  HandlersLast'
      BY <1>0, <1>16, Zenon DEF HandlersLast
<1>17. ASSUME NEW c \in Conn, Reserve(c) \/ SetupFails(c) \/ StartGuard(c) \/ AddLock(c) \/
             Refused(c) \/ Insert(c) \/ AttachOnConnect(c)
      PROVE  UNCHANGED <<queue, handler, hard, signal, sd>>
      BY <1>17, Zenon DEF Reserve, SetupFails, StartGuard, AddLock, Refused, Insert,
          AttachOnConnect
<1>18. ASSUME NEW c \in Conn, StrandedOnConnect(c) \/ FinishScheduling(c) \/ HookStarts(c)
             \/ HookReturns(c) \/ HookPanics(c) \/ HookAborted(c) \/ Disconnect(c)
      PROVE  UNCHANGED <<queue, handler, hard, signal, sd>>
      BY <1>18, Zenon DEF StrandedOnConnect, FinishScheduling, HookStarts, HookReturns, HookPanics,
          HookAborted, Disconnect
<1>19. ASSUME NEW c \in Conn, Recover(c) \/ RegisterOnDisconnect(c) \/
             StrandedOnDisconnect(c) \/ OnDisconnectReturns(c) \/ HookAwaited(c) \/
             Finalize(c) \/ CancelDisconnect(c)
      PROVE  UNCHANGED <<queue, handler, hard, signal, sd>>
      BY <1>19, Zenon DEF Recover, RegisterOnDisconnect, StrandedOnDisconnect, OnDisconnectReturns,
          HookAwaited, Finalize, CancelDisconnect
<1>20. ASSUME NEW a \in Addr, FanOut(a)
      PROVE  UNCHANGED <<queue, handler, hard, signal, sd>>
      BY <1>20, Zenon DEF FanOut
<1>21. ASSUME UNCHANGED vars
      PROVE  UNCHANGED <<queue, handler, hard, signal, sd>>
      BY <1>21, Zenon DEF vars, nodeVars
<1> QED
      BY <1>1, <1>2, <1>3, <1>4, <1>5, <1>6, <1>7, <1>8, <1>9, <1>10, <1>11, <1>12,
         <1>13, <1>14, <1>15, <1>16, <1>17, <1>18, <1>19, <1>20, <1>21, Zenon
      DEF Next, AdaptStream, Scheduling, Handling, Closing, HandlerExit, ShutDown

\* The scheduling task and the handler agree on the on_connect hook.
LEMMA NextConnect ==
    ASSUME IInv, HookInv, [Next]_vars
    PROVE  ConnectStages'
<1> USE DEF To, Hooks, connVars, closeVars, hookVars, handlerVars, shutVars, SdUnchanged
<1>0. /\ DrainLasts /\ HandlersLast /\ ConnectStages /\ hard_abort' = hard_abort
      /\ pc \in [Conn -> Pending \cup {"idle", "sched", "triggered", "finishing", "done", "gone"}]
      /\ on_connect \in [Conn -> {"none", "spawned", "running", "done", "panicked", "aborted"}]
      /\ queue \in [Hooks -> SUBSET Conn]
      BY Zenon DEF IInv, HookInv, TypeOK, Next, vars
<1>1. ASSUME NEW c \in Conn, Reserve(c)
      PROVE  ConnectStages'
      BY <1>0, <1>1, Zenon DEF Reserve, ConnectStages
<1>2. ASSUME NEW c \in Conn, SetupFails(c)
      PROVE  ConnectStages'
      BY <1>0, <1>2, Zenon DEF SetupFails, ConnectStages
<1>3. ASSUME NEW c \in Conn, StartGuard(c)
      PROVE  ConnectStages'
      BY <1>0, <1>3, Zenon DEF StartGuard, ConnectStages
<1>4. ASSUME NEW c \in Conn, AddLock(c)
      PROVE  ConnectStages'
      BY <1>0, <1>4 DEF AddLock, ConnectStages
<1>5. ASSUME NEW c \in Conn, Refused(c)
      PROVE  ConnectStages'
      BY <1>0, <1>5, Zenon DEF Refused, sched_finished, Notify, ConnectStages
<1>6. ASSUME NEW c \in Conn, Insert(c)
      PROVE  ConnectStages'
      BY <1>0, <1>6, Zenon DEF Insert, ConnectStages
<1>7. ASSUME NEW c \in Conn, ScheduleOnConnect(c)
      PROVE  ConnectStages'
  <2>1. ~hard_abort => handler["OnConnect"] = "open"
        BY <1>0, <1>7, Zenon DEF ScheduleOnConnect, HandlersLast, DrainLasts
  <2> QED
        BY <1>0, <1>7, <2>1 DEF ScheduleOnConnect, ConnectStages
<1>8. ASSUME NEW c \in Conn, AttachOnConnect(c)
      PROVE  ConnectStages'
      BY <1>0, <1>8, Zenon DEF AttachOnConnect, ConnectStages
<1>9. ASSUME NEW c \in Conn, StrandedOnConnect(c)
      PROVE  ConnectStages'
  <2>1. hard_abort
        BY <1>0, <1>9, Zenon DEF StrandedOnConnect, GivenUp, HandlersLast, ConnectStages
  <2> QED
        BY <1>0, <1>9, <2>1, Zenon DEF StrandedOnConnect, ConnectStages
<1>10. ASSUME NEW c \in Conn, FinishScheduling(c)
      PROVE  ConnectStages'
      BY <1>0, <1>10, Zenon DEF FinishScheduling, sched_finished, Notify, ConnectStages
<1>11. ASSUME NEW c \in Conn, HandleOnConnect(c)
      PROVE  ConnectStages'
      BY <1>0, <1>11, Zenon DEF HandleOnConnect, ConnectStages
<1>12. ASSUME NEW c \in Conn, HandleOnDisconnect(c)
      PROVE  ConnectStages'
      BY <1>0, <1>12, Zenon DEF HandleOnDisconnect, ConnectStages
<1>13. ASSUME NEW c \in Conn, HookStarts(c)
      PROVE  ConnectStages'
      BY <1>0, <1>13, Zenon DEF HookStarts, ConnectStages
<1>14. ASSUME NEW c \in Conn, HookReturns(c)
      PROVE  ConnectStages'
      BY <1>0, <1>14, Zenon DEF HookReturns, ConnectStages
<1>15. ASSUME NEW c \in Conn, HookPanics(c)
      PROVE  ConnectStages'
      BY <1>0, <1>15, Zenon DEF HookPanics, DropHookGuard, ConnectStages
<1>16. ASSUME NEW c \in Conn, HookAborted(c)
      PROVE  ConnectStages'
      BY <1>0, <1>16, Zenon DEF HookAborted, DropHookGuard, ConnectStages
<1>17. ASSUME NEW c \in Conn, TriggerOnDisconnect(c)
      PROVE  ConnectStages'
      BY <1>0, <1>17 DEF TriggerOnDisconnect, ConnectStages
<1>18. ASSUME NEW h \in Hooks, HandlerDropped(h)
      PROVE  ConnectStages'
  <2>1. hard_abort
        BY <1>0, <1>18, Zenon DEF HandlerDropped, HandlersLast
  <2> QED
        BY <1>0, <1>18, <2>1, Zenon DEF HandlerDropped, ConnectStages
<1>19. ASSUME UNCHANGED <<pc, on_connect, queue>>
      PROVE  ConnectStages'
      BY <1>0, <1>19, Zenon DEF ConnectStages
<1>20. ASSUME NEW c \in Conn, Disconnect(c) \/ Recover(c) \/ RegisterOnDisconnect(c) \/
             StrandedOnDisconnect(c) \/ OnDisconnectReturns(c) \/ HookAwaited(c) \/
             Finalize(c)
      PROVE  UNCHANGED <<pc, on_connect, queue>>
      BY <1>20, Zenon DEF Disconnect, Recover, RegisterOnDisconnect, StrandedOnDisconnect,
          OnDisconnectReturns, HookAwaited, Finalize
<1>21. ASSUME NEW c \in Conn, CancelDisconnect(c)
      PROVE  UNCHANGED <<pc, on_connect, queue>>
      BY <1>21, Zenon DEF CancelDisconnect
<1>22. ASSUME NEW h \in Hooks, HandlerCloses(h) \/ HandlerExits(h)
      PROVE  UNCHANGED <<pc, on_connect, queue>>
      BY <1>22, Zenon DEF HandlerCloses, HandlerExits
<1>23. ASSUME NEW a \in Addr, FanOut(a)
      PROVE  UNCHANGED <<pc, on_connect, queue>>
      BY <1>23, Zenon DEF FanOut
<1>24. ASSUME Begin \/ Snapshot \/ FanOutDone \/ WaitActiveDrained \/ wait_sched_drained \/
             SignalHandlers \/ JoinHandlers \/ CancelShutdown \/ UNCHANGED vars
      PROVE  UNCHANGED <<pc, on_connect, queue>>
      BY <1>24, Zenon DEF Begin, Snapshot, FanOutDone, WaitActiveDrained, wait_sched_drained,
          SignalHandlers, JoinHandlers, CancelShutdown, vars, nodeVars
<1> QED
      BY <1>1, <1>2, <1>3, <1>4, <1>5, <1>6, <1>7, <1>8, <1>9, <1>10, <1>11, <1>12,
         <1>13, <1>14, <1>15, <1>16, <1>17, <1>18, <1>19, <1>20, <1>21, <1>22, <1>23,
         <1>24, Zenon
      DEF Next, AdaptStream, Scheduling, Handling, Closing, HandlerExit, ShutDown

\* The disconnect and the handler agree on the on_disconnect hook.
LEMMA NextDisconnect ==
    ASSUME IInv, HookInv, [Next]_vars
    PROVE  DisconnectStages'
<1> USE DEF To, Hooks, connVars, closeVars, hookVars, handlerVars, shutVars, SdUnchanged
<1>0. /\ DrainLasts /\ CloseOwned /\ HandlersLast /\ DisconnectStages /\ hard_abort' = hard_abort
      /\ active \in [Addr -> Conn \cup {NoConn}]
      /\ close \in [Conn -> {"none", "claimed", "triggered", "waiting", "finalize", "done"}]
      /\ cancelled \subseteq Conn
      /\ on_disconnect \in [Conn -> {"none", "running", "owned", "finished", "aborted"}]
      /\ queue \in [Hooks -> SUBSET Conn]
      BY Zenon DEF IInv, HookInv, TypeOK, Next, vars
<1>1. ASSUME NEW c \in Conn, ScheduleOnConnect(c)
      PROVE  DisconnectStages'
      BY <1>0, <1>1, Zenon DEF ScheduleOnConnect, DisconnectStages
<1>2. ASSUME NEW c \in Conn, HandleOnConnect(c)
      PROVE  DisconnectStages'
      BY <1>0, <1>2, Zenon DEF HandleOnConnect, DisconnectStages
<1>3. ASSUME NEW c \in Conn, HandleOnDisconnect(c)
      PROVE  DisconnectStages'
      BY <1>0, <1>3, Zenon DEF HandleOnDisconnect, DisconnectStages
<1>4. ASSUME NEW c \in Conn, Disconnect(c)
      PROVE  DisconnectStages'
      BY <1>0, <1>4, Zenon DEF Disconnect, Claimable, Claim, CloseOwned, DisconnectStages
<1>5. ASSUME NEW c \in Conn, Recover(c)
      PROVE  DisconnectStages'
      BY <1>0, <1>5 DEF Recover, Claimable, Claim, CloseOwned, DisconnectStages
<1>6. ASSUME NEW c \in Conn, TriggerOnDisconnect(c)
      PROVE  DisconnectStages'
  <2>1. active[AddrOf[c]] # NoConn /\ AddrOf[c] \in Addr
        BY <1>0, <1>6, Zenon DEF TriggerOnDisconnect, CloseOwned, Registered
  <2>2. ~hard_abort => handler["OnDisconnect"] = "open"
        BY <1>0, <2>1, Zenon DEF HandlersLast, DrainLasts, AfterDrain
  <2> QED
        BY <1>0, <1>6, <2>2 DEF TriggerOnDisconnect, DisconnectStages
<1>7. ASSUME NEW c \in Conn, RegisterOnDisconnect(c)
      PROVE  DisconnectStages'
      BY <1>0, <1>7, Zenon DEF RegisterOnDisconnect, DisconnectStages
<1>8. ASSUME NEW c \in Conn, StrandedOnDisconnect(c)
      PROVE  DisconnectStages'
  <2>1. hard_abort \/ c \in cancelled
        BY <1>0, <1>8, Zenon DEF StrandedOnDisconnect, GivenUp, HandlersLast, DisconnectStages
  <2> QED
        BY <1>0, <1>8, <2>1, Zenon DEF StrandedOnDisconnect, DisconnectStages
<1>9. ASSUME NEW c \in Conn, OnDisconnectReturns(c)
      PROVE  DisconnectStages'
      BY <1>0, <1>9, Zenon DEF OnDisconnectReturns, DisconnectStages
<1>10. ASSUME NEW c \in Conn, HookAwaited(c)
      PROVE  DisconnectStages'
      BY <1>0, <1>10, Zenon DEF HookAwaited, DisconnectStages
<1>11. ASSUME NEW c \in Conn, Finalize(c)
      PROVE  DisconnectStages'
      BY <1>0, <1>11, Zenon DEF Finalize, Removed, Notify, DisconnectStages
<1>12. ASSUME NEW c \in Conn, CancelDisconnect(c)
      PROVE  DisconnectStages'
      BY <1>0, <1>12, Zenon DEF CancelDisconnect, DisconnectStages
<1>13. ASSUME NEW h \in Hooks, HandlerDropped(h)
      PROVE  DisconnectStages'
  <2>1. hard_abort
        BY <1>0, <1>13, Zenon DEF HandlerDropped, HandlersLast
  <2> QED
        BY <1>0, <2>1, Zenon DEF DisconnectStages
<1>14. ASSUME NEW a \in Addr, FanOut(a)
      PROVE  DisconnectStages'
  <2>1. active[a] # NoConn /\ active[a] \notin claimed =>
          active[a] \in Conn /\ close[active[a]] = "none"
        BY <1>0, Zenon DEF CloseOwned
  <2> QED
        BY <1>0, <1>14, <2>1 DEF FanOut, Claim, DisconnectStages
<1>15. CASE CancelShutdown
      BY <1>0, <1>15, Zenon DEF CancelShutdown, DisconnectStages
<1>16. ASSUME UNCHANGED <<close, cancelled, on_disconnect, queue>>
      PROVE  DisconnectStages'
      BY <1>0, <1>16, Zenon DEF DisconnectStages
<1>17. ASSUME NEW c \in Conn, Reserve(c) \/ SetupFails(c) \/ StartGuard(c) \/ AddLock(c) \/
             Refused(c) \/ Insert(c) \/ AttachOnConnect(c)
      PROVE  UNCHANGED <<close, cancelled, on_disconnect, queue>>
      BY <1>17, Zenon DEF Reserve, SetupFails, StartGuard, AddLock, Refused, Insert,
          AttachOnConnect
<1>18. ASSUME NEW c \in Conn, StrandedOnConnect(c) \/ FinishScheduling(c) \/ HookStarts(c)
             \/ HookReturns(c) \/ HookPanics(c) \/ HookAborted(c)
      PROVE  UNCHANGED <<close, cancelled, on_disconnect, queue>>
      BY <1>18, Zenon DEF StrandedOnConnect, FinishScheduling, HookStarts, HookReturns, HookPanics,
          HookAborted
<1>19. ASSUME NEW h \in Hooks, HandlerCloses(h) \/ HandlerExits(h)
      PROVE  UNCHANGED <<close, cancelled, on_disconnect, queue>>
      BY <1>19, Zenon DEF HandlerCloses, HandlerExits
<1>20. ASSUME Begin \/ Snapshot \/ FanOutDone \/ WaitActiveDrained \/ wait_sched_drained \/
             SignalHandlers \/ JoinHandlers \/ UNCHANGED vars
      PROVE  UNCHANGED <<close, cancelled, on_disconnect, queue>>
      BY <1>20, Zenon DEF Begin, Snapshot, FanOutDone, WaitActiveDrained, wait_sched_drained,
          SignalHandlers, JoinHandlers, vars, nodeVars
<1> QED
      BY <1>1, <1>2, <1>3, <1>4, <1>5, <1>6, <1>7, <1>8, <1>9, <1>10, <1>11, <1>12,
         <1>13, <1>14, <1>15, <1>16, <1>17, <1>18, <1>19, <1>20, ZenonT(30)
      DEF Next, AdaptStream, Scheduling, Handling, Closing, HandlerExit, ShutDown

\* A hook that outlives its scheduling is attached to its own connection or aborted.
LEMMA NextAttached ==
    ASSUME IInv, HookInv, [Next]_vars
    PROVE  HooksAttached'
<1> USE DEF To, Hooks, connVars, closeVars, hookVars, handlerVars, shutVars, SdUnchanged
<1>0. /\ AddressExclusive /\ CloseOwned /\ ConnectStages /\ HooksAttached /\ hard_abort' = hard_abort
      /\ pc \in [Conn -> Pending \cup {"idle", "sched", "triggered", "finishing", "done", "gone"}]
      /\ active \in [Addr -> Conn \cup {NoConn}]
      /\ on_connect \in [Conn -> {"none", "spawned", "running", "done", "panicked", "aborted"}]
      /\ attached \subseteq Conn \X Conn
      /\ abort \subseteq Conn
      BY Zenon DEF IInv, HookInv, TypeOK, Next, vars
<1>1. ASSUME NEW c \in Conn, Reserve(c)
      PROVE  HooksAttached'
      BY <1>0, <1>1, Zenon DEF Reserve, HooksAttached, Registered
<1>2. ASSUME NEW c \in Conn, SetupFails(c)
      PROVE  HooksAttached'
      BY <1>0, <1>2, Zenon DEF SetupFails, HooksAttached, Registered
<1>3. ASSUME NEW c \in Conn, StartGuard(c)
      PROVE  HooksAttached'
      BY <1>0, <1>3, Zenon DEF StartGuard, HooksAttached, Registered
<1>4. ASSUME NEW c \in Conn, AddLock(c)
      PROVE  HooksAttached'
      BY <1>0, <1>4 DEF AddLock, HooksAttached, Registered
<1>5. ASSUME NEW c \in Conn, Refused(c)
      PROVE  HooksAttached'
      BY <1>0, <1>5, Zenon DEF Refused, sched_finished, Notify, HooksAttached, Registered
<1>6. ASSUME NEW c \in Conn, Insert(c)
      PROVE  HooksAttached'
  <2>1. active[AddrOf[c]] = NoConn
        BY <1>0, <1>6, Zenon DEF Insert, AddressExclusive, Pending
  <2> QED
        BY <1>0, <1>6, <2>1, ZenonT(30) DEF Insert, HooksAttached, Registered
<1>7. ASSUME NEW c \in Conn, ScheduleOnConnect(c)
      PROVE  HooksAttached'
      BY <1>0, <1>7 DEF ScheduleOnConnect, ConnectStages, HooksAttached, Registered
<1>8. ASSUME NEW c \in Conn, AttachOnConnect(c)
      PROVE  HooksAttached'
      BY <1>0, <1>8 DEF AttachOnConnect, HooksAttached, Registered
<1>9. ASSUME NEW c \in Conn, StrandedOnConnect(c)
      PROVE  HooksAttached'
      BY <1>0, <1>9, Zenon DEF StrandedOnConnect, GivenUp, HooksAttached, Registered
<1>10. ASSUME NEW c \in Conn, FinishScheduling(c)
      PROVE  HooksAttached'
      BY <1>0, <1>10, Zenon DEF FinishScheduling, sched_finished, Notify, HooksAttached, Registered
<1>11. ASSUME NEW c \in Conn, HandleOnConnect(c)
      PROVE  HooksAttached'
  <2>1. ~hard_abort => pc[c] = "triggered"
        BY <1>0, <1>11, Zenon DEF HandleOnConnect, ConnectStages
  <2> QED
        BY <1>0, <1>11, <2>1, Zenon DEF HandleOnConnect, HooksAttached, Registered
<1>12. ASSUME NEW c \in Conn, HookStarts(c)
      PROVE  HooksAttached'
      BY <1>0, <1>12, Zenon DEF HookStarts, HooksAttached, Registered
<1>13. ASSUME NEW c \in Conn, HookReturns(c)
      PROVE  HooksAttached'
      BY <1>0, <1>13, Zenon DEF HookReturns, HooksAttached, Registered
<1>14. ASSUME NEW c \in Conn, HookPanics(c)
      PROVE  HooksAttached'
      BY <1>0, <1>14, Zenon DEF HookPanics, DropHookGuard, HooksAttached, Registered
<1>15. ASSUME NEW c \in Conn, HookAborted(c)
      PROVE  HooksAttached'
      BY <1>0, <1>15, Zenon DEF HookAborted, DropHookGuard, HooksAttached, Registered
<1>16. ASSUME NEW c \in Conn, Finalize(c)
      PROVE  HooksAttached'
  <2>1. Registered(c) /\ active' = [active EXCEPT ![AddrOf[c]] = NoConn]
        BY <1>0, <1>16, Zenon DEF Finalize, Removed, CloseOwned
  <2>2. abort' = abort \cup {h \in Conn : <<h, c>> \in attached} /\ UNCHANGED <<pc, on_connect, attached>>
        BY <1>16, Zenon DEF Finalize
  <2>3. pc[c] \in {"sched", "triggered", "finishing", "done"}
        BY <1>0, <2>1, Zenon DEF AddressExclusive
  <2>4. \A d \in Conn : Registered(d)' <=> Registered(d) /\ d # c
        BY <1>0, <2>1, Zenon DEF Registered
  <2>5. \A d \in Conn : d \in abort' <=> d \in abort \/ (d = c /\ <<c, c>> \in attached)
        BY <1>0, <2>2, Zenon DEF HooksAttached
  <2> QED
        BY <1>0, <2>1, <2>2, <2>4, <2>5, Zenon DEF HooksAttached
<1>17. ASSUME UNCHANGED <<pc, active, on_connect, attached, abort>>
      PROVE  HooksAttached'
      BY <1>0, <1>17, Zenon DEF HooksAttached, Registered
<1>18. ASSUME NEW c \in Conn, HandleOnDisconnect(c) \/ Disconnect(c) \/ Recover(c) \/
             TriggerOnDisconnect(c) \/ RegisterOnDisconnect(c) \/ StrandedOnDisconnect(c) \/
             OnDisconnectReturns(c)
      PROVE  UNCHANGED <<pc, active, on_connect, attached, abort>>
      BY <1>18, Zenon DEF HandleOnDisconnect, Disconnect, Recover, TriggerOnDisconnect,
          RegisterOnDisconnect, StrandedOnDisconnect, OnDisconnectReturns
<1>19. ASSUME NEW c \in Conn, HookAwaited(c) \/ CancelDisconnect(c)
      PROVE  UNCHANGED <<pc, active, on_connect, attached, abort>>
      BY <1>19, Zenon DEF HookAwaited, CancelDisconnect
<1>20. ASSUME NEW h \in Hooks, HandlerCloses(h) \/ HandlerExits(h) \/ HandlerDropped(h)
      PROVE  UNCHANGED <<pc, active, on_connect, attached, abort>>
      BY <1>20, Zenon DEF HandlerCloses, HandlerExits, HandlerDropped
<1>21. ASSUME NEW a \in Addr, FanOut(a)
      PROVE  UNCHANGED <<pc, active, on_connect, attached, abort>>
      BY <1>21, Zenon DEF FanOut
<1>22. ASSUME Begin \/ Snapshot \/ FanOutDone \/ WaitActiveDrained \/ wait_sched_drained \/
             SignalHandlers \/ JoinHandlers \/ CancelShutdown \/ UNCHANGED vars
      PROVE  UNCHANGED <<pc, active, on_connect, attached, abort>>
      BY <1>22, Zenon DEF Begin, Snapshot, FanOutDone, WaitActiveDrained, wait_sched_drained,
          SignalHandlers, JoinHandlers, CancelShutdown, vars, nodeVars
<1> QED
      BY <1>1, <1>2, <1>3, <1>4, <1>5, <1>6, <1>7, <1>8, <1>9, <1>10, <1>11, <1>12,
         <1>13, <1>14, <1>15, <1>16, <1>17, <1>18, <1>19, <1>20, <1>21, <1>22, ZenonT(30)
      DEF Next, AdaptStream, Scheduling, Handling, Closing, HandlerExit, ShutDown

-----------------------------------------------------------------------------

\* Where every hook is at each stage of its scheduling and of its disconnect is invariant.
THEOREM HooksInvariance == Spec => [](IInv /\ HookInv)
<1>1. IInv /\ HookInv /\ [Next]_vars => HookInv'
      BY NextAddress, NextClose, NextHandlers, NextConnect, NextDisconnect, NextAttached, Zenon
      DEF HookInv
<1> QED
      BY <1>1, InitHooks, LifecycleInvariance, PTL DEF Spec

\* disconnect_w_origin: on_disconnect has run to its end for every connection that is
\* removed, unless its disconnect was cancelled; shut_down sends no handler home early.
THEOREM DisconnectHooksPaired == Spec => []OnDisconnectPaired
<1>1. HookInv => OnDisconnectPaired
      BY Zenon DEF HookInv, DisconnectStages, OnDisconnectPaired
<1> QED
      BY <1>1, HooksInvariance, PTL

\* adapt_stream: the on_connect of every scheduling that is over has been spawned.
THEOREM ConnectHooksSpawned == Spec => []OnConnectNotSkipped
<1>1. HookInv => OnConnectNotSkipped
      BY Zenon DEF HookInv, ConnectStages, OnConnectNotSkipped
<1> QED
      BY <1>1, HooksInvariance, PTL

\* With ABORTABLE = true no on_connect hook escapes the teardown of its own connection, and
\* the teardown of another connection at the same address aborts none.
THEOREM AbortableHooksFollow == Spec => []HookFollowsConnection
<1>1. HookInv => HookFollowsConnection
      BY Zenon DEF HookInv, HooksAttached, HookFollowsConnection
<1> QED
      BY <1>1, HooksInvariance, PTL

=============================================================================
