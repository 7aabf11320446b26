-------------------------------- MODULE Locks --------------------------------
(* The sections of the library that take its locks, run by threads at the same *)
(* time. limits and tasks are mutexes, active and senders reader-writer locks  *)
(* of parking_lot, listening_addr one of tokio. A reader of any of the latter  *)
(* waits behind a writer that waits, even if the lock is held for reading.     *)
(* An operator named <Def>_<fault> is Def with a plausible mistake in it.      *)
EXTENDS Integers, Sequences, FiniteSets

CONSTANT Thread

VARIABLES
    section,  \* what is left of the section each thread is in
    held,     \* the locks held: a set of [by, lock, mode]
    waiting    \* <<thread, lock>>: a writer that waits

lockVars == <<section, held, waiting>>

Take(lock, mode) == [do |-> "take", lock |-> lock, mode |-> mode]
Drop(lock) == [do |-> "drop", lock |-> lock, mode |-> "none"]
Within(lock, mode, inner) == <<Take(lock, mode)>> \o inner \o <<Drop(lock)>>

-----------------------------------------------------------------------------
(* The sections *)

\* ConnectionGuard::drop; is_connecting and num_connecting take the same lock.
DropGuard == Within("limits", "write", <<>>)

check_and_reserve == Within("limits", "write", Within("active", "read", <<>>))

AddConnection_inverted == Within("active", "write", DropGuard)

\* The guard goes after the write lock, on success and on refusal.
AddConnection == Within("active", "write", <<>>) \o DropGuard

\* DisconnectFinalizer::drop; the connection itself is dropped after all locks.
Finalize ==
    Within("senders", "write", <<>>) \o Within("limits", "write", Within("active", "write", <<>>))

\* claim_disconnect, DisconnectOnDrop::drop, the drain of shut_down, and the getters.
ReadActive == Within("active", "read", <<>>)

\* A hook's handle is given to its connection.
AttachHook == Within("active", "write", <<>>)

\* queue_message; broadcast takes the lock anew for every address.
Broadcast == Within("senders", "read", <<>>) \o Within("senders", "read", <<>>)

\* adopt_writer, SenderCleanup::drop
WriteSenders == Within("senders", "write", <<>>)

register_task == Within("tasks", "write", <<>>)

\* The write guard is kept for the whole of the method; the listening task is registered, or
\* taken out, meanwhile.
toggle_listener == Within("listening_addr", "write", register_task)

listening_addr == Within("listening_addr", "read", <<>>)

\* The tasks are taken, the addresses read, the map is watched until it is empty, and the
\* listening address is erased, one lock at a time; the disconnects in between are Finalize.
shut_down ==
    register_task \o ReadActive \o ReadActive \o Within("listening_addr", "write", <<>>)

Sections ==
    {DropGuard, check_and_reserve, AddConnection, Finalize, ReadActive, AttachHook, Broadcast,
     WriteSenders, register_task, toggle_listener, listening_addr, shut_down}

-----------------------------------------------------------------------------

Step(t) == Head(section[t])
Wants(t, lock, mode) == section[t] # <<>> /\ Step(t) = Take(lock, mode)

Free(t, lock, mode) ==
    IF mode = "write" THEN \A h \in held : h.lock # lock
    ELSE /\ \A h \in held : h.lock = lock => h.mode = "read"
         /\ \A q \in waiting : q[2] # lock

Enter(t) ==
    /\ section[t] = <<>>
    /\ \E s \in Sections : section' = [section EXCEPT ![t] = s]
    /\ UNCHANGED <<held, waiting>>

TakeLock(t) ==
    /\ section[t] # <<>> /\ Step(t).do = "take"
    /\ Free(t, Step(t).lock, Step(t).mode)
    /\ held' = held \cup {[by |-> t, lock |-> Step(t).lock, mode |-> Step(t).mode]}
    /\ waiting' = waiting \ {<<t, Step(t).lock>>}
    /\ section' = [section EXCEPT ![t] = Tail(@)]

\* A writer that finds the lock held waits for it, and lets no further reader in.
Queue(t) ==
    /\ section[t] # <<>> /\ Step(t).do = "take" /\ Step(t).mode = "write"
    /\ ~Free(t, Step(t).lock, "write") /\ <<t, Step(t).lock>> \notin waiting
    /\ waiting' = waiting \cup {<<t, Step(t).lock>>}
    /\ UNCHANGED <<section, held>>

DropLock(t) ==
    /\ section[t] # <<>> /\ Step(t).do = "drop"
    /\ held' = {h \in held : h.by # t \/ h.lock # Step(t).lock}
    /\ section' = [section EXCEPT ![t] = Tail(@)]
    /\ UNCHANGED waiting

LocksInit ==
    /\ section = [t \in Thread |-> <<>>]
    /\ held = {}
    /\ waiting = {}

LocksNext == \E t \in Thread : Enter(t) \/ TakeLock(t) \/ Queue(t) \/ DropLock(t)

LocksSpec == LocksInit /\ [][LocksNext]_lockVars

Lock == {"limits", "active", "senders", "tasks", "listening_addr"}

LocksTypeOK ==
    /\ \A t \in Thread : \A i \in DOMAIN section[t] : section[t][i].do \in {"take", "drop"}
    /\ \A h, k \in held : h.lock = k.lock /\ h # k => h.mode = "read" /\ k.mode = "read"
    /\ waiting \subseteq {q \in Thread \X Lock : Wants(q[1], q[2], "write")}

-----------------------------------------------------------------------------
(* Properties *)

\* A thread waits for one that holds the lock, or for a writer that is ahead of it.
WaitsFor(t, u) ==
    /\ section[t] # <<>> /\ Step(t).do = "take" /\ ~Free(t, Step(t).lock, Step(t).mode)
    /\ \/ \E h \in held : h.by = u /\ h.lock = Step(t).lock
       \/ <<u, Step(t).lock>> \in waiting /\ u # t /\ Step(t).mode = "read"

\* "Lock discipline is limits -> active everywhere": no threads, whichever sections they run,
\* ever wait for each other in a circle, nor one for itself.
NoCircularWait ==
    \A s \in (SUBSET Thread) \ {{}} : \E t \in s : \A u \in s : ~WaitsFor(t, u)

-----------------------------------------------------------------------------
(* The invariant behind NoCircularWait: the order of the locks. *)

\* active is taken within limits, and tasks within listening_addr; senders is taken alone.
LockRank(lock) == IF lock \in {"active", "tasks"} THEN 2 ELSE 1

LockStep ==
    {Take(l, m) : l \in Lock, m \in {"read", "write"}} \cup {Drop(l) : l \in Lock}

\* A lock is dropped at the j-th step of s, and all that is taken between i and j ranks higher.
DroppedAt(s, i, j, lock) ==
    /\ s[j] = Drop(lock)
    /\ \A k \in (i + 1)..(j - 1) : s[k].do = "take" => LockRank(s[k].lock) > LockRank(lock)

Disciplined(s) ==
    \A i \in 1..Len(s) : s[i].do = "take" => \E j \in (i + 1)..Len(s) : DroppedAt(s, i, j, s[i].lock)

\* What is left of a section keeps to the order, and drops all that its thread holds.
LocksInv ==
    /\ section \in [Thread -> Seq(LockStep)]
    /\ \A t \in Thread : Disciplined(section[t])
    /\ held \subseteq [by : Thread, lock : Lock, mode : {"read", "write"}]
    /\ \A h \in held : \E j \in 1..Len(section[h.by]) : DroppedAt(section[h.by], 0, j, h.lock)
    /\ \A h, k \in held : h.lock = k.lock /\ h # k => h.mode = "read" /\ k.mode = "read"
    /\ waiting \subseteq {q \in Thread \X Lock : Wants(q[1], q[2], "write")}

=============================================================================
