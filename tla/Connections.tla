----------------------------- MODULE Connections -----------------------------
(***************************************************************************)
(* The admission and accounting core of a pea2pea node: the connection     *)
(* setup budget (`connecting_permits`), the limits guarded by              *)
(* `Connections::limits`, the registry `Connections::active`, and the two  *)
(* RAII owners that keep them consistent, `ConnectionGuard` (a setup) and  *)
(* `DisconnectFinalizer` (a teardown).                                     *)
(*                                                                         *)
(* Every element of Conn is one connection instance, i.e. one run of       *)
(* `connect_inner` (Dials) or of the accept loop's body (Accepts); it      *)
(* stands for the process-unique id of `SEQUENTIAL_CONN_ID`.  Several      *)
(* instances may have the same address.                                    *)
(*                                                                         *)
(* An action is one section of code that no other task can see the middle  *)
(* of: the body of a lock-protected section, or the code between two       *)
(* awaits when it takes no lock.  A section that holds `limits` and takes  *)
(* `active` inside it is one action, since `ip_counts` and `connecting`    *)
(* are never read outside `limits`.                                        *)
(*                                                                         *)
(* An operator named X_what_is_wrong is a faulty variant of X, kept for    *)
(* showing that the properties below notice it; nothing else uses it.      *)
(***************************************************************************)
EXTENDS Integers, FiniteSets

CONSTANTS
    Dials,                   \* outbound connection instances
    Accepts,                 \* inbound connection instances
    Addr,                    \* remote socket addresses
    AddrOf,                  \* the address of each instance
    Ip,                      \* IP addresses, IPv4-mapped IPv6 ones included
    IpOf,                    \* the IP of each socket address
    to_canonical,            \* std's IpAddr::to_canonical on Ip
    OwnAddr,                 \* addresses the self-connect check recognises
    max_connections,
    max_connections_per_ip,
    max_connecting,
    NoConn                   \* an address without an entry in `active`

Conn == Dials \cup Accepts

ASSUME InstanceAssumption ==
    /\ IsFiniteSet(Conn)
    /\ Dials \cap Accepts = {}
    /\ NoConn \notin Conn
    /\ AddrOf \in [Conn -> Addr]

ASSUME IpAssumption ==
    /\ IpOf \in [Addr -> Ip]
    /\ to_canonical \in [Ip -> Ip]
    /\ \A ip \in Ip : to_canonical[to_canonical[ip]] = to_canonical[ip]

\* Node::new panics on a zero limit.
ASSUME LimitAssumption ==
    /\ max_connections \in Nat \ {0}
    /\ max_connections_per_ip \in Nat \ {0}
    /\ max_connecting \in Nat \ {0}

VARIABLES
    pc,             \* where each instance's setup is
    permits,        \* available permits of connecting_permits
    connecting,     \* limits.connecting
    ip_counts,      \* limits.ip_counts; 0 is a missing bucket
    active,         \* connections.active
    disconnecting,  \* the instances whose Connection::disconnecting is set
    finalizers,     \* armed DisconnectFinalizers, by the instance claimed
    origin,         \* who claimed: a call of disconnect or a task's guard
    task,           \* the instance's tasks and their DisconnectOnDrop
    listener,       \* the accept loop: "off", "on", or "aborted" by shut_down
    shutdown        \* ShutdownState::flag

vars == <<pc, permits, connecting, ip_counts, active, disconnecting,
          finalizers, origin, task, listener, shutdown>>

limitVars == <<connecting, ip_counts>>
closeVars == <<disconnecting, finalizers, origin, task>>

-----------------------------------------------------------------------------
(* The stages of a setup. *)

\* The accept loop is busy with an instance in one of these.
AcceptLoop == {"accepted", "queued", "granted"}

\* A permit of the setup budget is held.
Permitted == {"granted", "request", "permitted", "reserved", "setup", "ready",
              "rollback", "added", "live", "unpermit"}

\* A ConnectionGuard that is not completed is held ...
Uncompleted == {"reserved", "setup", "ready", "rollback"}

\* ... and one that may be.
Guarded == Uncompleted \cup {"added"}

Stage == AcceptLoop \cup Permitted
            \cup {"idle", "dialing", "prechecked", "orphaned", "failed", "connected"}

Goto(c, stage) == pc' = [pc EXCEPT ![c] = stage]

IsActive(a) == active[a] # NoConn

ActiveAddrs == {a \in Addr : IsActive(a)}

\* The accounting key without the canonicalization.
canonical_ip_raw(a) == IpOf[a]

canonical_ip(a) == to_canonical[IpOf[a]]

\* The setup budget, clamped by Node::new to the connection limit.
ConnectingLimit == IF max_connecting > max_connections THEN max_connections
                                                       ELSE max_connecting

-----------------------------------------------------------------------------
(* ConnectionLimits: what the sections under `limits` do. *)

reserve(a) ==
    /\ connecting' = connecting \cup {a}
    /\ ip_counts' = [ip_counts EXCEPT ![canonical_ip(a)] = @ + 1]

\* A missing bucket is left missing (the debug assertion aside).
ReleasedIp(a) ==
    [ip_counts EXCEPT ![canonical_ip(a)] = IF @ > 1 THEN @ - 1 ELSE 0]

-----------------------------------------------------------------------------
(* The setup budget: a tokio semaphore, fair to the queued accept loop. *)

\* A release that does not wake the queue.
GivePermit_forgets_waiter(c, stage) ==
    /\ permits' = permits + 1
    /\ Goto(c, stage)

\* The permit's drop: it goes to the queued waiter if there is one.
GivePermit(c, stage) ==
    \/ /\ \A w \in Conn : pc[w] # "queued"
       /\ permits' = permits + 1
       /\ Goto(c, stage)
    \/ \E w \in Conn :
          /\ pc[w] = "queued"
          /\ pc' = [pc EXCEPT ![c] = stage, ![w] = "granted"]
          /\ UNCHANGED permits

-----------------------------------------------------------------------------
(* Outbound setups: connect_inner up to the reservation. *)

\* connect_inner is called: refused once a shutdown is underway.
Connect(c) ==
    /\ pc[c] = "idle"
    /\ Goto(c, IF shutdown THEN "failed" ELSE "dialing")
    /\ UNCHANGED <<permits, limitVars, active, closeVars, listener, shutdown>>

\* The self-connect check and the early duplicate check.
ConnectPrecheck(c) ==
    /\ pc[c] = "dialing"
    /\ LET self_connect == listener # "off" /\ AddrOf[c] \in OwnAddr
       IN  Goto(c, IF self_connect \/ IsActive(AddrOf[c]) THEN "failed"
                                                          ELSE "prechecked")
    /\ UNCHANGED <<permits, limitVars, active, closeVars, listener, shutdown>>

\* try_acquire_owned: an exhausted budget fails the dial at once.
TryAcquire(c) ==
    /\ pc[c] = "prechecked"
    /\ \/ /\ permits > 0
          /\ permits' = permits - 1
          /\ Goto(c, "permitted")
       \/ /\ permits = 0
          /\ Goto(c, "failed")
          /\ UNCHANGED permits
    /\ UNCHANGED <<limitVars, active, closeVars, listener, shutdown>>

-----------------------------------------------------------------------------
(* Inbound setups: the accept loop and handle_connection_request. *)

\* listener.accept() returns a stream; the loop handles one at a time.
Accept(c) ==
    /\ listener = "on"
    /\ pc[c] = "idle"
    /\ \A d \in Conn : pc[d] \notin AcceptLoop
    /\ Goto(c, "accepted")
    /\ UNCHANGED <<permits, limitVars, active, closeVars, listener, shutdown>>

\* acquire_owned is polled: it takes a permit, and the same poll spawns the
\* handler task; or it waits in the queue.
AcquireOwned(c) ==
    /\ pc[c] = "accepted"
    /\ \/ /\ permits > 0
          /\ permits' = permits - 1
          /\ Goto(c, "request")
       \/ /\ permits = 0
          /\ Goto(c, "queued")
          /\ UNCHANGED permits
    /\ UNCHANGED <<limitVars, active, closeVars, listener, shutdown>>

\* The same poll, in a listening task that was aborted while running: it goes
\* on to the next await, where it is dropped if it has to wait.
AcquireOrphaned(c) ==
    /\ pc[c] = "orphaned"
    /\ \/ /\ permits > 0
          /\ permits' = permits - 1
          /\ Goto(c, "request")
       \/ /\ permits = 0
          /\ Goto(c, "failed")
          /\ UNCHANGED permits
    /\ UNCHANGED <<limitVars, active, closeVars, listener, shutdown>>

\* The queued loop is polled with the permit it was handed: it spawns the handler
\* task and returns to accept().
SpawnRequest(c) ==
    /\ pc[c] = "granted"
    /\ Goto(c, "request")
    /\ UNCHANGED <<permits, limitVars, active, closeVars, listener, shutdown>>

\* handle_connection_request starts: rejected once a shutdown is underway.
HandleRequest(c) ==
    /\ pc[c] = "request"
    /\ Goto(c, IF shutdown THEN "unpermit" ELSE "permitted")
    /\ UNCHANGED <<permits, limitVars, active, closeVars, listener, shutdown>>

StartListener ==
    /\ listener = "off"
    /\ ~shutdown
    /\ listener' = "on"
    /\ UNCHANGED <<pc, permits, limitVars, active, closeVars, shutdown>>

\* The listening task is aborted by toggle_listener (which clears the address)
\* or by shut_down (which clears it at its end).  An abort takes effect at an
\* await: a loop that waits for a permit drops its stream (and returns a permit it
\* was just handed), one caught between accept and acquire carries on with it.
StopListener ==
    /\ listener = "on"
    /\ listener' \in IF shutdown THEN {"off", "aborted"} ELSE {"off"}
    /\ \/ (\A c \in Conn : pc[c] \notin AcceptLoop) /\ UNCHANGED pc
       \/ \E c \in Conn : \/ pc[c] = "accepted" /\ Goto(c, "orphaned")
                          \/ pc[c] = "queued" /\ Goto(c, "failed")
                          \/ pc[c] = "granted" /\ Goto(c, "unpermit")
    /\ UNCHANGED <<permits, limitVars, active, closeVars, shutdown>>

\* shut_down's last step.
ClearListeningAddr ==
    /\ listener = "aborted"
    /\ listener' = "off"
    /\ UNCHANGED <<pc, permits, limitVars, active, closeVars, shutdown>>

-----------------------------------------------------------------------------
(* Reservation, protocol setup and registration. *)

\* The node's limit is compared with the finished connections only.
Admissible_counts_active_only(a) ==
    /\ ~IsActive(a)
    /\ ip_counts[canonical_ip(a)] < max_connections_per_ip
    /\ Cardinality(connecting) < ConnectingLimit
    /\ Cardinality(ActiveAddrs) < max_connections
    /\ a \notin connecting

\* The duplicate check looks at the finished connections only.
Admissible_ignores_connecting(a) ==
    /\ ~IsActive(a)
    /\ ip_counts[canonical_ip(a)] < max_connections_per_ip
    /\ Cardinality(connecting) < ConnectingLimit
    /\ Cardinality(ActiveAddrs) + Cardinality(connecting) < max_connections

\* The duplicate check looks at the unfinished setups only.
Admissible_ignores_active(a) ==
    /\ ip_counts[canonical_ip(a)] < max_connections_per_ip
    /\ Cardinality(connecting) < ConnectingLimit
    /\ Cardinality(ActiveAddrs) + Cardinality(connecting) < max_connections
    /\ a \notin connecting

\* The checks of check_and_reserve.
Admissible(a) ==
    /\ ~IsActive(a)
    /\ ip_counts[canonical_ip(a)] < max_connections_per_ip
    /\ Cardinality(connecting) < ConnectingLimit
    /\ Cardinality(ActiveAddrs) + Cardinality(connecting) < max_connections
    /\ a \notin connecting

check_and_reserve(c) ==
    /\ pc[c] = "permitted"
    /\ \/ /\ Admissible(AddrOf[c])
          /\ reserve(AddrOf[c])
          /\ Goto(c, IF c \in Dials THEN "reserved" ELSE "setup")
       \/ /\ ~Admissible(AddrOf[c])
          /\ Goto(c, "unpermit")
          /\ UNCHANGED limitVars
    /\ UNCHANGED <<permits, active, closeVars, listener, shutdown>>

\* The TCP connect succeeds, fails, or times out.
create_stream(c) ==
    /\ pc[c] = "reserved"
    /\ Goto(c, "setup") \/ Goto(c, "rollback")
    /\ UNCHANGED <<permits, limitVars, active, closeVars, listener, shutdown>>

\* The protocols accept the connection or fail it (an error, a timeout, a
\* panic, a handler that is winding down).
enable_protocols(c) ==
    /\ pc[c] = "setup"
    /\ Goto(c, "ready") \/ Goto(c, "rollback")
    /\ UNCHANGED <<permits, limitVars, active, closeVars, listener, shutdown>>

\* Connections::add, the section under active.write().
Add(c) ==
    /\ pc[c] = "ready"
    /\ IF shutdown THEN Goto(c, "rollback") /\ UNCHANGED active
                   ELSE /\ active' = [active EXCEPT ![AddrOf[c]] = c]
                        /\ Goto(c, "added")
    /\ UNCHANGED <<permits, limitVars, closeVars, listener, shutdown>>

\* A drop that releases the charge even though the live entry now owns it.
DropGuard_always_releases(c) ==
    /\ pc[c] \in {"rollback", "added"}
    /\ connecting' = connecting \ {AddrOf[c]}
    /\ ip_counts' = ReleasedIp(AddrOf[c])
    /\ Goto(c, IF pc[c] = "added" THEN "live" ELSE "unpermit")
    /\ UNCHANGED <<permits, active, closeVars, listener, shutdown>>

\* ConnectionGuard::drop.
DropGuard(c) ==
    /\ pc[c] \in {"rollback", "added"}
    /\ connecting' = connecting \ {AddrOf[c]}
    /\ IF pc[c] = "added" THEN Goto(c, "live") /\ UNCHANGED ip_counts
                          ELSE Goto(c, "unpermit") /\ ip_counts' = ReleasedIp(AddrOf[c])
    /\ UNCHANGED <<permits, active, closeVars, listener, shutdown>>

\* The setup returns and its permit is dropped, after the guard.
DropPermit(c) ==
    /\ pc[c] \in {"live", "unpermit"}
    /\ GivePermit(c, IF pc[c] = "live" THEN "connected" ELSE "failed")
    /\ UNCHANGED <<limitVars, active, closeVars, listener, shutdown>>

\* The user drops a `connect` future at one of its awaits; the guard and the
\* permit it owns, if any, are dropped with it.  An await after Connections::add
\* only cuts the wait for the OnConnect scheduling short, as DropPermit does.
CancelConnect(c) ==
    /\ c \in Dials
    /\ \/ pc[c] = "dialing" /\ Goto(c, "failed")
       \/ pc[c] \in {"reserved", "setup"} /\ Goto(c, "rollback")
    /\ UNCHANGED <<permits, limitVars, active, closeVars, listener, shutdown>>

-----------------------------------------------------------------------------
(* Teardown. *)

\* A claim that does not look at the id it was given.
Claims_any_instance(a, id) ==
    /\ IsActive(a)
    /\ active[a] \notin disconnecting

\* The conditions of claim_disconnect; id = NoConn is the absent conn_id.
Claims(a, id) ==
    /\ IsActive(a)
    /\ id \in {NoConn, active[a]}
    /\ active[a] \notin disconnecting

\* A disconnect cancelled between the claim and the arming of the finalizer.
claim_disconnect_cancelled(a, id, cause) ==
    IF Claims(a, id)
    THEN /\ disconnecting' = disconnecting \cup {active[a]}
         /\ origin' = [origin EXCEPT ![active[a]] = cause]
         /\ UNCHANGED finalizers
    ELSE UNCHANGED <<disconnecting, finalizers, origin>>

\* claim_disconnect: the claim and its finalizer come together.
claim_disconnect(a, id, cause) ==
    IF Claims(a, id)
    THEN /\ disconnecting' = disconnecting \cup {active[a]}
         /\ finalizers' = [finalizers EXCEPT ![active[a]] = @ + 1]
         /\ origin' = [origin EXCEPT ![active[a]] = cause]
    ELSE UNCHANGED <<disconnecting, finalizers, origin>>

\* Node::disconnect, or shut_down's fan-out; both name an address only.
Disconnect(a) ==
    /\ Claims(a, NoConn)
    /\ claim_disconnect(a, NoConn, "Call")
    /\ UNCHANGED <<pc, permits, limitVars, active, task, listener, shutdown>>

\* One of the instance's tasks ends and its DisconnectOnDrop is dropped: it
\* spawns a disconnect only if its instance is registered and unclaimed.
DisconnectOnDrop(c) ==
    /\ task[c] = "running"
    /\ pc[c] \in {"setup", "ready", "added", "live", "connected"}
    /\ task' = [task EXCEPT ![c] =
          IF active[AddrOf[c]] = c /\ c \notin disconnecting THEN "recovering" ELSE "ended"]
    /\ UNCHANGED <<pc, permits, limitVars, active, disconnecting, finalizers,
                   origin, listener, shutdown>>

\* The spawned disconnect runs later, when the address may have been reused.
Recover(c) ==
    /\ task[c] = "recovering"
    /\ task' = [task EXCEPT ![c] = "ended"]
    /\ claim_disconnect(AddrOf[c], c, "Task")
    /\ UNCHANGED <<pc, permits, limitVars, active, listener, shutdown>>

\* DisconnectFinalizer::drop, whether the disconnect ran to its end or was
\* cancelled: it removes whatever is registered under the address.
Finalize(c) ==
    /\ finalizers[c] > 0
    /\ finalizers' = [finalizers EXCEPT ![c] = @ - 1]
    /\ active' = [active EXCEPT ![AddrOf[c]] = NoConn]
    /\ ip_counts' = ReleasedIp(AddrOf[c])
    /\ UNCHANGED <<pc, permits, connecting, disconnecting, origin, task, listener,
                   shutdown>>

BeginShutdown ==
    /\ ~shutdown
    /\ shutdown' = TRUE
    /\ UNCHANGED <<pc, permits, limitVars, active, closeVars, listener>>

-----------------------------------------------------------------------------
Init ==
    /\ pc = [c \in Conn |-> "idle"]
    /\ permits = ConnectingLimit
    /\ connecting = {}
    /\ ip_counts = [ip \in Ip |-> 0]
    /\ active = [a \in Addr |-> NoConn]
    /\ disconnecting = {}
    /\ finalizers = [c \in Conn |-> 0]
    /\ origin = [c \in Conn |-> "none"]
    /\ task = [c \in Conn |-> "running"]
    /\ listener = "off"
    /\ shutdown = FALSE

\* Steps of the node itself, on behalf of an instance whose setup has begun.
Setup(c) ==
    \/ ConnectPrecheck(c) \/ TryAcquire(c)
    \/ AcquireOwned(c) \/ AcquireOrphaned(c) \/ SpawnRequest(c) \/ HandleRequest(c)
    \/ check_and_reserve(c) \/ create_stream(c) \/ enable_protocols(c)
    \/ Add(c) \/ DropGuard(c) \/ DropPermit(c)

Teardown(c) == Recover(c) \/ Finalize(c)

Next ==
    \/ \E c \in Dials : Connect(c) \/ CancelConnect(c)
    \/ \E c \in Accepts : Accept(c)
    \/ \E c \in Conn : Setup(c) \/ Teardown(c) \/ DisconnectOnDrop(c)
    \/ \E a \in Addr : Disconnect(a)
    \/ StartListener \/ StopListener \/ ClearListeningAddr \/ BeginShutdown

\* Tasks that can run are run: every stage of a setup is synchronous or bounded
\* by a timeout, and a claimed teardown needs nobody else.
Fairness == \A c \in Conn : WF_vars(Setup(c)) /\ WF_vars(Teardown(c))

Spec == Init /\ [][Next]_vars

FairSpec == Spec /\ Fairness

-----------------------------------------------------------------------------
(* Properties. *)

\* The values of the variables; in particular no counter of the admission core goes
\* below zero.
TypeOK ==
    /\ pc \in [Conn -> Stage]
    /\ permits \in Nat
    /\ connecting \subseteq Addr
    /\ ip_counts \in [Ip -> Nat]
    /\ active \in [Addr -> Conn \cup {NoConn}]
    /\ disconnecting \subseteq Conn
    /\ finalizers \in [Conn -> Nat]
    /\ origin \in [Conn -> {"none", "Call", "Task"}]
    /\ task \in [Conn -> {"running", "recovering", "ended"}]
    /\ listener \in {"off", "on", "aborted"}
    /\ shutdown \in BOOLEAN

\* The instances that own one unit of an ip_counts bucket: the setups whose guard
\* is not completed, and the registered connections.
Charged == {c \in Conn : pc[c] \in Uncompleted \/ active[AddrOf[c]] = c}

\* Every bucket of ip_counts is exactly the number of setups and connections of
\* that IP, through every interleaving of guards, registrations and finalizers
\* (ConnectionLimits::reserve / release_ip).
AccountingExact ==
    \A ip \in Ip :
        ip_counts[ip] = Cardinality({c \in Charged : canonical_ip(AddrOf[c]) = ip})

\* One host, in whichever notation its addresses arrive, never has more than
\* max_connections_per_ip setups and connections (canonical_ip, check_and_reserve).
PerHostLimit ==
    LET charged == Charged
    IN \A ip \in Ip :
           Cardinality({c \in charged : to_canonical[IpOf[AddrOf[c]]] = ip})
               <= max_connections_per_ip

\* Setups and connections together never exceed max_connections.
GlobalLimit == Cardinality(Charged) <= max_connections

\* No two setups or connections share an address (the duplicate checks of
\* check_and_reserve).
OneInstancePerAddr ==
    \A c, d \in Charged : AddrOf[c] = AddrOf[d] => c = d

\* "in practice this never rejects": whoever reaches check_and_reserve finds fewer
\* than max_connecting pending connections, since its own permit is not among them.
BudgetTighterThanLimit ==
    \A c \in Conn : pc[c] = "permitted" => Cardinality(connecting) < ConnectingLimit

\* An armed finalizer still has its own connection registered under the address it
\* is going to remove, and the bucket it is going to release is not missing; nobody
\* else can have removed them since the claim.
FinalizerOwnsEntry ==
    \A c \in Conn : finalizers[c] > 0 =>
        /\ finalizers[c] = 1
        /\ active[AddrOf[c]] = c
        /\ ip_counts[canonical_ip(AddrOf[c])] > 0

\* A claim is never leaked: a registered connection that is marked as disconnecting
\* has exactly one finalizer armed, without which it would stay registered for ever
\* and shut_down's drain would hang (claim_disconnect).
ClaimHasFinalizer ==
    \A c \in Conn : active[AddrOf[c]] = c =>
        finalizers[c] = IF c \in disconnecting THEN 1 ELSE 0

\* Claims, finalizers and entries of the registry correspond, so that a teardown that was
\* claimed is carried out once, and on its own connection (claim_disconnect,
\* DisconnectFinalizer).
TeardownOwned == FinalizerOwnsEntry /\ ClaimHasFinalizer

\* A disconnect started by a connection's own defunct task never takes down another
\* connection that has reused the address.
RecoveryHitsOwnInstance ==
    \A c \in Conn : origin[c] = "Task" => task[c] = "ended"

\* A registered connection is never replaced, and leaves the registry only in the
\* step of the finalizer that was armed for it.
RemovedByOwnFinalizer ==
    [][\A a \in Addr : (IsActive(a) /\ active'[a] # active[a]) =>
          /\ active'[a] = NoConn
          /\ finalizers[active[a]] > finalizers'[active[a]]]_vars

\* A peer that was accepted while the setup budget was exhausted is eventually given
\* a permit or dropped: every permit comes back, and the semaphore is fair.
QueuedAcceptServed ==
    \A c \in Accepts : pc[c] = "queued" ~> pc[c] # "queued"

-----------------------------------------------------------------------------
(* The inductive invariant behind the safety properties. *)

\* A connection was registered at some point.
Established == {"added", "live", "connected"}

PermitHolders == {c \in Conn : pc[c] \in Permitted}

GuardHolders == {c \in Conn : pc[c] \in Guarded}

BudgetConserved == permits + Cardinality(PermitHolders) = ConnectingLimit

GuardsMatchConnecting ==
    /\ connecting = {AddrOf[c] : c \in GuardHolders}
    /\ \A c, d \in GuardHolders : AddrOf[c] = AddrOf[d] => c = d

RegistryConsistent ==
    /\ \A a \in Addr : IsActive(a) => /\ AddrOf[active[a]] = a
                                     /\ pc[active[a]] \in Established
    /\ \A c \in Conn : pc[c] \in Uncompleted => ~IsActive(AddrOf[c])

ClaimsConsistent ==
    /\ ClaimHasFinalizer
    /\ \A c \in Conn : active[AddrOf[c]] # c => finalizers[c] = 0
    /\ \A c \in Conn : c \in disconnecting => pc[c] \in Established

BucketLimit == \A ip \in Ip : ip_counts[ip] <= max_connections_per_ip

\* What every step of the node preserves: the type, the exact accounting of the two
\* counters and of the connecting set, who owns an address, and who owns a teardown.
IInv ==
    /\ TypeOK
    /\ BudgetConserved
    /\ GuardsMatchConnecting
    /\ RegistryConsistent
    /\ ClaimsConsistent
    /\ AccountingExact
    /\ BucketLimit
    /\ GlobalLimit
    /\ RecoveryHitsOwnInstance

-----------------------------------------------------------------------------
(* The abstract registry. *)

HostOf == [c \in Conn |-> to_canonical[IpOf[AddrOf[c]]]]

Registered == {c \in Conn : active[AddrOf[c]] = c}

R == INSTANCE Registry WITH admitted <- Charged, registered <- Registered

\* Permits, pending addresses, counts, claims and finalizers together are no more than
\* a set of connections: each admission looks at all of them in one step, a connection
\* registers once, and whoever leaves takes its charge and its entry along.
ImplementsRegistry == R!Spec

=============================================================================
