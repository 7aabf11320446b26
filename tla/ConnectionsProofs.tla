--------------------------- MODULE ConnectionsProofs ---------------------------
(***************************************************************************)
(* Theorems about Connections, for every set of connection instances, every *)
(* assignment of addresses and IPs and every value of the three limits.     *)
(***************************************************************************)
EXTENDS Connections, FiniteSetTheorems, TLAPS

\* A leaf that needs no arithmetic cites Zenon. The others are given to SMT, with
\* time for the longer ones, and then to Zenon.
USE SMTT(30), Zenon

USE InstanceAssumption

\* The setup budget that Node::new derives from the configuration is never empty.
LEMMA LimitPositive == ConnectingLimit \in Nat \ {0}
BY LimitAssumption, Zenon DEF ConnectingLimit

\* canonical_ip stays within the IPs.
LEMMA CanonicalType == \A c \in Conn : canonical_ip(AddrOf[c]) \in Ip
BY IpAssumption, Zenon DEF canonical_ip

-----------------------------------------------------------------------------
(* Type correctness. *)

\* A new node's admission state is well-typed.
LEMMA InitType == Init => TypeOK
<1> SUFFICES ASSUME Init PROVE TypeOK
    BY Zenon
<1>1. permits \in Nat
      BY LimitPositive, Zenon DEF Init
<1>2. pc \in [Conn -> Stage]
      BY Zenon DEF Init, Stage
<1>3. /\ ip_counts \in [Ip -> Nat]
      /\ active \in [Addr -> Conn \cup {NoConn}]
      /\ finalizers \in [Conn -> Nat]
      BY Zenon DEF Init
<1>4. /\ origin \in [Conn -> {"none", "Call", "Task"}]
      /\ task \in [Conn -> {"running", "recovering", "ended"}]
      BY Zenon DEF Init
<1> QED
      BY <1>1, <1>2, <1>3, <1>4, Zenon DEF Init, TypeOK

\* Every step of the admission core keeps it well-typed.
LEMMA NextType == TypeOK /\ [Next]_vars => TypeOK'
<1> SUFFICES ASSUME TypeOK, [Next]_vars
             PROVE  TypeOK'
    BY Zenon
<1> USE DEF TypeOK, Goto, limitVars, closeVars
<1>1. ASSUME NEW c \in Dials, Connect(c) \/ CancelConnect(c)
      PROVE  TypeOK'
      BY <1>1 DEF Connect, CancelConnect, Stage, Permitted, Conn
<1>2. ASSUME NEW c \in Accepts, Accept(c)
      PROVE  TypeOK'
      BY <1>2, Zenon DEF Accept, Stage, AcceptLoop, Conn
<1>3. ASSUME NEW c \in Conn, Setup(c)
      PROVE  TypeOK'
  <2>1. CASE ConnectPrecheck(c)
        BY <2>1, Zenon DEF ConnectPrecheck, Stage
  <2>2. CASE TryAcquire(c)
        BY <2>2 DEF TryAcquire, Stage, Permitted
  <2>3. CASE AcquireOwned(c)
        BY <2>3 DEF AcquireOwned, Stage, Permitted, AcceptLoop
  <2>4. CASE AcquireOrphaned(c)
        BY <2>4 DEF AcquireOrphaned, Stage, Permitted
  <2>5. CASE SpawnRequest(c) \/ HandleRequest(c)
        BY <2>5, Zenon DEF SpawnRequest, HandleRequest, Stage, Permitted
  <2>6. CASE check_and_reserve(c)
        BY <2>6, CanonicalType DEF check_and_reserve, reserve, Stage, Permitted
  <2>7. CASE create_stream(c) \/ enable_protocols(c)
        BY <2>7, Zenon DEF create_stream, enable_protocols, Stage, Permitted
  <2>8. CASE Add(c)
        BY <2>8 DEF Add, Stage, Permitted
  <2>9. CASE DropGuard(c)
        BY <2>9, CanonicalType DEF DropGuard, ReleasedIp, Stage, Permitted
  <2>10. CASE DropPermit(c)
        BY <2>10 DEF DropPermit, GivePermit, Stage, Permitted
  <2> QED
        BY <1>3, <2>1, <2>2, <2>3, <2>4, <2>5, <2>6, <2>7, <2>8, <2>9, <2>10, Zenon
        DEF Setup
<1>4. ASSUME NEW c \in Conn, Teardown(c) \/ DisconnectOnDrop(c)
      PROVE  TypeOK'
  <2>1. CASE Recover(c)
        BY <2>1 DEF Recover, claim_disconnect, Claims, IsActive
  <2>2. CASE Finalize(c)
        BY <2>2, CanonicalType DEF Finalize, ReleasedIp
  <2>3. CASE DisconnectOnDrop(c)
        BY <2>3, Zenon DEF DisconnectOnDrop
  <2> QED
        BY <1>4, <2>1, <2>2, <2>3, Zenon DEF Teardown
<1>5. ASSUME NEW a \in Addr, Disconnect(a)
      PROVE  TypeOK'
      BY <1>5 DEF Disconnect, claim_disconnect, Claims, IsActive
<1>6. CASE StartListener \/ StopListener \/ ClearListeningAddr \/ BeginShutdown
      BY <1>6, Zenon DEF StartListener, StopListener, ClearListeningAddr, BeginShutdown,
                  Stage, AcceptLoop, Permitted
<1>7. CASE UNCHANGED vars
      BY <1>7, Zenon DEF vars
<1> QED
      BY <1>1, <1>2, <1>3, <1>4, <1>5, <1>6, <1>7, Zenon DEF Next

\* The variables of the admission core always have their types.
THEOREM TypeCorrect == Spec => []TypeOK
<1>1. Init => TypeOK
      BY InitType, Zenon
<1>2. TypeOK /\ [Next]_vars => TypeOK'
      BY NextType, Zenon
<1> QED
      BY <1>1, <1>2, PTL DEF Spec

-----------------------------------------------------------------------------
(* Counting: every set the invariant counts is a subset of the finite Conn. *)

\* A set of connections is finite, so its size is a natural number.
LEMMA CountSubset ==
    ASSUME NEW S \in SUBSET Conn
    PROVE  IsFiniteSet(S) /\ Cardinality(S) \in Nat
BY FS_Subset, FS_CardinalityType, Zenon

\* A new member makes a set of connections one larger.
LEMMA CountAdd ==
    ASSUME NEW S \in SUBSET Conn, NEW c \in Conn, c \notin S
    PROVE  Cardinality(S \cup {c}) = Cardinality(S) + 1
BY CountSubset, FS_AddElement, Zenon

\* A lost member makes a set of connections one smaller.
LEMMA CountRemove ==
    ASSUME NEW S \in SUBSET Conn, NEW c \in S
    PROVE  Cardinality(S \ {c}) = Cardinality(S) - 1
BY CountSubset, FS_RemoveElement, Zenon

-----------------------------------------------------------------------------
(* The setup budget: permits are neither lost nor duplicated. *)

\* A new node's permits are all in the semaphore.
LEMMA InitBudget == Init => BudgetConserved
<1> SUFFICES ASSUME Init PROVE BudgetConserved
    BY Zenon
<1>1. PermitHolders = {}
      BY Zenon DEF Init, PermitHolders, Permitted
<1> QED
      BY <1>1, FS_EmptySet, LimitPositive DEF Init, BudgetConserved

\* Every step moves permits between the semaphore and their holders and loses none.
LEMMA NextBudget == TypeOK /\ BudgetConserved /\ [Next]_vars => BudgetConserved'
<1> SUFFICES ASSUME TypeOK, BudgetConserved, [Next]_vars
             PROVE  BudgetConserved'
    BY Zenon
<1> PermitHolders \in SUBSET Conn
    BY Zenon DEF PermitHolders
<1> USE DEF TypeOK, Goto, Permitted
<1>a. ASSUME permits' = permits, PermitHolders' = PermitHolders
      PROVE  BudgetConserved'
      BY <1>a, Zenon DEF BudgetConserved
<1>b. ASSUME NEW c \in Conn, permits > 0, permits' = permits - 1,
             c \notin PermitHolders, PermitHolders' = PermitHolders \cup {c}
      PROVE  BudgetConserved'
      BY <1>b, CountAdd, CountSubset DEF BudgetConserved
<1>c. ASSUME NEW c \in PermitHolders, permits' = permits + 1,
             PermitHolders' = PermitHolders \ {c}
      PROVE  BudgetConserved'
  <2>1. Cardinality(PermitHolders \ {c}) = Cardinality(PermitHolders) - 1
        BY <1>c, CountRemove, Zenon
  <2> QED
        BY <1>c, <2>1, CountSubset DEF BudgetConserved
<1>1. ASSUME NEW c \in Dials, Connect(c) \/ CancelConnect(c)
      PROVE  BudgetConserved'
      BY <1>1, <1>a DEF Connect, CancelConnect, PermitHolders, Conn
<1>2. ASSUME NEW c \in Accepts, Accept(c)
      PROVE  BudgetConserved'
      BY <1>2, <1>a, Zenon DEF Accept, PermitHolders, Conn
<1>3. ASSUME NEW c \in Conn, Setup(c)
      PROVE  BudgetConserved'
  <2>1. CASE ConnectPrecheck(c)
        BY <2>1, <1>a, Zenon DEF ConnectPrecheck, PermitHolders
  <2>2. CASE TryAcquire(c)
        BY <2>2, <1>a, <1>b DEF TryAcquire, PermitHolders
  <2>3. CASE AcquireOwned(c)
        BY <2>3, <1>a, <1>b DEF AcquireOwned, PermitHolders
  <2>4. CASE AcquireOrphaned(c)
        BY <2>4, <1>a, <1>b DEF AcquireOrphaned, PermitHolders
  <2>5. CASE SpawnRequest(c) \/ HandleRequest(c)
        BY <2>5, <1>a DEF SpawnRequest, HandleRequest, PermitHolders
  <2>6. CASE check_and_reserve(c)
        BY <2>6, <1>a, Zenon DEF check_and_reserve, PermitHolders
  <2>7. CASE create_stream(c) \/ enable_protocols(c)
        BY <2>7, <1>a DEF create_stream, enable_protocols, PermitHolders
  <2>8. CASE Add(c)
        BY <2>8, <1>a, Zenon DEF Add, PermitHolders
  <2>9. CASE DropGuard(c)
        BY <2>9, <1>a, Zenon DEF DropGuard, PermitHolders
  <2>10. CASE DropPermit(c)
    <3> DEFINE stage == IF pc[c] = "live" THEN "connected" ELSE "failed"
    <3>1. c \in PermitHolders /\ stage \notin Permitted
          BY <2>10, Zenon DEF DropPermit, PermitHolders
    <3>2. CASE permits' = permits + 1 /\ Goto(c, stage)
          BY <3>1, <3>2, <1>c, Zenon DEF PermitHolders
    <3>3. ASSUME NEW w \in Conn, pc[w] = "queued", permits' = permits,
                 pc' = [pc EXCEPT ![c] = stage, ![w] = "granted"]
          PROVE  BudgetConserved'
      <4>1. w \notin PermitHolders /\ w # c
            BY <3>1, <3>3, Zenon DEF PermitHolders
      <4>2. PermitHolders' = (PermitHolders \ {c}) \cup {w}
            BY <3>1, <3>3, <4>1 DEF PermitHolders
      <4>3. Cardinality(PermitHolders') = Cardinality(PermitHolders)
        <5>1. Cardinality(PermitHolders \ {c}) = Cardinality(PermitHolders) - 1
              BY <3>1, CountRemove, Zenon
        <5>2. /\ PermitHolders \ {c} \in SUBSET Conn
              /\ w \notin PermitHolders \ {c}
              BY <4>1, Zenon
        <5>3. Cardinality(PermitHolders') = Cardinality(PermitHolders \ {c}) + 1
              BY <4>2, <5>2, CountAdd, Zenon
        <5> QED
              BY <5>1, <5>3, CountSubset
      <4> QED
            BY <3>3, <4>3, Zenon DEF BudgetConserved
    <3> QED
          BY <2>10, <3>2, <3>3, Zenon DEF DropPermit, GivePermit
  <2> QED
        BY <1>3, <2>1, <2>2, <2>3, <2>4, <2>5, <2>6, <2>7, <2>8, <2>9, <2>10, Zenon
        DEF Setup
<1>4. ASSUME NEW c \in Conn, Teardown(c) \/ DisconnectOnDrop(c)
      PROVE  BudgetConserved'
      BY <1>4, <1>a, Zenon DEF Teardown, Recover, Finalize, DisconnectOnDrop, PermitHolders
<1>5. ASSUME NEW a \in Addr, Disconnect(a)
      PROVE  BudgetConserved'
      BY <1>5, <1>a, Zenon DEF Disconnect, PermitHolders
<1>6. CASE StartListener \/ ClearListeningAddr \/ BeginShutdown \/ UNCHANGED vars
      BY <1>6, <1>a, Zenon DEF StartListener, ClearListeningAddr, BeginShutdown, vars,
                        PermitHolders
<1>7. CASE StopListener
      BY <1>7, <1>a DEF StopListener, PermitHolders
<1> QED
      BY <1>1, <1>2, <1>3, <1>4, <1>5, <1>6, <1>7, Zenon DEF Next

-----------------------------------------------------------------------------
(* Who holds an address: the guards and the registry. *)

\* Before any setup no address is in `connecting`.
LEMMA InitGuards == Init => GuardsMatchConnecting
BY DEF Init, GuardsMatchConnecting, GuardHolders, Guarded, Uncompleted

\* `connecting` stays the set of the addresses whose setups hold an uncompleted guard.
LEMMA NextGuards ==
    TypeOK /\ GuardsMatchConnecting /\ [Next]_vars => GuardsMatchConnecting'
<1> SUFFICES ASSUME TypeOK, GuardsMatchConnecting, [Next]_vars
             PROVE  GuardsMatchConnecting'
    BY Zenon
<1> USE DEF TypeOK, Goto, Guarded, Uncompleted
<1>a. ASSUME connecting' = connecting, GuardHolders' = GuardHolders
      PROVE  GuardsMatchConnecting'
      BY <1>a, Zenon DEF GuardsMatchConnecting
<1>1. ASSUME NEW c \in Dials, Connect(c) \/ CancelConnect(c)
      PROVE  GuardsMatchConnecting'
      BY <1>1, <1>a DEF Connect, CancelConnect, GuardHolders, Conn, limitVars
<1>2. ASSUME NEW c \in Accepts, Accept(c)
      PROVE  GuardsMatchConnecting'
      BY <1>2, <1>a, Zenon DEF Accept, GuardHolders, Conn, limitVars
<1>3. ASSUME NEW c \in Conn, Setup(c)
      PROVE  GuardsMatchConnecting'
  <2>1. CASE ConnectPrecheck(c) \/ TryAcquire(c)
        BY <2>1, <1>a, Zenon DEF ConnectPrecheck, TryAcquire, GuardHolders, limitVars
  <2>2. CASE AcquireOwned(c) \/ AcquireOrphaned(c)
        BY <2>2, <1>a, Zenon DEF AcquireOwned, AcquireOrphaned, GuardHolders, limitVars
  <2>3. CASE SpawnRequest(c) \/ HandleRequest(c)
        BY <2>3, <1>a, Zenon DEF SpawnRequest, HandleRequest, GuardHolders, limitVars
  <2>4. CASE create_stream(c) \/ enable_protocols(c)
        BY <2>4, <1>a DEF create_stream, enable_protocols, GuardHolders, limitVars
  <2>5. CASE Add(c)
        BY <2>5, <1>a, Zenon DEF Add, GuardHolders, limitVars
  <2>6. CASE check_and_reserve(c)
    <3>1. CASE ~Admissible(AddrOf[c])
          BY <2>6, <3>1, <1>a, Zenon DEF check_and_reserve, GuardHolders, limitVars
    <3>2. CASE Admissible(AddrOf[c])
      <4>1. /\ GuardHolders' = GuardHolders \cup {c}
            /\ connecting' = connecting \cup {AddrOf[c]}
            /\ AddrOf[c] \notin connecting
            BY <2>6, <3>2 DEF check_and_reserve, reserve, Admissible, GuardHolders
      <4> QED
            BY <4>1 DEF GuardsMatchConnecting
    <3> QED
          BY <3>1, <3>2, Zenon
  <2>7. CASE DropGuard(c)
    <3>1. /\ c \in GuardHolders
          /\ GuardHolders' = GuardHolders \ {c}
          /\ connecting' = connecting \ {AddrOf[c]}
          BY <2>7 DEF DropGuard, GuardHolders
    <3> QED
          BY <3>1 DEF GuardsMatchConnecting
  <2>8. CASE DropPermit(c)
        BY <2>8, <1>a DEF DropPermit, GivePermit, GuardHolders, limitVars
  <2> QED
        BY <1>3, <2>1, <2>2, <2>3, <2>4, <2>5, <2>6, <2>7, <2>8, Zenon DEF Setup
<1>4. ASSUME NEW c \in Conn, Teardown(c) \/ DisconnectOnDrop(c)
      PROVE  GuardsMatchConnecting'
      BY <1>4, <1>a, Zenon DEF Teardown, Recover, Finalize, DisconnectOnDrop, GuardHolders,
                        limitVars
<1>5. ASSUME NEW a \in Addr, Disconnect(a)
      PROVE  GuardsMatchConnecting'
      BY <1>5, <1>a, Zenon DEF Disconnect, GuardHolders, limitVars
<1>6. CASE StartListener \/ ClearListeningAddr \/ BeginShutdown \/ UNCHANGED vars
      BY <1>6, <1>a, Zenon DEF StartListener, ClearListeningAddr, BeginShutdown, vars,
                        GuardHolders, limitVars
<1>7. CASE StopListener
      BY <1>7, <1>a, Zenon DEF StopListener, GuardHolders, limitVars
<1> QED
      BY <1>1, <1>2, <1>3, <1>4, <1>5, <1>6, <1>7, Zenon DEF Next

\* Before any setup the registry and the stages agree.
LEMMA InitRegistry == Init => RegistryConsistent
BY Zenon DEF Init, RegistryConsistent, IsActive, Uncompleted

\* An address stays with one setup or one registered connection.
LEMMA NextRegistry ==
    TypeOK /\ GuardsMatchConnecting /\ RegistryConsistent /\ [Next]_vars
        => RegistryConsistent'
<1> SUFFICES ASSUME TypeOK, GuardsMatchConnecting, RegistryConsistent, [Next]_vars
             PROVE  RegistryConsistent'
    BY Zenon
<1> USE DEF TypeOK, Goto, Established, Uncompleted
<1>a. ASSUME active' = active,
             \A d \in Conn : pc[d] \in Established => pc'[d] \in Established,
             \A d \in Conn : pc'[d] \in Uncompleted => pc[d] \in Uncompleted
      PROVE  RegistryConsistent'
      BY <1>a DEF RegistryConsistent, IsActive
<1>1. ASSUME NEW c \in Dials, Connect(c) \/ CancelConnect(c)
      PROVE  RegistryConsistent'
      BY <1>1, <1>a DEF Connect, CancelConnect, Conn
<1>2. ASSUME NEW c \in Accepts, Accept(c)
      PROVE  RegistryConsistent'
      BY <1>2, <1>a, Zenon DEF Accept, Conn
<1>3. ASSUME NEW c \in Conn, Setup(c)
      PROVE  RegistryConsistent'
  <2>1. CASE ConnectPrecheck(c) \/ TryAcquire(c)
        BY <2>1, <1>a DEF ConnectPrecheck, TryAcquire
  <2>2. CASE AcquireOwned(c) \/ AcquireOrphaned(c)
        BY <2>2, <1>a, Zenon DEF AcquireOwned, AcquireOrphaned
  <2>3. CASE SpawnRequest(c) \/ HandleRequest(c)
        BY <2>3, <1>a, Zenon DEF SpawnRequest, HandleRequest
  <2>4. CASE create_stream(c) \/ enable_protocols(c)
        BY <2>4, <1>a, Zenon DEF create_stream, enable_protocols
  <2>5. CASE Add(c)
    <3>1. CASE shutdown
          BY <2>5, <3>1, <1>a, Zenon DEF Add
    <3>2. CASE ~shutdown
      <4>1. /\ active' = [active EXCEPT ![AddrOf[c]] = c]
            /\ pc' = [pc EXCEPT ![c] = "added"]
            /\ pc[c] = "ready"
            BY <2>5, <3>2, Zenon DEF Add
      <4>2. \A d \in Conn : (d # c /\ pc[d] \in Uncompleted) => AddrOf[d] # AddrOf[c]
            BY <4>1, Zenon DEF GuardsMatchConnecting, GuardHolders, Guarded
      <4> QED
            BY <4>1, <4>2 DEF RegistryConsistent, IsActive
    <3> QED
          BY <3>1, <3>2, Zenon
  <2>6. CASE check_and_reserve(c)
    <3>1. CASE ~Admissible(AddrOf[c])
          BY <2>6, <3>1, <1>a, Zenon DEF check_and_reserve
    <3>2. CASE Admissible(AddrOf[c])
      <4>1. /\ ~IsActive(AddrOf[c])
            /\ active' = active
            /\ pc[c] \notin Established
            /\ \A d \in Conn : d # c => pc'[d] = pc[d]
            BY <2>6, <3>2, Zenon DEF check_and_reserve, Admissible
      <4> QED
            BY <4>1 DEF RegistryConsistent, IsActive
    <3> QED
          BY <3>1, <3>2, Zenon
  <2>7. CASE DropGuard(c)
        BY <2>7, <1>a, Zenon DEF DropGuard
  <2>8. CASE DropPermit(c)
        BY <2>8, <1>a DEF DropPermit, GivePermit
  <2> QED
        BY <1>3, <2>1, <2>2, <2>3, <2>4, <2>5, <2>6, <2>7, <2>8, Zenon DEF Setup
<1>4. ASSUME NEW c \in Conn, Teardown(c) \/ DisconnectOnDrop(c)
      PROVE  RegistryConsistent'
  <2>1. CASE Recover(c) \/ DisconnectOnDrop(c)
        BY <2>1, <1>a, Zenon DEF Recover, DisconnectOnDrop
  <2>2. CASE Finalize(c)
        BY <2>2 DEF Finalize, RegistryConsistent, IsActive
  <2> QED
        BY <1>4, <2>1, <2>2, Zenon DEF Teardown
<1>5. ASSUME NEW a \in Addr, Disconnect(a)
      PROVE  RegistryConsistent'
      BY <1>5, <1>a, Zenon DEF Disconnect
<1>6. CASE StartListener \/ ClearListeningAddr \/ BeginShutdown \/ UNCHANGED vars
      BY <1>6, <1>a, Zenon DEF StartListener, ClearListeningAddr, BeginShutdown, vars
<1>7. CASE StopListener
      BY <1>7, <1>a DEF StopListener
<1> QED
      BY <1>1, <1>2, <1>3, <1>4, <1>5, <1>6, <1>7, Zenon DEF Next

-----------------------------------------------------------------------------
(* Who owns a teardown: claims and finalizers. *)

\* Before any setup there is no claim and no recovery.
LEMMA InitClaims == Init => ClaimsConsistent /\ RecoveryHitsOwnInstance
BY DEF Init, ClaimsConsistent, ClaimHasFinalizer, RecoveryHitsOwnInstance

\* A claim stays with the one finalizer created for it, and a recovery with its instance.
LEMMA NextClaims ==
    TypeOK /\ RegistryConsistent /\ ClaimsConsistent /\ RecoveryHitsOwnInstance
        /\ [Next]_vars => ClaimsConsistent' /\ RecoveryHitsOwnInstance'
<1> SUFFICES ASSUME TypeOK, RegistryConsistent, ClaimsConsistent,
                    RecoveryHitsOwnInstance, [Next]_vars
             PROVE  ClaimsConsistent' /\ RecoveryHitsOwnInstance'
    BY Zenon
<1> USE DEF TypeOK, Goto, Established
<1>a. ASSUME active' = active, closeVars' = closeVars,
             \A d \in Conn : pc[d] \in Established => pc'[d] \in Established
      PROVE  ClaimsConsistent' /\ RecoveryHitsOwnInstance'
      BY <1>a, Zenon DEF closeVars, ClaimsConsistent, ClaimHasFinalizer, RecoveryHitsOwnInstance
\* A claim marks the instance registered under the address and arms one finalizer.
<1>b. ASSUME NEW a \in Addr, NEW id \in Conn \cup {NoConn},
             NEW cause \in {"Call", "Task"},
             claim_disconnect(a, id, cause), active' = active, pc' = pc
      PROVE  ClaimsConsistent'
  <2>1. CASE ~Claims(a, id)
        BY <1>b, <2>1, Zenon DEF claim_disconnect, ClaimsConsistent, ClaimHasFinalizer
  <2>2. CASE Claims(a, id)
    <3> DEFINE d == active[a]
    <3>1. /\ d \in Conn /\ d \notin disconnecting
          /\ AddrOf[d] = a /\ pc[d] \in Established
          BY <2>2 DEF Claims, IsActive, RegistryConsistent
    <3>2. finalizers[d] = 0
          BY <3>1, Zenon DEF ClaimsConsistent, ClaimHasFinalizer
    <3>3. /\ disconnecting' = disconnecting \cup {d}
          /\ finalizers' = [finalizers EXCEPT ![d] = @ + 1]
          BY <1>b, <2>2, Zenon DEF claim_disconnect
    <3> QED
          BY <1>b, <3>1, <3>2, <3>3 DEF ClaimsConsistent, ClaimHasFinalizer
  <2> QED
        BY <2>1, <2>2, Zenon
<1>1. ASSUME NEW c \in Dials, Connect(c) \/ CancelConnect(c)
      PROVE  ClaimsConsistent' /\ RecoveryHitsOwnInstance'
      BY <1>1, <1>a, Zenon DEF Connect, CancelConnect, Conn
<1>2. ASSUME NEW c \in Accepts, Accept(c)
      PROVE  ClaimsConsistent' /\ RecoveryHitsOwnInstance'
      BY <1>2, <1>a, Zenon DEF Accept, Conn
<1>3. ASSUME NEW c \in Conn, Setup(c)
      PROVE  ClaimsConsistent' /\ RecoveryHitsOwnInstance'
  <2>1. CASE ConnectPrecheck(c) \/ TryAcquire(c)
        BY <2>1, <1>a, Zenon DEF ConnectPrecheck, TryAcquire
  <2>2. CASE AcquireOwned(c) \/ AcquireOrphaned(c)
        BY <2>2, <1>a, Zenon DEF AcquireOwned, AcquireOrphaned
  <2>3. CASE SpawnRequest(c) \/ HandleRequest(c)
        BY <2>3, <1>a, Zenon DEF SpawnRequest, HandleRequest
  <2>4. CASE create_stream(c) \/ enable_protocols(c) \/ check_and_reserve(c)
        BY <2>4, <1>a, Zenon DEF create_stream, enable_protocols, check_and_reserve
  <2>5. CASE Add(c)
    <3>1. CASE shutdown
          BY <2>5, <3>1, <1>a, Zenon DEF Add
    <3>2. CASE ~shutdown
      <4>1. /\ active' = [active EXCEPT ![AddrOf[c]] = c]
            /\ pc' = [pc EXCEPT ![c] = "added"]
            /\ pc[c] = "ready"
            /\ UNCHANGED closeVars
            BY <2>5, <3>2, Zenon DEF Add
      <4>2. active[AddrOf[c]] = NoConn
            BY <4>1, Zenon DEF RegistryConsistent, Uncompleted, IsActive
      <4>3. c \notin disconnecting /\ finalizers[c] = 0
            BY <4>1, <4>2, Zenon DEF ClaimsConsistent
      <4> QED
            BY <4>1, <4>2, <4>3
            DEF closeVars, ClaimsConsistent, ClaimHasFinalizer, RecoveryHitsOwnInstance
    <3> QED
          BY <3>1, <3>2, Zenon
  <2>6. CASE DropGuard(c)
        BY <2>6, <1>a, Zenon DEF DropGuard
  <2>7. CASE DropPermit(c)
        BY <2>7, <1>a, Zenon DEF DropPermit, GivePermit
  <2> QED
        BY <1>3, <2>1, <2>2, <2>3, <2>4, <2>5, <2>6, <2>7, Zenon DEF Setup
<1>4. ASSUME NEW c \in Conn, Teardown(c) \/ DisconnectOnDrop(c)
      PROVE  ClaimsConsistent' /\ RecoveryHitsOwnInstance'
  <2>1. CASE Recover(c)
    <3>1. ClaimsConsistent'
          BY <2>1, <1>b, Zenon DEF Recover
    <3>2. RecoveryHitsOwnInstance'
          BY <2>1, Zenon DEF Recover, claim_disconnect, Claims, IsActive, RecoveryHitsOwnInstance
    <3> QED
          BY <3>1, <3>2, Zenon
  <2>2. CASE Finalize(c)
    <3>1. active[AddrOf[c]] = c /\ finalizers[c] = 1
          BY <2>2 DEF Finalize, ClaimsConsistent, ClaimHasFinalizer
    <3> QED
          BY <2>2, <3>1 DEF Finalize, ClaimsConsistent, ClaimHasFinalizer,
                            RecoveryHitsOwnInstance
  <2>3. CASE DisconnectOnDrop(c)
        BY <2>3, Zenon DEF DisconnectOnDrop, ClaimsConsistent, ClaimHasFinalizer,
                    RecoveryHitsOwnInstance
  <2> QED
        BY <1>4, <2>1, <2>2, <2>3, Zenon DEF Teardown
<1>5. ASSUME NEW a \in Addr, Disconnect(a)
      PROVE  ClaimsConsistent' /\ RecoveryHitsOwnInstance'
  <2>1. ClaimsConsistent'
        BY <1>5, <1>b, Zenon DEF Disconnect
  <2>2. RecoveryHitsOwnInstance'
        BY <1>5, Zenon DEF Disconnect, claim_disconnect, Claims, IsActive, RecoveryHitsOwnInstance
  <2> QED
        BY <2>1, <2>2, Zenon
<1>6. CASE StartListener \/ ClearListeningAddr \/ BeginShutdown \/ UNCHANGED vars
      BY <1>6, <1>a, Zenon DEF StartListener, ClearListeningAddr, BeginShutdown, vars, closeVars
<1>7. CASE StopListener
      BY <1>7, <1>a, Zenon DEF StopListener
<1> QED
      BY <1>1, <1>2, <1>3, <1>4, <1>5, <1>6, <1>7, Zenon DEF Next

-----------------------------------------------------------------------------
(* The charges: per-IP buckets and the global limit. *)

ChargedTo(ip) == {c \in Charged : canonical_ip(AddrOf[c]) = ip}

ChargeInv == AccountingExact /\ BucketLimit /\ GlobalLimit

\* A new node charges nobody and is within its limits.
LEMMA InitCharges == Init => ChargeInv
<1> SUFFICES ASSUME Init PROVE ChargeInv
    BY Zenon
<1>1. Charged = {}
      BY Zenon DEF Init, Charged, Uncompleted
<1>2. \A ip \in Ip : {c \in Charged : canonical_ip(AddrOf[c]) = ip} = {}
      BY <1>1, Zenon
<1>3. AccountingExact
      BY <1>2, FS_EmptySet, Zenon DEF AccountingExact, Init
<1>4. BucketLimit
      BY LimitAssumption DEF BucketLimit, Init
<1>5. GlobalLimit
      BY <1>1, FS_EmptySet, LimitAssumption DEF GlobalLimit
<1> QED
      BY <1>3, <1>4, <1>5, Zenon DEF ChargeInv

\* check_and_reserve compares the limit with the sizes of `active` and `connecting`;
\* these bound the number of charged instances, since no two share an address.
LEMMA ChargedBounded ==
    ASSUME TypeOK, GuardsMatchConnecting, RegistryConsistent
    PROVE  /\ Cardinality(Charged) <= Cardinality(ActiveAddrs) + Cardinality(connecting)
           /\ Cardinality(ActiveAddrs) \in Nat
           /\ Cardinality(connecting) \in Nat
<1> DEFINE f == [c \in Charged |-> AddrOf[c]]
           all == [c \in Conn |-> AddrOf[c]]
           Used == {AddrOf[c] : c \in Conn}
<1>1. all \in Surjection(Conn, Used)
      BY Zenon DEF Surjection
<1>2. IsFiniteSet(Used)
      BY <1>1, FS_Surjection, Zenon
<1>3. ActiveAddrs \subseteq Used /\ connecting \subseteq Used
      BY DEF ActiveAddrs, IsActive, TypeOK, RegistryConsistent, GuardsMatchConnecting,
             GuardHolders
<1>4. /\ IsFiniteSet(ActiveAddrs) /\ Cardinality(ActiveAddrs) \in Nat
      /\ IsFiniteSet(connecting) /\ Cardinality(connecting) \in Nat
      BY <1>2, <1>3, FS_Subset, FS_CardinalityType, Zenon
<1>5. f \in [Charged -> ActiveAddrs \cup connecting]
  <2> SUFFICES ASSUME NEW c \in Charged
               PROVE  AddrOf[c] \in ActiveAddrs \cup connecting
      BY Zenon
  <2>1. CASE pc[c] \in Uncompleted
        BY <2>1, Zenon DEF Charged, GuardsMatchConnecting, GuardHolders, Guarded
  <2>2. CASE active[AddrOf[c]] = c
        BY <2>2, Zenon DEF Charged, ActiveAddrs, IsActive
  <2> QED
        BY <2>1, <2>2, Zenon DEF Charged
<1>6. \A c, d \in Charged : AddrOf[c] = AddrOf[d] => c = d
      BY DEF Charged, GuardsMatchConnecting, GuardHolders, Guarded, RegistryConsistent,
             IsActive, TypeOK
<1>7. f \in Injection(Charged, ActiveAddrs \cup connecting)
      BY <1>5, <1>6, Zenon DEF Injection, IsInjective
<1>8. /\ IsFiniteSet(ActiveAddrs \cup connecting)
      /\ Cardinality(ActiveAddrs \cup connecting)
            = Cardinality(ActiveAddrs) + Cardinality(connecting)
                - Cardinality(ActiveAddrs \cap connecting)
      BY <1>4, FS_Union, Zenon
<1>9. Cardinality(ActiveAddrs \cap connecting) \in Nat
      BY <1>4, FS_Intersection, FS_CardinalityType, Zenon
<1>10. Cardinality(Charged) <= Cardinality(ActiveAddrs \cup connecting)
      BY <1>7, <1>8, FS_Injection, Zenon
<1>11. Cardinality(Charged) \in Nat
      BY CountSubset, Zenon DEF Charged
<1> HIDE DEF f
<1> QED
      BY <1>4, <1>8, <1>9, <1>10, <1>11

\* Reservations and releases keep the counts exact and within the limits.
LEMMA NextCharges ==
    TypeOK /\ GuardsMatchConnecting /\ RegistryConsistent /\ ClaimsConsistent
        /\ ChargeInv /\ [Next]_vars => ChargeInv'
<1> SUFFICES ASSUME TypeOK, GuardsMatchConnecting, RegistryConsistent,
                    ClaimsConsistent, ChargeInv, [Next]_vars
             PROVE  ChargeInv'
    BY Zenon
<1> USE DEF TypeOK, Goto, Uncompleted
<1>t. Charged \in SUBSET Conn /\ \A ip \in Ip : ChargedTo(ip) \in SUBSET Conn
      BY Zenon DEF Charged, ChargedTo
<1>n. Cardinality(Charged) \in Nat /\ \A ip \in Ip : Cardinality(ChargedTo(ip)) \in Nat
      BY <1>t, CountSubset, Zenon
<1>e. \A ip \in Ip : ip_counts[ip] = Cardinality(ChargedTo(ip))
      BY Zenon DEF ChargeInv, AccountingExact, ChargedTo
<1>s. ASSUME \A ip \in Ip : ip_counts'[ip] = Cardinality(ChargedTo(ip)'),
             \A ip \in Ip : ip_counts'[ip] <= max_connections_per_ip,
             Cardinality(Charged') <= max_connections
      PROVE  ChargeInv'
      BY <1>s, Zenon DEF ChargeInv, AccountingExact, ChargedTo, BucketLimit, GlobalLimit
<1>a. ASSUME ip_counts' = ip_counts, active' = active,
             \A d \in Conn : pc'[d] \in Uncompleted <=> pc[d] \in Uncompleted
      PROVE  ChargeInv'
  <2>1. Charged' = Charged
        BY <1>a, Zenon DEF Charged
  <2> QED
        BY <1>a, <2>1, Zenon DEF ChargeInv, AccountingExact, BucketLimit, GlobalLimit, canonical_ip
\* A reservation charges one more instance.
<1>b. ASSUME NEW c \in Conn, c \notin Charged, Charged' = Charged \cup {c},
             ip_counts' = [ip_counts EXCEPT ![canonical_ip(AddrOf[c])] = @ + 1],
             ip_counts[canonical_ip(AddrOf[c])] < max_connections_per_ip,
             Cardinality(Charged) < max_connections
      PROVE  ChargeInv'
  <2>1. Cardinality(Charged') = Cardinality(Charged) + 1
        BY <1>b, <1>t, CountAdd, Zenon
  <2>2. ASSUME NEW ip \in Ip
        PROVE  ip_counts'[ip] = Cardinality(ChargedTo(ip)')
    <3>1. CASE ip = canonical_ip(AddrOf[c])
      <4>1. c \notin ChargedTo(ip) /\ ChargedTo(ip)' = ChargedTo(ip) \cup {c}
            BY <1>b, <3>1, Zenon DEF ChargedTo, canonical_ip
      <4> QED
            BY <1>b, <1>e, <1>t, <3>1, <4>1, CountAdd
    <3>2. CASE ip # canonical_ip(AddrOf[c])
      <4>1. ChargedTo(ip)' = ChargedTo(ip)
            BY <1>b, <3>2, Zenon DEF ChargedTo, canonical_ip
      <4> QED
            BY <1>b, <1>e, <3>2, <4>1, Zenon
    <3> QED
          BY <3>1, <3>2, Zenon
  <2>3. \A ip \in Ip : ip_counts'[ip] <= max_connections_per_ip
        BY <1>b, LimitAssumption DEF ChargeInv, BucketLimit
  <2> QED
        BY <1>b, <1>n, <1>s, <2>1, <2>2, <2>3, LimitAssumption
\* The drop of an uncompleted guard, or a finalizer, releases one.
<1>c. ASSUME NEW c \in Charged, Charged' = Charged \ {c},
             ip_counts' = ReleasedIp(AddrOf[c])
      PROVE  ChargeInv'
  <2>1. Cardinality(Charged') = Cardinality(Charged) - 1
        BY <1>c, <1>t, CountRemove, Zenon
  <2>2. ASSUME NEW ip \in Ip
        PROVE  /\ ip_counts'[ip] = Cardinality(ChargedTo(ip)')
               /\ ip_counts'[ip] <= ip_counts[ip]
    <3>1. CASE ip = canonical_ip(AddrOf[c])
      <4>1. c \in ChargedTo(ip) /\ ChargedTo(ip)' = ChargedTo(ip) \ {c}
            BY <1>c, <3>1, Zenon DEF ChargedTo, canonical_ip
      <4>2. Cardinality(ChargedTo(ip) \ {c}) = Cardinality(ChargedTo(ip)) - 1
            BY <1>t, <4>1, CountRemove, Zenon
      <4>3. Cardinality(ChargedTo(ip) \ {c}) \in Nat
            BY <1>t, CountSubset, Zenon
      <4>4. ip_counts'[ip] = IF ip_counts[ip] > 1 THEN ip_counts[ip] - 1 ELSE 0
            BY <1>c, <3>1, Zenon DEF ReleasedIp
      <4> QED
            BY <1>e, <1>n, <4>1, <4>2, <4>3, <4>4
    <3>2. CASE ip # canonical_ip(AddrOf[c])
      <4>1. ChargedTo(ip)' = ChargedTo(ip)
            BY <1>c, <3>2, Zenon DEF ChargedTo, canonical_ip
      <4>2. ip_counts'[ip] = ip_counts[ip]
            BY <1>c, <3>2, Zenon DEF ReleasedIp
      <4> QED
            BY <1>e, <4>1, <4>2
    <3> QED
          BY <3>1, <3>2, Zenon
  <2>3. \A ip \in Ip : ip_counts'[ip] <= max_connections_per_ip
    <3> SUFFICES ASSUME NEW ip \in Ip
                 PROVE  ip_counts'[ip] <= max_connections_per_ip
        BY Zenon
    <3>1. ip_counts[ip] <= max_connections_per_ip /\ ip_counts[ip] \in Nat
          BY Zenon DEF ChargeInv, BucketLimit
    <3>2. ip_counts'[ip] \in Nat
          BY <1>c DEF ReleasedIp
    <3> QED
          BY <2>2, <3>1, <3>2, LimitAssumption
  <2>4. Cardinality(Charged) <= max_connections
        BY Zenon DEF ChargeInv, GlobalLimit
  <2> QED
        BY <1>n, <1>s, <2>1, <2>2, <2>3, <2>4, LimitAssumption
<1>1. ASSUME NEW c \in Dials, Connect(c) \/ CancelConnect(c)
      PROVE  ChargeInv'
      BY <1>1, <1>a, Zenon DEF Connect, CancelConnect, Conn, limitVars
<1>2. ASSUME NEW c \in Accepts, Accept(c)
      PROVE  ChargeInv'
      BY <1>2, <1>a, Zenon DEF Accept, Conn, limitVars
<1>3. ASSUME NEW c \in Conn, Setup(c)
      PROVE  ChargeInv'
  <2>1. CASE ConnectPrecheck(c) \/ TryAcquire(c)
        BY <2>1, <1>a, Zenon DEF ConnectPrecheck, TryAcquire, limitVars
  <2>2. CASE AcquireOwned(c) \/ AcquireOrphaned(c)
        BY <2>2, <1>a, Zenon DEF AcquireOwned, AcquireOrphaned, limitVars
  <2>3. CASE SpawnRequest(c) \/ HandleRequest(c)
        BY <2>3, <1>a, Zenon DEF SpawnRequest, HandleRequest, limitVars
  <2>4. CASE create_stream(c) \/ enable_protocols(c)
        BY <2>4, <1>a, Zenon DEF create_stream, enable_protocols, limitVars
  <2>5. CASE check_and_reserve(c)
    <3>1. CASE ~Admissible(AddrOf[c])
          BY <2>5, <3>1, <1>a, Zenon DEF check_and_reserve, limitVars
    <3>2. CASE Admissible(AddrOf[c])
      <4>1. /\ pc[c] = "permitted"
            /\ pc' = [pc EXCEPT ![c] = IF c \in Dials THEN "reserved" ELSE "setup"]
            /\ active' = active
            /\ active[AddrOf[c]] = NoConn
            /\ ip_counts' = [ip_counts EXCEPT ![canonical_ip(AddrOf[c])] = @ + 1]
            /\ ip_counts[canonical_ip(AddrOf[c])] < max_connections_per_ip
            /\ Cardinality(ActiveAddrs) + Cardinality(connecting) < max_connections
            BY <2>5, <3>2, Zenon DEF check_and_reserve, reserve, Admissible, IsActive
      <4>2. c \notin Charged /\ Charged' = Charged \cup {c}
            BY <4>1 DEF Charged
      <4>3. /\ Cardinality(Charged) <= Cardinality(ActiveAddrs) + Cardinality(connecting)
            /\ Cardinality(ActiveAddrs) \in Nat /\ Cardinality(connecting) \in Nat
            BY ChargedBounded, Zenon
      <4>4. Cardinality(Charged) < max_connections
            BY <1>n, <4>1, <4>3, LimitAssumption
      <4> QED
            BY <4>1, <4>2, <4>4, <1>b, Zenon
    <3> QED
          BY <3>1, <3>2, Zenon
  <2>6. CASE Add(c)
    <3>1. CASE shutdown
          BY <2>6, <3>1, <1>a, Zenon DEF Add, limitVars
    <3>2. CASE ~shutdown
      <4>1. /\ active' = [active EXCEPT ![AddrOf[c]] = c]
            /\ pc' = [pc EXCEPT ![c] = "added"]
            /\ pc[c] = "ready"
            /\ ip_counts' = ip_counts
            BY <2>6, <3>2, Zenon DEF Add, limitVars
      <4>2. active[AddrOf[c]] = NoConn
            BY <4>1, Zenon DEF RegistryConsistent, IsActive
      <4>3. Charged' = Charged
            BY <4>1, <4>2, Zenon DEF Charged
      <4> QED
            BY <4>1, <4>3, Zenon
            DEF ChargeInv, AccountingExact, BucketLimit, GlobalLimit, canonical_ip
    <3> QED
          BY <3>1, <3>2, Zenon
  <2>7. CASE DropGuard(c)
    <3>1. CASE pc[c] = "added"
          BY <2>7, <3>1, <1>a, Zenon DEF DropGuard
    <3>2. CASE pc[c] = "rollback"
      <4>1. active[AddrOf[c]] = NoConn
            BY <3>2, Zenon DEF RegistryConsistent, IsActive
      <4>2. /\ c \in Charged
            /\ Charged' = Charged \ {c}
            /\ ip_counts' = ReleasedIp(AddrOf[c])
            BY <2>7, <3>2, <4>1, Zenon DEF DropGuard, Charged
      <4> QED
            BY <4>2, <1>c, Zenon
    <3> QED
          BY <2>7, <3>1, <3>2, Zenon DEF DropGuard
  <2>8. CASE DropPermit(c)
        BY <2>8, <1>a DEF DropPermit, GivePermit, limitVars
  <2> QED
        BY <1>3, <2>1, <2>2, <2>3, <2>4, <2>5, <2>6, <2>7, <2>8, Zenon DEF Setup
<1>4. ASSUME NEW c \in Conn, Teardown(c) \/ DisconnectOnDrop(c)
      PROVE  ChargeInv'
  <2>1. CASE Recover(c) \/ DisconnectOnDrop(c)
        BY <2>1, <1>a, Zenon DEF Recover, DisconnectOnDrop, limitVars
  <2>2. CASE Finalize(c)
    <3>1. active[AddrOf[c]] = c /\ pc[c] \notin Uncompleted
          BY <2>2 DEF Finalize, ClaimsConsistent, RegistryConsistent, IsActive, Established
    <3>2. /\ c \in Charged
          /\ Charged' = Charged \ {c}
          /\ ip_counts' = ReleasedIp(AddrOf[c])
          BY <2>2, <3>1 DEF Finalize, Charged
    <3> QED
          BY <3>2, <1>c, Zenon
  <2> QED
        BY <1>4, <2>1, <2>2, Zenon DEF Teardown
<1>5. ASSUME NEW a \in Addr, Disconnect(a)
      PROVE  ChargeInv'
      BY <1>5, <1>a, Zenon DEF Disconnect, limitVars
<1>6. CASE StartListener \/ ClearListeningAddr \/ BeginShutdown \/ UNCHANGED vars
      BY <1>6, <1>a, Zenon DEF StartListener, ClearListeningAddr, BeginShutdown, vars, limitVars
<1>7. CASE StopListener
      BY <1>7, <1>a, Zenon DEF StopListener, limitVars
<1> QED
      BY <1>1, <1>2, <1>3, <1>4, <1>5, <1>6, <1>7, Zenon DEF Next

-----------------------------------------------------------------------------
(* The theorems. *)

\* IInv is an inductive invariant of the admission core.
THEOREM Invariance == Spec => []IInv
<1>1. Init => IInv
      BY InitType, InitBudget, InitGuards, InitRegistry, InitClaims, InitCharges, Zenon
      DEF IInv, ChargeInv
<1>2. IInv /\ [Next]_vars => IInv'
      BY NextType, NextBudget, NextGuards, NextRegistry, NextClaims, NextCharges, Zenon
      DEF IInv, ChargeInv
<1> QED
      BY <1>1, <1>2, PTL DEF Spec

\* Every ip_counts bucket always equals the number of setups and connections charged
\* to that IP: reserve and release_ip are paired on every path.
THEOREM AccountingIsExact == Spec => []AccountingExact
<1>1. IInv => AccountingExact
      BY Zenon DEF IInv
<1> QED
      BY <1>1, Invariance, PTL

\* No host exceeds max_connections_per_ip, whatever the limits and in whichever notation
\* its addresses arrive.
THEOREM HostLimitRespected == Spec => []PerHostLimit
<1>1. IInv => PerHostLimit
      BY Zenon DEF IInv, AccountingExact, BucketLimit, PerHostLimit, canonical_ip
<1> QED
      BY <1>1, Invariance, PTL

\* The node never exceeds max_connections, however setups, teardowns and cancellations
\* interleave.
THEOREM NodeLimitRespected == Spec => []GlobalLimit
<1>1. IInv => GlobalLimit
      BY Zenon DEF IInv
<1> QED
      BY <1>1, Invariance, PTL

\* No two setups or connections of a node share an address.
THEOREM AddressesExclusive == Spec => []OneInstancePerAddr
<1>1. IInv => OneInstancePerAddr
      BY DEF IInv, OneInstancePerAddr, Charged, GuardsMatchConnecting, GuardHolders,
             Guarded, RegistryConsistent, IsActive, TypeOK
<1> QED
      BY <1>1, Invariance, PTL

\* The pending-connection check of check_and_reserve never rejects: the semaphore is
\* always the tighter bound.
THEOREM PendingCheckNeverRejects == Spec => []BudgetTighterThanLimit
<1>1. ASSUME IInv PROVE BudgetTighterThanLimit
  <2> SUFFICES ASSUME NEW c \in Conn, pc[c] = "permitted"
               PROVE  Cardinality(connecting) < ConnectingLimit
      BY Zenon DEF BudgetTighterThanLimit
  <2> DEFINE f == [d \in GuardHolders |-> AddrOf[d]]
  <2>1. /\ PermitHolders \in SUBSET Conn /\ GuardHolders \in SUBSET Conn
        /\ c \in PermitHolders
        /\ GuardHolders \subseteq PermitHolders \ {c}
        BY Zenon DEF PermitHolders, GuardHolders, Permitted, Guarded, Uncompleted
  <2>2. f \in Surjection(GuardHolders, connecting)
        BY <1>1, Zenon DEF Surjection, IInv, GuardsMatchConnecting
  <2>3. Cardinality(connecting) <= Cardinality(GuardHolders)
        BY <2>1, <2>2, CountSubset, FS_Surjection, Zenon
  <2>4. Cardinality(PermitHolders \ {c}) = Cardinality(PermitHolders) - 1
        BY <2>1, CountRemove, Zenon
  <2>5. Cardinality(GuardHolders) <= Cardinality(PermitHolders \ {c})
        BY <2>1, CountSubset, FS_Subset, Zenon
  <2>6. permits + Cardinality(PermitHolders) = ConnectingLimit /\ permits \in Nat
        BY <1>1, Zenon DEF IInv, BudgetConserved, TypeOK
  <2>7. /\ Cardinality(GuardHolders) \in Nat /\ Cardinality(PermitHolders) \in Nat
        /\ IsFiniteSet(connecting)
        BY <2>1, <2>2, CountSubset, FS_Surjection, Zenon
  <2>8. Cardinality(connecting) \in Nat
        BY <2>7, FS_CardinalityType, Zenon
  <2> HIDE DEF f
  <2> QED
        BY <2>3, <2>4, <2>5, <2>6, <2>7, <2>8, LimitPositive
<1> QED
      BY <1>1, Invariance, PTL

\* A claimed connection always has its finalizer, and an armed finalizer owns the entry and
\* the charge it is going to remove: claim_disconnect never leaks a claim or grants it twice.
THEOREM TeardownsAreOwned == Spec => []TeardownOwned
<1>1. ASSUME IInv PROVE FinalizerOwnsEntry
  <2> SUFFICES ASSUME NEW c \in Conn, finalizers[c] > 0
               PROVE  /\ finalizers[c] = 1 /\ active[AddrOf[c]] = c
                      /\ ip_counts[canonical_ip(AddrOf[c])] > 0
      BY Zenon DEF FinalizerOwnsEntry
  <2>1. active[AddrOf[c]] = c /\ finalizers[c] = 1
        BY <1>1 DEF IInv, ClaimsConsistent, ClaimHasFinalizer, TypeOK
  <2> DEFINE ip == canonical_ip(AddrOf[c])
             S == {d \in Charged : canonical_ip(AddrOf[d]) = ip}
  <2>2. c \in S /\ S \in SUBSET Conn
        BY <2>1, Zenon DEF Charged
  <2>3. ip_counts[ip] = Cardinality(S) /\ Cardinality(S) \in Nat /\ IsFiniteSet(S)
        BY <1>1, <2>2, CanonicalType, CountSubset, Zenon DEF IInv, AccountingExact
  <2>4. Cardinality(S) # 0
        BY <2>2, <2>3, FS_EmptySet, Zenon
  <2> HIDE DEF ip, S
  <2>5. ip_counts[ip] > 0
        BY <2>3, <2>4
  <2> QED
        BY <2>1, <2>5, Zenon DEF ip
<1>2. IInv => ClaimHasFinalizer
      BY Zenon DEF IInv, ClaimsConsistent
<1>3. IInv => TeardownOwned
      BY <1>1, <1>2, Zenon DEF TeardownOwned
<1> QED
      BY <1>3, Invariance, PTL

\* A stale task guard never disconnects the connection that reused its address.
THEOREM RecoveriesAreOwn == Spec => []RecoveryHitsOwnInstance
<1>1. IInv => RecoveryHitsOwnInstance
      BY Zenon DEF IInv
<1> QED
      BY <1>1, Invariance, PTL

\* A registered connection is never overwritten and is only removed by the finalizer
\* armed for it.
THEOREM RemovalOwnership == Spec => RemovedByOwnFinalizer
<1> DEFINE Removal == \A a \in Addr : (IsActive(a) /\ active'[a] # active[a]) =>
                          /\ active'[a] = NoConn
                          /\ finalizers[active[a]] > finalizers'[active[a]]
<1>1. ASSUME IInv, Next PROVE Removal
  <2> USE DEF limitVars, closeVars
  <2>a. ASSUME active' = active PROVE Removal
        BY <2>a, Zenon
  <2>b. active \in [Addr -> Conn \cup {NoConn}] /\ finalizers \in [Conn -> Nat]
        BY <1>1, Zenon DEF IInv, TypeOK
  <2>1. ASSUME NEW c \in Conn, Add(c) PROVE Removal
    <3>1. ~IsActive(AddrOf[c])
          BY <1>1, <2>1, Zenon DEF IInv, RegistryConsistent, Add, Uncompleted
    <3> QED
          BY <2>1, <2>b, <3>1, Zenon DEF Add
  <2>2. ASSUME NEW c \in Conn, Finalize(c) PROVE Removal
    <3>1. active[AddrOf[c]] = c
          BY <1>1, <2>2 DEF IInv, ClaimsConsistent, Finalize
    <3> QED
          BY <2>2, <2>b, <3>1 DEF Finalize
  <2>3. ASSUME NEW c \in Conn, Setup(c), ~Add(c) PROVE active' = active
        BY <2>3, Zenon DEF Setup, ConnectPrecheck, TryAcquire, AcquireOwned, AcquireOrphaned,
              SpawnRequest, HandleRequest, check_and_reserve, create_stream,
              enable_protocols, DropGuard, DropPermit
  <2>4. ASSUME NEW c \in Conn, Recover(c) \/ DisconnectOnDrop(c) PROVE active' = active
        BY <2>4, Zenon DEF Recover, DisconnectOnDrop
  <2>5. ASSUME NEW c \in Conn, Connect(c) \/ CancelConnect(c) \/ Accept(c)
        PROVE  active' = active
        BY <2>5, Zenon DEF Connect, CancelConnect, Accept
  <2>6. ASSUME NEW a \in Addr, Disconnect(a)
        PROVE  active' = active
        BY <2>6, Zenon DEF Disconnect
  <2>7. ASSUME StartListener \/ StopListener \/ ClearListeningAddr \/ BeginShutdown
        PROVE  active' = active
        BY <2>7, Zenon DEF StartListener, StopListener, ClearListeningAddr, BeginShutdown
  <2> QED
        BY <1>1, <2>a, <2>1, <2>2, <2>3, <2>4, <2>5, <2>6, <2>7, Zenon DEF Next, Teardown, Conn
<1>2. IInv /\ [Next]_vars => [Removal]_vars
      BY <1>1, Zenon
<1>3. []IInv /\ [][Next]_vars => [][Removal]_vars
      BY <1>2, PTL
<1> QED
      BY <1>3, Invariance, PTL DEF Spec, RemovedByOwnFinalizer

-----------------------------------------------------------------------------
(* The refinement. *)

\* A step of the admission core that leaves the pending stages and the entries alone is
\* no step of the registry.
LEMMA RegistryFrame ==
    ASSUME active' = active,
           \A d \in Conn : pc'[d] \in Uncompleted <=> pc[d] \in Uncompleted
    PROVE  Charged' = Charged /\ Registered' = Registered
BY Zenon DEF Charged, Registered

\* The registry counts as the admission core does.
LEMMA SameCardinality == \A T : R!Cardinality(T) = Cardinality(T)
BY Zenon DEF Cardinality, R!Cardinality

\* check_and_reserve is Admit or nothing: the counts it reads are those of all the
\* connections.
LEMMA ReserveAdmits ==
    ASSUME IInv, NEW c \in Conn, check_and_reserve(c)
    PROVE  R!Admit(c) \/ UNCHANGED <<Charged, Registered>>
<1>0. pc \in [Conn -> Stage] /\ active \in [Addr -> Conn \cup {NoConn}]
      BY Zenon DEF IInv, TypeOK
<1>1. CASE ~Admissible(AddrOf[c])
      BY <1>0, <1>1, RegistryFrame, Zenon DEF check_and_reserve, Goto, Uncompleted
<1>2. CASE Admissible(AddrOf[c])
  <2> DEFINE a == AddrOf[c]
             S == {d \in Charged : canonical_ip(AddrOf[d]) = canonical_ip(a)}
  <2>1. /\ pc[c] = "permitted" /\ active' = active
        /\ pc' = [pc EXCEPT ![c] = IF c \in Dials THEN "reserved" ELSE "setup"]
        BY <1>2, Zenon DEF check_and_reserve, Goto
  <2>2. /\ active[a] = NoConn /\ a \notin connecting
        /\ ip_counts[canonical_ip(a)] < max_connections_per_ip
        /\ Cardinality(ActiveAddrs) + Cardinality(connecting) < max_connections
        BY <1>2, Zenon DEF Admissible, IsActive
  <2>3. /\ c \notin Charged
        /\ Charged' = Charged \cup {c}
        /\ Registered' = Registered
        BY <1>0, <2>1, <2>2, Zenon DEF Charged, Registered, Uncompleted
  <2>4. \A d \in Charged : AddrOf[d] # AddrOf[c]
        BY <2>2, Zenon DEF Charged, IInv, GuardsMatchConnecting, GuardHolders, Guarded
  <2>5. Cardinality(Charged) < max_connections
    <3>1. /\ Cardinality(Charged) <= Cardinality(ActiveAddrs) + Cardinality(connecting)
          /\ Cardinality(ActiveAddrs) \in Nat /\ Cardinality(connecting) \in Nat
          /\ Cardinality(Charged) \in Nat
          BY ChargedBounded, CountSubset, Zenon DEF IInv, Charged
    <3> QED
          BY <2>2, <3>1, LimitAssumption
  <2>6. Cardinality(S) < max_connections_per_ip
        BY <2>2, CanonicalType, Zenon DEF IInv, AccountingExact
  <2>7. {d \in Charged : HostOf[d] = HostOf[c]} = S
        BY Zenon DEF HostOf, canonical_ip, Charged
  <2> QED
        BY <2>3, <2>4, <2>5, <2>6, <2>7, SameCardinality, Zenon DEF R!Admit
<1> QED
      BY <1>1, <1>2, Zenon

\* Every step of the admission core is one step of the registry, or none.
LEMMA RegistryStep ==
    ASSUME IInv, [Next]_vars
    PROVE  [R!Next]_<<Charged, Registered>>
<1> USE DEF limitVars, closeVars, Goto
<1>0. /\ pc \in [Conn -> Stage] /\ active \in [Addr -> Conn \cup {NoConn}]
      /\ finalizers \in [Conn -> Nat] /\ RegistryConsistent /\ ClaimsConsistent
      BY Zenon DEF IInv, TypeOK
<1>1. ASSUME NEW c \in Conn, Connect(c) \/ CancelConnect(c) \/ Accept(c)
      PROVE  UNCHANGED <<Charged, Registered>>
      BY <1>0, <1>1, RegistryFrame, Zenon DEF Connect, CancelConnect, Accept, Uncompleted
<1>2. ASSUME NEW c \in Conn, Setup(c)
      PROVE  [R!Next]_<<Charged, Registered>>
  <2>1. CASE ConnectPrecheck(c) \/ TryAcquire(c) \/ AcquireOwned(c) \/ AcquireOrphaned(c)
        BY <1>0, <2>1, RegistryFrame, Zenon
        DEF ConnectPrecheck, TryAcquire, AcquireOwned, AcquireOrphaned, Uncompleted
  <2>2. CASE SpawnRequest(c) \/ HandleRequest(c) \/ create_stream(c) \/ enable_protocols(c)
        BY <1>0, <2>2, RegistryFrame, Zenon
        DEF SpawnRequest, HandleRequest, create_stream, enable_protocols, Uncompleted
  <2>3. CASE check_and_reserve(c)
        BY <2>3, ReserveAdmits, Zenon DEF R!Next
  <2>4. CASE Add(c)
    <3>1. CASE shutdown
          BY <1>0, <2>4, <3>1, RegistryFrame, Zenon DEF Add, Uncompleted
    <3>2. CASE ~shutdown
      <4>1. active[AddrOf[c]] = NoConn
            BY <1>0, <2>4, Zenon DEF Add, RegistryConsistent, IsActive, Uncompleted
      <4>2. /\ c \in Charged \ Registered
            /\ Charged' = Charged /\ Registered' = Registered \cup {c}
            BY <1>0, <2>4, <3>2, <4>1 DEF Add, Charged, Registered, Uncompleted
      <4> QED
            BY <4>2, Zenon DEF R!Next, R!Register
    <3> QED
          BY <3>1, <3>2, Zenon
  <2>5. CASE DropGuard(c)
    <3>1. CASE pc[c] = "added"
          BY <1>0, <2>5, <3>1, RegistryFrame, Zenon DEF DropGuard, Uncompleted
    <3>2. CASE pc[c] = "rollback"
      <4>1. active[AddrOf[c]] = NoConn
            BY <1>0, <3>2, Zenon DEF RegistryConsistent, IsActive, Uncompleted
      <4>2. /\ c \in Charged /\ c \notin Registered
            /\ Charged' = Charged \ {c} /\ Registered' = Registered
            BY <1>0, <2>5, <3>2, <4>1, Zenon DEF DropGuard, Charged, Registered, Uncompleted
      <4> QED
            BY <4>2, Zenon DEF R!Next, R!Leave
    <3> QED
          BY <2>5, <3>1, <3>2, Zenon DEF DropGuard
  <2>6. CASE DropPermit(c)
        BY <1>0, <2>6, RegistryFrame, Zenon DEF DropPermit, GivePermit, Uncompleted
  <2> QED
        BY <1>2, <2>1, <2>2, <2>3, <2>4, <2>5, <2>6, Zenon DEF Setup
<1>3. ASSUME NEW c \in Conn, Finalize(c)
      PROVE  R!Leave(c)
  <2>1. active[AddrOf[c]] = c /\ pc[c] \notin Uncompleted
        BY <1>0, <1>3 DEF Finalize, ClaimsConsistent, RegistryConsistent, IsActive,
                          Established, Uncompleted
  <2>2. /\ c \in Charged
        /\ Charged' = Charged \ {c} /\ Registered' = Registered \ {c}
        BY <1>0, <1>3, <2>1 DEF Finalize, Charged, Registered
  <2> QED
        BY <2>2, Zenon DEF R!Leave
<1>4. ASSUME NEW c \in Conn, Recover(c) \/ DisconnectOnDrop(c)
      PROVE  UNCHANGED <<Charged, Registered>>
      BY <1>4, RegistryFrame, Zenon DEF Recover, DisconnectOnDrop
<1>5. ASSUME NEW a \in Addr, Disconnect(a)
      PROVE  UNCHANGED <<Charged, Registered>>
      BY <1>5, RegistryFrame, Zenon DEF Disconnect
<1>6. CASE StartListener \/ ClearListeningAddr \/ BeginShutdown \/ UNCHANGED vars
      BY <1>6, RegistryFrame, Zenon DEF StartListener, ClearListeningAddr, BeginShutdown, vars
<1>7. CASE StopListener
      BY <1>0, <1>7, RegistryFrame, Zenon DEF StopListener, Uncompleted
<1> QED
      BY <1>1, <1>2, <1>3, <1>4, <1>5, <1>6, <1>7, Zenon DEF Next, Teardown, Conn, R!Next

\* The admission core implements the abstract registry, for every configuration and any
\* number of connections.
THEOREM RegistryRefinement == Spec => ImplementsRegistry
<1>1. Init => R!Init
      BY DEF Init, R!Init, Charged, Registered, Uncompleted
<1>2. IInv /\ [Next]_vars => [R!Next]_<<Charged, Registered>>
      BY RegistryStep, Zenon
<1> QED
      BY <1>1, <1>2, Invariance, PTL DEF Spec, ImplementsRegistry, R!Spec, R!registryVars

=============================================================================
