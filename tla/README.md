# pea2pea in TLA+

A specification of [pea2pea](../src/README.md), an asynchronous P2P networking library:
what happens to a node's tasks, connections and messages from the first admission check to
the last cleanup, under every order in which the tasks of a node can run. The modules follow
the Rust code of `src/pea2pea/src/`, and four of the larger programs of `src/examples/`. TLC
checks them on small instances; TLAPS proves the safety of the library and of the four
examples, for every configuration.

- [The system](#the-system): its parts, their state and how they interact
- [The modules](#the-modules): how state and actions correspond to the code
- [What is checked](#what-is-checked): runs, bounds, fairness
- [What is proved](#what-is-proved): theorems, assumptions, the inductive invariants
- [Where code and documentation part](#where-code-and-documentation-part)
- [What is not modelled](#what-is-not-modelled)

## The system

A `Node` is a set of tokio tasks around shared state. There is no global lock: state is
split between locks that are held for short sections and never across an `.await`.

| Part | State | Operations |
|---|---|---|
| Admission (`node.rs`: `connect_inner`, `start_listening`, `check_and_reserve`) | `connecting_permits` (semaphore), `limits.connecting`, `limits.ip_counts` | dial, accept, take a permit, reserve, drop of `ConnectionGuard`, cancellation |
| Registry (`connections.rs`) | `active`: address → `Connection` (with `id`, `disconnecting`, `tasks`) | `add`, `remove`, `is_connected`, `addrs`, `Connection::drop` |
| Disconnect (`node.rs`, `protocols/mod.rs`) | the claim (`disconnecting`), `DisconnectFinalizer`, `DisconnectOnDrop` | `disconnect`, `claim_disconnect`, recovery by a task's guard, finalization |
| Writing (`protocols/writing.rs`) | `senders`: address → (id, channel); one writer task per connection | setup, `adopt_writer`, `unicast`/`broadcast`, `write_batch`, `SenderCleanup` |
| Reading (`protocols/reading.rs`) | inbound queue, reader and processing task per connection, `CountingCodec` | setup, decode, queue, process, idle timeout |
| Handshake (`protocols/handshake.rs`) | handler task | `perform_handshake` under a timeout |
| OnConnect, OnDisconnect (`protocols/on_*.rs`) | handler task and channel; hook tasks | trigger, spawn the hook, hand its handle back, abort, panic, timeout |
| Handler plumbing (`protocols/mod.rs`) | channels, `oneshot` returns, the handler signal | `install_protocol_handler`, `run_setup_handler_loop`, `run_hook_handler_loop`, `await_handler_response` |
| Shutdown (`node.rs`: `ShutdownState`, `shut_down`) | `flag`, `handler_signal`, `sched_in_flight`, two `Notify`s, the task list | begin, fan-out of disconnects, two drains, signal, join with a deadline |
| Listener (`node.rs`) | `listening_addr`, the listening task | `toggle_listener`, `start_listening`, `register_task`, `UnregisteredTask` |
| Topology, Stats, Heuristics, Config | counters; pure functions | `connect_nodes`, `num_expected_connections`, `register_*` |
| Examples (`examples/`) | routing tables, pairings, noise states, yamux streams | protocols that users build on the library |

How they interact:

- A **setup** (dial or accept) takes a permit, reserves its address and an IP slot, runs the
  enabled protocols (each a round trip to a handler task that returns the connection), and
  then registers the connection. Its guard and its permit are dropped afterwards, at a time
  when the connection may already have been disconnected again.
- A **disconnect** is claimed by whoever flips `disconnecting`; the claim creates the
  finalizer, which removes sender, entry and IP slot even if the disconnect is cancelled.
  Tasks of a connection claim through a guard that names the instance, since its address may
  have been reused when the guard acts.
- **Hooks** run in tasks of their own. Their handles travel back to the node, which attaches
  them to the connection they belong to.
- **Shutdown** races all of it: the flag refuses new registrations under the lock that the
  snapshot takes; the handlers are sent home only after every disconnect and every OnConnect
  scheduling that was under way has reached them.

What makes it hard: addresses are keys, but setups, writers, guards and finalizers belong to
connection *instances*, and several instances use one address in turn; every future can be
dropped at any `.await`; wake-ups (`Notify`) can be lost if registration and check are in the
wrong order; shutdown has to wait for counters that other tasks still change. The individual
hazards, with the line where each one bites and the property that would notice it, are listed
in `PROJECT.json`.

## The modules

| Module | Models | Source |
|---|---|---|
| `Connections` | admission, registry, limits, permits, claim, finalizer, recovery | `node.rs`, `connections.rs`, `protocols/mod.rs` |
| `Registry` | what the admission core promises, implemented by `Connections` | |
| `Senders` | the senders map, Writing's setup task, the writer task, the three owners that take a writer down | `protocols/writing.rs`, `node.rs` |
| `Messages` | a message's way from `unicast` to `process_message`: queues, batches, buffers, socket, decoder, results, statistics | `protocols/writing.rs`, `protocols/reading.rs`, `stats.rs` |
| `Channel`, `Delivery` | what Writing and Reading promise together; how `Messages` implements it | |
| `Setup` | the node's tasks (handlers, listener) from spawn to end, setups in the handlers' channels, Handshake, the task side of `shut_down` | `protocols/mod.rs`, `protocols/handshake.rs`, `node.rs` |
| `Lifecycle` | `adapt_stream` from the registration on, OnConnect scheduling, hook handlers and hooks, `disconnect_w_origin`, the connection side of `shut_down` | `node.rs`, `protocols/mod.rs`, `on_connect.rs`, `on_disconnect.rs` |
| `Locks` | the sections that take locks, and the order they take them in | `connections.rs`, `node.rs`, `protocols/writing.rs` |
| `Topology` | `connect_nodes` against `num_expected_connections` | `topology.rs` |
| `Dht` | the Kademlia example | `examples/kademlia_dht.rs` |
| `Punch` | the hole punching example | `examples/hole_punching.rs` |
| `SecureLink` | the noise handshake and the libp2p negotiation, and the codecs after it | `examples/noise_handshake.rs`, `libp2p.rs`, `src/noise.rs` |
| `Yamux` | the streams of the libp2p example | `examples/libp2p.rs`, `src/yamux.rs` |
| `*Proofs` | the theorems about the module of that name; `MessagesProofs` is about `Delivery` too, `PartsProofs` about `Locks`, `Punch` and `Senders`, `SecureProofs` about `SecureLink`, `SessionProofs` about `Yamux` | |
| `MC*` | small instances for TLC; `MCParts` puts the parts that share nothing side by side | |

Each action is one section of code that nothing else can interleave with: the body of a lock
section, or the code between two awaits. Where a lock is held over a section with a visible
middle (`Connections::add` reads the shutdown flag and inserts under one write lock), the
lock is a variable (`Lifecycle!lock`). An operator `D_fault` in front of a definition `D` is
a faulty variant of it, the kind of mistake a property has to notice; `Next` never uses it.

**Connections.** `pc[c]` is where the code on behalf of instance `c` is, from `idle` over
`permitted`, `reserved`, `setup` and `ready` to `connected` or `failed`; `permits`,
`connecting`, `ip_counts`, `active`, `disconnecting` are the fields of the same names;
`finalizers[c]` counts the live `DisconnectFinalizer`s for `c`; `task[c]` is a reader, writer
or hook task with its `DisconnectOnDrop`; `listener` and `shutdown` are the two switches that
setups look at. `check_and_reserve`, `Add`, `DropGuard`, `claim_disconnect`, `Finalize`
are the functions of those names. The semaphore is external: `GivePermit` says what a
dropped permit does (it goes to the queued accept, if there is one). IPs are model values
with a `to_canonical` map, so that one host can appear under two notations.
`ImplementsRegistry` says that all of this is `Registry`, a set of admitted connections with
one at most per address and bounds per host and for the node, kept by looking at all of them
at once: `admitted` is what is charged to an IP, `registered` is what is in `active`.

**Senders.** `stage[c]` is the connection as `connect_inner` sees it, `setup[c]` the
`handle_new_connection` task, `writer[c]` the writer task down to its two drop guards in
their order. A message is only "something is queued": what matters is whose channel an
address leads to, and that a queued message can make the writer fail. `dropped` remembers
connects whose future was dropped.

**Messages.** One connection, seen from both ends. A byte is a pair of its message and its
place in it, so that a decoder's view of a split frame is a sequence of such pairs. On the
sender's side, `queue`, `batch`, `fed`, `bytes` and `buffer` are the channel and the locals of
the write loop and of `FramedWrite`; `fate[m]` is what the caller of `queue_message` knows.
On the receiver's side `src` and `acc` are the buffer and the count of `CountingCodec`,
`inbound` the processing queue. The codec may take as many calls as it likes for a frame.
`StatsExact` has four parts: what was received (`ReceivedExact`), what was consumed of the frame
in progress (`PartialCounted`), what was sent (`SentExact`), and what was dropped
(`DropsReported`). `ImplementsChannel`, in `Delivery`, maps what is between acceptance and
processing, a set of messages numbered in the order of submission, to the `transit` of
`Channel`: messages are processed in order, none twice, and lost only behind the place where
the connection broke, or by a full queue of a receiver without `BACKPRESSURE`. A message is
where its last byte is; the channel is cut when a task of either end leaves its loop.

**Setup.** `task[k]`, `enabling[k]`, `tasks`, `doomed` and `owned[s]` are a handler's or the
listener's task, the future that spawned it, the node's task list, the handles that were
aborted, and the guards that each `shut_down` call holds. A connection in
`enable_protocols` is `at[c]` place `next[c]` of the pipeline; its request is `job[c]`. A
send into a handler's channel has two steps, the permit and the push, because a receiver may
be closed or dropped between them; that is the case `await_handler_response` has its grace
period for.

**Lifecycle.** `pc[c]` is `adapt_stream` and then the scheduling task; `close[c]` is
`disconnect_w_origin`; `on_connect[c]` and `on_disconnect[c]` are the hook tasks; `queue` and
`handler` the two handler tasks with their channels; `sd` is `shut_down`, with
`wait_for_drain` in three steps (register, look, wait). `hard_abort` says whether, in this
behaviour, `shut_down` may be dropped and deadlines may pass. Both cut hooks short, as their
documentation says, so the pairing of hooks with connections is claimed where they do not.

**Locks.** A section is the sequence of its acquisitions and releases; a thread may enter any
of them. Readers queue behind a waiting writer, as in parking_lot and tokio. The sections'
effects are in the other modules, where each is one action: `NoCircularWait` is what makes
that sound as far as blocking is concerned.

**Topology and the examples.** `Topology` takes a shape and a number of nodes and makes the
connections one after the other, any of which may fail. `Dht`, `Punch`, `SecureLink` and
`Yamux` model the handlers of the example programs, the peers they talk to, and the faults
they handle: late answers, broken links, peers that die, reads that end anywhere, resets.
What the library does for them (delivery in order, hooks, disconnects) is taken from the
modules above; the cryptography and the TCP simultaneous open are external. In `Dht` each end
of a connection has its own `wire`, the messages it has not read, which TCP keeps in order;
`distance` is the exclusive or, as the sum of the bits in which two ids of `IdBits` bits differ.

## What is checked

| Run | Instance | Shows |
|---|---|---|
| `reuse` | dials d1 (a1), d2 (a2, same host in IPv4-mapped form), accept i1 (a1); per-IP 2, node 2, budget 2 | exact accounting; `Connections` implements `Registry`, with one instance per address; each teardown stays with its own connection, and a registered connection is never overwritten; a queued accept is served |
| `limits` | four dials to three hosts, one of them in two notations; per-IP 1, node 2, budget 3 (clamped to 2) | the per-IP and the node limit hold |
| `senders` | c1, c2 at one address | live connections are reachable; a running writer has an owner, and goes with its connection |
| `cancelled_connect` | same | violation: see below |
| `early_writer_end` | same | violation: see below |
| `messages` | three messages of different sizes, two of them confirmed; write queue 2, read queue 1, boundary 2 and socket 2 bytes; with and without `BACKPRESSURE` | Writing and Reading implement `Channel`; confirmed means flushed, statistics and drop reports are exact; deliveries resolve and backpressure does not starve |
| `setup` | one setup through Handshake and Reading; programs that enable some of the tasks, toggle the listener twice and shut down once or twice | tasks are owned, `ShuttingDown` is true, no protocol is passed over; setups resolve and tasks end |
| `hooks` | c1, c2 at one address, `ABORTABLE = true` | OnDisconnect runs for every connection, OnConnect is not skipped, hooks act only for their own instance |
| `shutdown` | c1, c2 with an address each, `ABORTABLE = false` | nothing left behind, no lost wake-up, detached hooks are never aborted |
| `shutdown_returns` | c1; with and without dropped `shut_down`s and deadlines | `shut_down` returns |
| `sched_count` | c1, c2 at one address | violation: see below |
| `parts` | three threads; every shape with up to 6 nodes (`Random` up to 4); DHTs of 3 nodes with a fault and of 4 without; 3 punching peers with a loss; messages of 5 sizes around the noise limit; 2 streams | no circular wait; as many connections as expected, in the shape named; the properties of the examples below |

The properties of the examples, in `parts`. DHT: an answer goes to the call that asked for it
although earlier ones may be late, and every way out of `rpc` reclaims its entry
(`RpcsMatched`); tables and shortlists name each node once and by an address others can dial
(`ContactsSound`); values are stored at the closest nodes and found again
(`StoresAtClosest`). Hole punching: `PairingSound`, and `BothGreeted` in the end. Secured
connections: `NeverGarbled`. Streams: `StreamsAgree`. Lookups, handshakes and pings all come
to their end (`PartsComplete`).

*Bounds.* An instance of the set `Conn` is used once, so the number of instances bounds the
number of connection attempts, and every behaviour ends: deadlock checking is off because a
node with no attempts left, or a program that has come to its end, rests. Two instances at one
address are what every hazard of address reuse needs (a predecessor with something left to
run, and a successor). In `limits` each limit decides about some attempt: two dials to one
host in different notations exceed the per-IP limit, and dials to three hosts, of which the
per-IP limit admits one each, exceed the node limit. With the setup budget at the node limit,
the third host comes to that check only when an earlier one has registered and returned its
permit. The dials to the second and the third host differ in nothing else, and `limits`
identifies states that differ in their exchange. It also leaves the listener off (`ListenerOff`):
nothing is accepted there, and a listener could only fail a dial to the node's own address,
which a cancellation at that point does too. The budget of `reuse` is small enough for both
dials to exhaust it while the accept queues. In `messages` each buffer is smaller than what wants to go through it, so
that every full, partial and boundary case occurs, and a batch can be of one message or of two.
In `setup` one connection meets its handlers in every stage of their lives; what more
connections could add, a full channel, delays a permit and nothing else. Two calls of
`shut_down` contend for the task list; the listener and a
handler each meet two calls, and one call when they run beside another task. In `shutdown_returns` one connection suffices for each stage in which
`shut_down` can meet a setup, a scheduling or a disconnect; lost wake-ups with two connections
are covered by the invariant `NoLostWakeup` of `shutdown`. In `Locks` no section holds more
than two locks, so a circle of two threads and a writer that queues between them are the cases
there are. In `Dht` the distances between the node ids all differ, and `K` is less than the
number of nodes, so that being closest means something. `hooks` and `shutdown`, which check invariants
only, identify states that differ in an exchange of connections together with their addresses:
no action and no property tells the connections apart.

*Fairness.* Weak fairness on the steps of tasks that can run: tokio polls a woken task
eventually, protocol setups are bounded by timeouts or fail, a write has its timeout, a
response its grace period, and an OnDisconnect hook its `TIMEOUT_MS`. `AcceptedIsProcessed`
also needs `process_message` to return, which is the user's. Nothing else is assumed of
users and peers: connecting, accepting, cancelling, disconnecting, panicking, enabling,
toggling, returning from OnConnect, calling `shut_down`; and none of the faults is. In `Yamux`
a writing task that has ended disconnects the peer, which its drop guard does.

## What is proved

Eight modules of proofs, for every value of the constants: any number of connections,
addresses, hosts, messages, tasks, threads, peers and calls, any limits, sizes and capacities.

| Module | Theorem | Statement |
|---|---|---|
| `ConnectionsProofs` | `TypeCorrect`, `Invariance` | types, so no count goes below zero; `IInv` |
| | `AccountingIsExact` | `ip_counts[ip]` is the number of setups and connections charged to `ip` |
| | `HostLimitRespected`, `NodeLimitRespected` | neither `max_connections_per_ip` nor `max_connections` is exceeded |
| | `AddressesExclusive` | no two setups or connections share an address |
| | `PendingCheckNeverRejects` | the pending check in `check_and_reserve` never rejects (its comment says "in practice") |
| | `TeardownsAreOwned`, `RecoveriesAreOwn` | a claim has its finalizer, which has its own connection to remove; a recovery hits its own instance |
| | `RemovalOwnership` | an entry is never overwritten, and removed only by its own finalizer |
| | `RegistryRefinement` | `Connections` implements `Registry` |
| `PartsProofs`, `Senders` | `SendersTypeCorrect`, `SendersInvariance` | types; `IInv` |
| | `LiveIsReachable` | a live connection has its sender in the map, unless a connect to its address was dropped |
| | `EntriesHaveWriters`, `WritersAreOwned` | entries have writers, and running writers have owners |
| `LifecycleProofs` | `LifecycleInvariance` | `IInv` |
| | `NothingIsLeft`, `SnapshotIsFinal` | `shut_down` leaves nothing, and nothing is inserted after its snapshot |
| | `NoWakeupIsLost` | it never sleeps on a condition that holds |
| | `DetachedHooksComplete` | with `ABORTABLE = false` no hook is aborted |
| | `HooksInvariance` | `HookInv`, on top of `IInv` |
| | `DisconnectHooksPaired` | OnDisconnect has run for every connection that is removed, unless its disconnect was cancelled |
| | `ConnectHooksSpawned` | the OnConnect of every scheduling that is over was spawned |
| | `AbortableHooksFollow` | an abortable hook goes with its own connection, and with no other |
| `SetupProofs` | `SetupInvariance` | `IInv` |
| | `TasksAreOwned` | no task runs without an owner |
| | `SlotsAreServed`, `SetupsAreComplete` | published handlers serve; a completed setup passed through all of them, and has the stream they need |
| | `ShuttingDownIsTruthful`, `NoRequestStranded` | `ShuttingDown` means shutdown; a handler that returns leaves no request |
| | `AddressMatchesListener` | the listening address and the registered listener agree |
| `MessagesProofs` | `MessagesInvariance` | `IInv`, of the sender |
| | `ConfirmedIsFlushed`, `PipeNeverBreaks` | a confirmed message is in the socket; the channel of a listed sender is open |
| | `WayInvariance`, `QueuesBounded` | `WayInv`, of both ends and the socket; types and the bounds of the queues |
| | `MessagesKeepOrder` | `process_message` gets a message at most once, in the order of submission |
| | `PartialFramesCounted`, `MessagesCountedWhole` | `acc` is what was consumed of the frame in progress; `Stats::received` grows by one decoded message and its exact size |
| | `DropsAccounted` | a dropped message is reported once, or still counted |
| | `DeliveryImplements` | `Messages` implements `Channel` |
| `PartsProofs`, `Locks` | `SectionsDisciplined`, `LocksInductive`, `LocksTypes` | every section keeps to the order of the locks; `LocksInv`; locks exclude |
| | `LocksNoCircularWait` | no threads wait for each other in a circle |
| `PartsProofs`, `Punch` | `PunchInductive`, `PunchTypesOK` | `PunchInv`; types |
| | `PunchPairingSound` | no peer is in two pairs; connections are between the two of a pair; a waiting peer keeps its rendezvous connection |
| `DhtProofs` | `DhtInductive` | `DhtInv` |
| | `DhtRpcsMatched` | an answer goes to the call that asked for it, and no `oneshot` outlives its call |
| | `DhtContactsSound` | tables and shortlists hold a node once, by an address others can dial |
| `SecureProofs` | `SecureInductive`, `SecureTyped` | `SecureInv`; types |
| | `SecureNeverGarbled` | what an end decrypts is what the other encrypted, with the nonce it has got to; messages arrive in order |
| `SessionProofs` | `YamuxInductive`, `YamuxTyped` | `YamuxInv`; types |
| | `YamuxStreamsAgree` | a reply finds the swarm expecting it; when nothing is in flight, both ends have the same streams |

*Assumptions*, stated by name where the constants are declared. `Connections`: finitely many
attempts, each with an address; positive limits (`Node::new` panics otherwise); an address has
one IP, and `to_canonical` is idempotent. `Senders` and `Lifecycle`: every instance has an
address; in `Lifecycle` there are finitely many. `Setup`: the listener is not a protocol, and
the handshake, if there is one, comes first in the pipeline. `Messages`: messages have a
size, and no depth, boundary or buffer is zero. `Punch`: `Nobody` is no peer, and the number of
attempts is a number. `Dht`: the seed is a node, and `main` is a sequence of lookups and stores.
`SecureLink`: sizes are numbers, and the tag is neither empty nor as long as the longest message.
`Yamux`: 0, the session's id, is no stream's, and the swarm never has more frames in flight
than the node's queue of replies can hold: a reply is refused when the writing task has ended,
and never because the queue is full.
`Locks` assumes nothing of its threads.

*Arguments.* None of the properties is inductive; each module has its invariant, which TLC
checked before it was proved, and the proof that every action preserves it, part by part. Several
theorems have no counterpart among the runs' properties, being covered by the proof alone:
the types, `AddressesExclusive`, `PendingCheckNeverRejects`, `EntriesHaveWriters`,
`SnapshotIsFinal`, `SlotsAreServed`, `NoRequestStranded`, `AddressMatchesListener`,
`PipeNeverBreaks`, `MessagesKeepOrder`, `MessagesCountedWhole`;
`PartialFramesCounted` and `DropsAccounted` are each a part of `StatsExact`.

- `Connections`: `BudgetConserved` (permits in the semaphore plus held ones are constant),
  `GuardsMatchConnecting` (`connecting` is the set of addresses with an uncompleted guard or
  one not dropped yet, one per address), `RegistryConsistent` (who is in `active` and in which
  stage), `ClaimsConsistent` (claims, finalizers and entries correspond), and `BucketLimit`.
  The accounting needs them all: a guard dropped after the connection was disconnected must not
  release again, and a finalizer must find the charge it is going to release. `ChargedBounded`
  connects the number of charged instances with the sizes of `active` and `connecting` that the
  code compares with the limit. The refinement rests on it: a reservation is `Admit` because the
  counters the code compares are the cardinalities that `Registry` looks at (`ReserveAdmits`);
  an insertion is `Register`; a guard that releases, or a finalizer, is `Leave`; the rest
  stutters.
- `Senders`: how far connect, setup task and writer of one instance can be apart
  (`StagesAgree`), that an address belongs to one instance from the reservation to the removal
  (`AddressOwned`), and what an entry implies about its writer and the other way round
  (`EntriesOwned`, `PublishedStays`). The finalizer's removal without an id check is safe because
  of `AddressOwned` and `ClaimsFinalized`: the address is its own until it has run.
- `Lifecycle`: `LockHeld` and `FlagCloses` say that nobody is between the flag check and the
  insertion once the snapshot is taken; `SchedExact` counts the guards; `DrainLasts` says that
  what was waited for stays so.
- The hooks: `AddressExclusive` and `CloseOwned` say whose the entry at an address is, and who
  disconnects it; `HandlersLast`, that a handler goes home only after every scheduling and every
  disconnect that may need it; `ConnectStages` and `DisconnectStages`, where the hook is at each
  stage of its scheduling and of its disconnect. `HooksAttached` then says that a spawned hook
  hangs on its own connection or is being aborted.
- `Setup`: `TasksKept` says that before a shutdown nothing touches a task that is enabled or
  being enabled; with `SlotsDone` and `RequestsServed` (a request is at a published protocol,
  and its state agrees with the handler's) a missing answer can only come from a shutdown.
  `ListenerAgrees` follows a toggle; `PipelineApplied` a connection through the pipeline.
- `Messages`: `EncodedOnItsWay` follows the last byte of an encoded message from the write
  buffer to the socket; `ClosedUnlisted` is the order of the writer's two cleanups. `WayInv`
  looks at `Stream`, the bytes in the reader's buffer, the socket and the writer's buffer as one
  sequence. `Framed`: it is messages one after the other, the first perhaps without its front.
  `StreamWhole`: as long as the writer lives it ends with a whole message, which is what makes
  the next one start a frame. With `PartialCounted` this gives the bytes a decoded message is
  counted with. `InOrder`: what is decoded is before what is in the stream, that before what is
  not encoded, that before the queue, and that before what was not submitted. `PassedOn` takes
  the order on to `process_message`.
  A step that encodes or decodes nothing leaves the stream as it is, or takes a part of it off
  at the reader's end or at the writer's (`StreamSteps`).
- `Delivery`: `InOrder` and `PassedOn` say that `Transit` is ordered like its places
  (`TransitOrder`), so that what is processed next is its minimum; `Framed` and `StreamWhole`,
  that a step moves the last byte of a message from one place to the next and neither makes nor
  loses one (`WholeStreamed`). With `BatchDone` no message is between two batches. Every step
  then is a `Send` (into the queue), a `Receive` (`process_message`), a `Skip` (a full inbound
  queue), a `Break` (a task leaves its loop, with what was behind it), or stutters.
- `Locks`: a lock has a rank, and what is left of every section drops each lock it has taken,
  taking only higher ones before (`LocksInv`). A thread that waits for the holder of a lock is
  behind one that wants a lock of a higher rank; a reader that waits for a queued writer is behind
  one that wants the same lock for writing. So there is a last one, which waits for none of them
  (`WaitsForHigher`).
- `Punch`: a peer is registering, pending or in a pair, and in one of them only (`OnePlace`);
  what it was told and whom it dials come from its pair (`GivenByPairing`); and who registers or
  waits is still connected, as long as nothing was lost (`StillThere`).
- `Dht`: a request in flight has a number its sender has used, and the number of the current
  call only if it is its request; an answer carries that of its request (`RpcsInv`). A contact
  is traced to the connection it was learnt from: an end that reads has its entry in `peer_info`
  or is closing because its stream broke (`ContactsInv`).
- `SecureLink`: `Pending`, what was sent to an end and not decrypted by it, is one sequence
  wherever its parts are (the socket, the buffer, the bytes a handshake read too many of and
  carried over). `InStep`: it is the rest of the handshake, and then the messages sent and not
  received, in order, each with the nonce after those of the one before. `StateHanded`: a codec
  starts with the nonces its handshake left, and with what it carried over. A step takes an item
  off the front of `Pending`, adds one at its end, or only moves it along.
- `Yamux`: the node answers in order, so replies and requests in flight are one sequence in which
  an answer takes the place of its question (`InFlight`). When the writing task has ended, a
  question is dropped without an answer and the last replies may be lost, so that only the
  replies still in flight are awaited (`Awaited`). A stream is opened and closed once
  (`OpenedOnce`), a FIN or RST is the last of its stream (`EndIsLast`), and so the node's streams
  follow the swarm's (`StreamsFollow`). Pings have no number of their own on a stream: a `g` that
  lists those in flight counts them against `unanswered` (`AnswersCounted`) and, for the
  session's, gives the order of the probes (`ProbesInOrder`). Each way the frames in flight can
  change (one added, answered, dropped, heard, or lost; or all that were not read lost with the
  link) has its lemma about such a list. Data without a payload, the answer to a window update,
  is not counted: it shows only that its stream speaks the ping protocol.

*Only model-checked.* Liveness, which is out of the prover's reach (`QueuedAcceptServed`,
`WriterGoesWithConnection`, `ShutdownReturns`, `DeliveryResolves`, `AcceptedIsProcessed`,
`SetupResolves`, `TasksEnd`, `BothGreeted`, `PartsComplete`). What is about folds, filters and
sorted choices of sequences and sets, whose values for every input would take an induction:
`ReceivedExact` and `SentExact` in `StatsExact` (the step of the former is
`MessagesCountedWhole`), `StoresAtClosest`, and `ExpectedConnections` with the types of
`Topology`, whose plans are flattened sequences. Of `PartsTypeOK`, the types of `Locks`, `Punch`,
`SecureLink` and `Yamux` are proved, each in its module, and those of `Dht` as far as its
theorems need them (`DhtTypes`).

## Where code and documentation part

1. `cancelled_connect`. `Node::connect` promises that a dropped attempt is "cleanly rolled
   back" (`node.rs:745`). The Writing setup of a dropped attempt continues in its own task;
   when its writer reports, `adopt_writer` (`writing.rs:442`) inserts its sender under
   the address, over the sender of a connection that has been made since. That connection
   loses its channel although it is live. `LiveConnectionReachable` (run `senders`) shows that
   this is the only way to lose it.
2. `early_writer_end`. "disconnect automatically regardless of how this task concludes"
   (`writing.rs:397`): the sender is published before the connection is registered, so a
   broadcast can make the writer fail while its guard has no entry to disconnect. The
   connection is then registered without a writer, and stays.
3. `sched_count`. "the count can only fall from here" (`node.rs:1094`): a setup in flight
   counts itself before `Connections::add` refuses it, so the count may rise. Harmless:
   `NoLostWakeup` and `OnConnectNotSkipped` hold all the same.

## What is not modelled

- `Heuristics`: monotonic counters nothing in the library reads. Logging, spans, socket
  options, name and address configuration, TCP itself: I/O without control state.
- A user's codec that fails to consume what it decodes, or a message type that differs between
  `enable_writing` and `unicast`: errors of use, which the documentation excludes.
- `setup` has one connection, so a channel is never full there; the theorems about `Setup`
  hold for any number of connections and any capacity.
- The composition of the modules: each takes what it needs of its neighbours as a step
  that may succeed or fail (the protocols of a setup are one step in `Connections` and in
  `Lifecycle`, and are the subject of `Setup`), because the product of their states is out of
  TLC's reach. The seams are the reservation, the registration and the claim of a disconnect,
  which all of them place at the same lock sections.
- A full hook channel: its capacity is `max_connections`. Two `shut_down` calls at once are
  in `Setup`, where they contend for tasks; `Lifecycle` has a call after a dropped one.
- A protocol that is enabled while connections already exist is covered in `Setup` only; the
  documentation tells users to enable protocols first.
- The responder's side of the libp2p negotiation, which the example never runs (it only
  dials), an end of the stream during a noise handshake (which `handshake_xx` takes for an empty
  message), yamux GoAway frames and the credit of a window update, which it ignores, and all
  cryptography. Window updates themselves are modelled: the example answers one on a ping
  stream as if it were data.
- The other examples, the benches, the tests and the test utilities: users of the library.
  `dining_philosophers`, `simple_rpc` and `hot_potato_game` have small protocols of their own
  between their nodes; the others show one API each.
