-------------------------------- MODULE Punch --------------------------------
(* The hole punching example: peers register with a rendezvous server, which   *)
(* pairs them; the two of a pair dial each other from their punch ports until  *)
(* the SYNs cross. Peers die, and signaling connections break, at any time.    *)
(* An operator named <Def>_<fault> is Def with a plausible mistake in it.      *)
EXTENDS Integers, FiniteSets

CONSTANTS
    Puncher,              \* the peer processes
    Nobody,
    HOLE_PUNCH_ATTEMPTS,
    MaxLosses             \* bound on dying peers and broken signaling connections

ASSUME PunchAssumption == Nobody \notin Puncher /\ HOLE_PUNCH_ATTEMPTS \in Nat

VARIABLES
    signaling,   \* per peer: off, waiting, punching, crossed, or closed
    served,      \* peers whose connection is up at the rendezvous
    registering, \* peers whose registration was not read by the rendezvous yet
    pending,     \* the peer that waits for a partner
    paired,      \* the pairs made so far
    told,        \* per peer, the partner named in a message it has not read yet
    partner,     \* per peer, the partner it was given
    attempt,     \* attempts of punch_to so far
    dialing,     \* peers in SYN_SENT
    p2p,         \* per peer, the peer it has a connection with
    greeting,    \* per peer, who has a greeting from it in flight
    greeted,     \* peers that got a greeting
    dead,        \* peers whose process is gone
    losses

serverVars == <<served, registering, pending, paired>>
peerVars == <<signaling, partner, attempt, dialing>>
p2pVars == <<p2p, greeting, greeted>>
punchVars == <<serverVars, peerVars, p2pVars, told, dead, losses>>

Put(f, p, v) == [f EXCEPT ![p] = v]
Alive(p) == p \notin dead

-----------------------------------------------------------------------------
(* The rendezvous *)

\* run_peer: connect, then send the registration.
RegisterPeer(p) ==
    /\ signaling[p] = "off" /\ Alive(p)
    /\ signaling' = Put(signaling, p, "waiting")
    /\ served' = served \cup {p}
    /\ registering' = registering \cup {p}
    /\ UNCHANGED <<pending, paired, told, partner, attempt, dialing, p2pVars, dead, losses>>

\* A notification reaches the peers whose connection is still there.
Notify(p, q) == told' = [r \in Puncher |->
    IF r = p /\ p \in served THEN q ELSE IF r = q /\ q \in served THEN p ELSE told[r]]

\* A registration is read: its peer waits, or is paired with the one that does.
Pair(p) ==
    /\ p \in registering /\ p \in served
    /\ registering' = registering \ {p}
    /\ IF pending = Nobody
       THEN pending' = p /\ UNCHANGED <<paired, told>>
       ELSE /\ Notify(pending, p)
            /\ paired' = paired \cup {{pending, p}}
            /\ pending' = Nobody
    /\ UNCHANGED <<served, peerVars, p2pVars, dead, losses>>

IdleElapsed_default(p) == p = pending

\* Whether the rendezvous drops a silent connection: IDLE_TIMEOUT_MS is 0.
IdleElapsed(p) == FALSE

\* The rendezvous finds a connection closed; a registration not read by then is lost.
Unserved(p) ==
    /\ p \in served /\ (signaling[p] = "closed" \/ IdleElapsed(p))
    /\ served' = served \ {p}
    /\ registering' = registering \ {p}
    /\ UNCHANGED <<pending, paired, told, peerVars, p2pVars, dead, losses>>

-----------------------------------------------------------------------------
(* A peer *)

\* The message of the rendezvous is read: punch_to begins.
Paired(p) ==
    /\ signaling[p] = "waiting" /\ told[p] # Nobody
    /\ signaling' = Put(signaling, p, "punching")
    /\ partner' = Put(partner, p, told[p])
    /\ told' = Put(told, p, Nobody)
    /\ UNCHANGED <<serverVars, attempt, dialing, p2pVars, dead, losses>>

Punching(p) == signaling[p] = "punching" /\ p \notin dialing

NextAttempt(p) == attempt' = Put(attempt, p, attempt[p] + 1)

\* Binding the punch port fails: the attempt counts.
BindFails(p) ==
    /\ Punching(p) /\ attempt[p] < HOLE_PUNCH_ATTEMPTS
    /\ NextAttempt(p)
    /\ UNCHANGED <<serverVars, signaling, partner, dialing, told, p2pVars, dead, losses>>

\* connect_using_socket sends a SYN from the punch port.
Dial(p) ==
    /\ Punching(p) /\ attempt[p] < HOLE_PUNCH_ATTEMPTS
    /\ NextAttempt(p)
    /\ dialing' = dialing \cup {p}
    /\ UNCHANGED <<serverVars, signaling, partner, told, p2pVars, dead, losses>>

\* The SYN meets a closed port and is answered by a RST, or the connection's setup fails.
Refused(p) ==
    /\ p \in dialing
    /\ dialing' = dialing \ {p}
    /\ UNCHANGED <<serverVars, signaling, partner, attempt, told, p2pVars, dead, losses>>

\* Two SYNs cross: the simultaneous open gives each an end of one connection, and to each
\* connect_using_socket returns Ok. Whatever becomes of the connection, neither dials again.
Cross(p, q) ==
    /\ {p, q} \subseteq dialing /\ partner[p] = q /\ partner[q] = p
    /\ dialing' = dialing \ {p, q}
    /\ p2p' = [p2p EXCEPT ![p] = q, ![q] = p]
    /\ signaling' = [signaling EXCEPT ![p] = "crossed", ![q] = "crossed"]
    /\ UNCHANGED <<serverVars, partner, attempt, told, greeting, greeted, dead, losses>>

Punched(p) ==
    \/ signaling[p] = "crossed"
    \/ Punching(p) /\ attempt[p] = HOLE_PUNCH_ATTEMPTS

\* punch_to greets the other peer (unless the connection is gone already) and returns, or has
\* used up its attempts; either way the rendezvous is then disconnected.
Disconnects_p2p(p) ==
    /\ Punched(p)
    /\ greeting' = Put(greeting, p, p2p[p])
    /\ signaling' = Put(signaling, p, "closed")
    /\ p2p' = Put(p2p, p, Nobody)
    /\ UNCHANGED <<serverVars, partner, attempt, dialing, told, greeted, dead, losses>>

Disconnects(p) ==
    /\ Punched(p)
    /\ greeting' = Put(greeting, p, p2p[p])
    /\ signaling' = Put(signaling, p, "closed")
    /\ UNCHANGED <<serverVars, partner, attempt, dialing, told, p2p, greeted, dead, losses>>

\* A message that is not from the rendezvous.
Greeted(p) == \E q \in Puncher :
    /\ greeting[q] = p /\ p2p[p] = q
    /\ greeting' = Put(greeting, q, Nobody)
    /\ greeted' = greeted \cup {p}
    /\ UNCHANGED <<serverVars, peerVars, told, p2p, dead, losses>>

\* The other end of the connection is gone: the reading task meets the end of the stream.
P2PLost(p) ==
    /\ p2p[p] # Nobody /\ Alive(p) /\ p2p[p2p[p]] # p
    /\ p2p' = Put(p2p, p, Nobody)
    /\ UNCHANGED <<serverVars, peerVars, told, greeting, greeted, dead, losses>>

-----------------------------------------------------------------------------

\* The signaling connection breaks, and takes the task that punches with it.
SignalingLost(p) ==
    /\ losses < MaxLosses /\ signaling[p] \in {"waiting", "punching", "crossed"} /\ Alive(p)
    /\ losses' = losses + 1
    /\ signaling' = Put(signaling, p, "closed")
    /\ dialing' = dialing \ {p}
    /\ told' = Put(told, p, Nobody)
    /\ UNCHANGED <<serverVars, partner, attempt, p2pVars, dead>>

Dies(p) ==
    /\ losses < MaxLosses /\ Alive(p)
    /\ losses' = losses + 1
    /\ dead' = dead \cup {p}
    /\ signaling' = Put(signaling, p, "closed")
    /\ dialing' = dialing \ {p}
    /\ told' = Put(told, p, Nobody)
    /\ p2p' = Put(p2p, p, Nobody)
    /\ greeting' = Put(greeting, p, Nobody)
    /\ UNCHANGED <<serverVars, partner, attempt, greeted>>

PunchInit ==
    /\ signaling = [p \in Puncher |-> "off"]
    /\ served = {} /\ registering = {} /\ pending = Nobody /\ paired = {}
    /\ told = [p \in Puncher |-> Nobody]
    /\ partner = [p \in Puncher |-> Nobody]
    /\ attempt = [p \in Puncher |-> 0]
    /\ dialing = {}
    /\ p2p = [p \in Puncher |-> Nobody]
    /\ greeting = [p \in Puncher |-> Nobody]
    /\ greeted = {} /\ dead = {} /\ losses = 0

PeerStep(p) ==
    \/ Paired(p) \/ BindFails(p) \/ Dial(p) \/ Refused(p) \/ Disconnects(p)
    \/ \E q \in Puncher : Cross(p, q)

PunchNext == \E p \in Puncher :
    \/ RegisterPeer(p) \/ Pair(p) \/ Unserved(p)
    \/ PeerStep(p) \/ Greeted(p) \/ P2PLost(p)
    \/ SignalingLost(p) \/ Dies(p)

PunchSpec == PunchInit /\ [][PunchNext]_punchVars

PunchTypeOK ==
    /\ \A p \in Puncher : signaling[p] \in {"off", "waiting", "punching", "crossed", "closed"}
    /\ registering \subseteq served /\ served \subseteq Puncher
    /\ {pending} \subseteq Puncher \cup {Nobody}
    /\ \A p \in Puncher : {told[p], partner[p], p2p[p], greeting[p]} \subseteq Puncher \cup {Nobody}
    /\ \A p \in Puncher : attempt[p] \in 0..HOLE_PUNCH_ATTEMPTS
    /\ dialing \subseteq {p \in Puncher : signaling[p] = "punching"}

-----------------------------------------------------------------------------
(* Properties *)

\* The rendezvous makes a matching of its registrations, whatever the order they come in and
\* whoever is gone when paired: no peer is in two pairs, and two peers that hold a
\* connection were given to each other (pair, punch_to). A peer that waits for its partner,
\* however long, keeps its connection: only a death or a broken connection leaves "a stale
\* registration that gets paired with a dead peer" (IDLE_TIMEOUT_MS).
PairingSound ==
    /\ \A s, t \in paired : s = t \/ s \cap t = {}
    /\ \A p \in Puncher : p2p[p] # Nobody => {p, p2p[p]} \in paired /\ partner[p] = p2p[p]
    /\ (losses = 0 /\ pending # Nobody) => pending \in served /\ signaling[pending] = "waiting"

\* A time comes when nobody punches any more, crossing or not. "Traffic is purely P2P from
\* here on": the connection outlives the signaling one. When nobody dies, in the end whoever
\* has a connection has the other's greeting, and of a pair both or neither got one.
BothGreeted == <>[](
    /\ \A p \in Puncher : signaling[p] \notin {"punching", "crossed"}
    /\ losses = 0 => /\ \A p \in Puncher : p2p[p] # Nobody => p \in greeted
                     /\ \A s \in paired : s \subseteq greeted \/ s \cap greeted = {})

-----------------------------------------------------------------------------
(* The invariant behind PairingSound: a peer registers once, so it is in one   *)
(* place at the rendezvous, and it is told of a partner only by a pairing.     *)

PunchTypes ==
    /\ signaling \in [Puncher -> {"off", "waiting", "punching", "crossed", "closed"}]
    /\ served \subseteq Puncher /\ registering \subseteq served
    /\ pending \in Puncher \cup {Nobody}
    /\ {told, partner, p2p, greeting} \subseteq [Puncher -> Puncher \cup {Nobody}]
    /\ attempt \in [Puncher -> 0..HOLE_PUNCH_ATTEMPTS]
    /\ dialing \subseteq {p \in Puncher : signaling[p] = "punching"}
    /\ losses \in Nat

Unpaired(p) == \A s \in paired : p \notin s

\* Before it registers, while its registration travels, and while it waits, a peer is in no
\* pair; it is in one of these places at a time.
OnePlace ==
    /\ \A p \in Puncher : signaling[p] = "off" => p \notin registering /\ p # pending /\ Unpaired(p)
    /\ \A p \in registering : p # pending /\ Unpaired(p)
    /\ pending # Nobody => Unpaired(pending)
    /\ \A s, t \in paired : s = t \/ s \cap t = {}

\* Whom a peer is told of, dials and has a connection with, it was paired with.
GivenByPairing == \A p \in Puncher :
    /\ told[p] # Nobody => {p, told[p]} \in paired
    /\ partner[p] # Nobody => {p, partner[p]} \in paired
    /\ p2p[p] # Nobody => partner[p] = p2p[p] /\ signaling[p] \in {"crossed", "closed"}

\* Without a loss, whoever is known to the rendezvous and not paired is still there.
StillThere ==
    losses = 0 => \A p \in Puncher : (p \in registering \/ p = pending) =>
                    p \in served /\ signaling[p] = "waiting"

PunchInv == PunchTypes /\ OnePlace /\ GivenByPairing /\ StillThere

=============================================================================
