------------------------------- MODULE Topology -------------------------------
(* connect_nodes: one node after the other connects to the targets the         *)
(* topology prescribes, until all connections are made or one of them fails.   *)
(* An operator named <Def>_<fault> is Def with a plausible mistake in it.      *)
EXTENDS Integers, Sequences, FiniteSets, SequencesExt

CONSTANTS
    Cases   \* the topologies, each with a number of nodes: [shape, count, width, height, degree]

VARIABLES
    topology,   \* the case of Cases; it never changes
    made,       \* the connections made so far, <<from, to>>
    todo,       \* the connections still to make, in order
    node,       \* Random: the node whose targets are being chosen
    outcome     \* running, ok, or an error: invalid or failed

topologyVars == <<topology, made, todo, node, outcome>>

Pairs(n) == (0..(n - 1)) \X (0..(n - 1))

-----------------------------------------------------------------------------

Doubled(edges) == 2 * edges
AtLeast0(x) == IF x < 0 THEN 0 ELSE x

num_expected_connections(t) ==
    IF t.count = 0 THEN 0
    ELSE CASE t.shape \in {"Line", "Star", "Tree"} -> Doubled(t.count - 1)
           [] t.shape = "Ring" -> Doubled(t.count)
           [] t.shape = "Mesh" -> (t.count - 1) * t.count
           [] t.shape = "Grid" ->
                Doubled(AtLeast0(t.width - 1) * t.height + t.width * AtLeast0(t.height - 1))
           [] t.shape = "Random" -> Doubled(t.count * t.degree)

\* The loops of connect_nodes: for each node in order, its targets in order.
ForEach(n, targets) == FlattenSeq([i \in 1..n |->
    [k \in DOMAIN targets[i - 1] |-> <<i - 1, targets[i - 1][k]>>]])

Line(n) == ForEach(n - 1, [i \in 0..(n - 2) |-> <<i + 1>>])

Ring(n) == Line(n) \o <<<<n - 1, 0>>>>

Mesh(n) == ForEach(n, [i \in 0..(n - 1) |-> [k \in 1..(n - 1 - i) |-> i + k]])

\* The hub does not connect to itself.
Star(n) == Tail(ForEach(n, [i \in 0..(n - 1) |-> <<0>>]))

\* Right, then down, except from the last column and the last row.
Grid(width, height) == ForEach(width * height, [i \in 0..(width * height - 1) |->
    (IF (i % width) + 1 < width THEN <<i + 1>> ELSE <<>>)
    \o (IF (i \div width) + 1 < height THEN <<i + width>> ELSE <<>>)])

Tree(n) == ForEach(n, [i \in 0..(n - 1) |->
    SelectSeq(<<2 * i + 1, 2 * i + 2>>, LAMBDA child : child < n)])

Plan(t) ==
    CASE t.shape = "Line" -> Line(t.count)
      [] t.shape = "Ring" -> Ring(t.count)
      [] t.shape = "Mesh" -> Mesh(t.count)
      [] t.shape = "Star" -> Star(t.count)
      [] t.shape = "Grid" -> Grid(t.width, t.height)
      [] t.shape = "Tree" -> Tree(t.count)

Invalid(t) ==
    \/ t.count < 2
    \/ t.shape = "Grid" /\ t.width * t.height # t.count
    \/ t.shape = "Random" /\ t.degree >= t.count

-----------------------------------------------------------------------------

Chosen(i) == {e[2] : e \in {e \in made : e[1] = i}}

Rejected ==
    /\ outcome = "running" /\ made = {} /\ Invalid(topology)
    /\ outcome' = "invalid"
    /\ UNCHANGED <<topology, made, todo, node>>

\* The target has no listener, or the connection fails: what was made so far stays.
Fails ==
    /\ outcome = "running" /\ ~Invalid(topology)
    /\ \/ todo # <<>>
       \/ topology.shape = "Random" /\ node < topology.count /\ Cardinality(Chosen(node)) < topology.degree
    /\ outcome' = "failed"
    /\ UNCHANGED <<topology, made, todo, node>>

ConnectNext ==
    /\ outcome = "running" /\ todo # <<>>
    /\ made' = made \cup {Head(todo)}
    /\ todo' = Tail(todo)
    /\ UNCHANGED <<topology, node, outcome>>

Eligible_self(i, target) == target \notin Chosen(i)

\* Neither the node itself nor a target it has already.
Eligible(i, target) == target # i /\ target \notin Chosen(i)

\* The mixer may come up with any target; one that is not eligible is tried again.
ConnectRandom(target) ==
    /\ outcome = "running" /\ topology.shape = "Random" /\ ~Invalid(topology)
    /\ node < topology.count /\ Cardinality(Chosen(node)) < topology.degree
    /\ Eligible(node, target)
    /\ made' = made \cup {<<node, target>>}
    /\ UNCHANGED <<topology, todo, node, outcome>>

NextNode ==
    /\ outcome = "running" /\ topology.shape = "Random" /\ ~Invalid(topology)
    /\ node < topology.count /\ Cardinality(Chosen(node)) = topology.degree
    /\ node' = node + 1
    /\ UNCHANGED <<topology, made, todo, outcome>>

Returns ==
    /\ outcome = "running" /\ ~Invalid(topology)
    /\ todo = <<>> /\ (topology.shape = "Random" => node = topology.count)
    /\ outcome' = "ok"
    /\ UNCHANGED <<topology, made, todo, node>>

TopologyInit ==
    /\ topology \in Cases
    /\ made = {}
    /\ todo = IF topology.shape = "Random" \/ Invalid(topology) THEN <<>> ELSE Plan(topology)
    /\ node = 0
    /\ outcome = "running"

TopologyNext ==
    \/ Rejected \/ Fails \/ ConnectNext \/ NextNode \/ Returns
    \/ \E target \in 0..(topology.count - 1) : ConnectRandom(target)

TopologyTypeOK ==
    /\ made \subseteq Pairs(topology.count)
    /\ node \in 0..topology.count
    /\ outcome \in {"running", "ok", "invalid", "failed"}

-----------------------------------------------------------------------------
(* Properties *)

Neighbors(i) == {j \in 0..(topology.count - 1) : <<i, j>> \in made \/ <<j, i>> \in made}

\* Two cells of a grid are neighbours if they differ by one in one coordinate.
Lattice == {<<i, j>> \in Pairs(topology.count) :
    \/ j = i + 1 /\ i \div topology.width = j \div topology.width
    \/ j = i + topology.width}

\* The connections have the shape the topology is named for: a lattice; a full mesh; a hub
\* with all others around it; and all but Random (which promises a degree only) leave no
\* node apart from the others.
ShapeAsNamed ==
    /\ topology.shape = "Grid" => made = Lattice
    /\ topology.shape = "Mesh" => \A i \in 0..(topology.count - 1) :
            Cardinality(Neighbors(i)) = topology.count - 1
    /\ topology.shape = "Star" => Cardinality(Neighbors(0)) = topology.count - 1
    /\ topology.shape = "Tree" => \A i \in 0..(topology.count - 1) : Cardinality(Neighbors(i)) <= 3
    /\ topology.shape \in {"Line", "Ring"} => \A i \in 0..(topology.count - 1) :
            Cardinality(Neighbors(i)) <= 2
    /\ topology.shape = "Random" => \A i \in 0..(topology.count - 1) :
            Cardinality(Chosen(i)) = topology.degree
    /\ topology.shape # "Random" =>
            \A s \in (SUBSET (0..(topology.count - 1))) \ {{}, 0..(topology.count - 1)} :
                \E e \in made : (e[1] \in s) # (e[2] \in s)

\* Each topology makes as many connections as num_expected_connections says, every one of
\* them counted at both of its ends (none is a node's connection to itself or one it has),
\* and they have the shape it is named for (connect_nodes).
ExpectedConnections ==
    outcome = "ok" =>
        /\ 2 * Cardinality(made) = num_expected_connections(topology)
        /\ \A e \in made : e[1] # e[2]
        /\ ShapeAsNamed

=============================================================================
