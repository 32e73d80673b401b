------------------------------- MODULE Router -------------------------------
(***************************************************************************)
(* receptor.router.MeshRouter: the edges a node knows of and the routing   *)
(* table computed from them.  Receptor.recalculate_routes replaces all     *)
(* edges at once; update_routing_table then searches for shortest paths    *)
(* from this node (Self) and follows the predecessors back from every      *)
(* destination to find the first hop.                                      *)
(*                                                                         *)
(* _nodes and _neighbors are always rebuilt with _edges, and are operators *)
(* of it.  The order of ties in PriorityQueue depends on the iteration of  *)
(* Python sets: any item of lowest priority may be popped.                 *)
(*                                                                         *)
(* AnyUnsettled, FirstSeen, WalkPastSelf, WalkInPlace, HopIsDestination    *)
(* and RaiseQuietly are mistakes: mutants of the definitions after them.   *)
(***************************************************************************)
EXTENDS Naturals, FiniteSets

CONSTANTS
  Nodes, Self,
  Costs,        \* of edges: 1 for a connection, 100 for a known peer
  Infinity,     \* sys.maxsize
  None,
  MaxUpdates,   \* bound on the calls of add_or_update_edges
  MaxChange     \* bound on the pairs in which its argument differs from _edges

ASSUME NodesAssumption == Self \in Nodes /\ None \notin Nodes
ASSUME FiniteAssumption == IsFiniteSet(Nodes)
ASSUME CostsAssumption == Costs \subseteq Nat \ {0}
ASSUME InfinityAssumption == Infinity \in Nat \ {0}
ASSUME BoundsAssumption == MaxUpdates \in Nat /\ MaxChange \in Nat

VARIABLES
  edges,        \* self._edges: a cost for some of the pairs
  phase,        \* of add_or_update_edges: "idle", "searching", "extracting"
  cost, prev,   \* of the search
  unsettled,    \* the items of the priority queue Q, cost being their priority
  hops,         \* new_routing_table
  walk,         \* the destination and the node p whose prev is looked at
  table,        \* self.routing_table
  raised,       \* the last update_routing_table ended with an exception
  updates       \* calls of add_or_update_edges so far

search == <<cost, prev, unsettled>>
vars == <<edges, phase, search, hops, walk, table, raised, updates>>

Pairs == {{a, b} : a, b \in Nodes} \ {{a} : a \in Nodes}
Graphs == UNION {[P -> Costs] : P \in SUBSET Pairs}

Others(g) == (UNION (DOMAIN g)) \ {Self}
Neighbors(g, n) == {m \in Nodes : {n, m} \in DOMAIN g}
EdgeCost(g, n, m) == g[{n, m}]

Changed(g, h) ==
  {p \in DOMAIN g \union DOMAIN h :
     ~(p \in DOMAIN g \intersect DOMAIN h /\ g[p] = h[p])}

Init ==
  /\ edges = <<>> /\ table = <<>>
  /\ phase = "idle" /\ raised = FALSE
  /\ cost = <<>> /\ prev = <<>> /\ unsettled = {}
  /\ hops = <<>> /\ walk = <<>>
  /\ updates = 0

(* add_or_update_edges(edges, replace_all=True), up to the search's loop.  *)
Update(g) ==
  /\ updates < MaxUpdates
  /\ updates > 0 => Cardinality(Changed(edges, g)) <= MaxChange
  /\ updates' = updates + 1
  /\ edges' = g
  /\ phase' = "searching"
  /\ cost' = [n \in Others(g) \union {Self} |-> IF n = Self THEN 0 ELSE Infinity]
  /\ prev' = [n \in Others(g) |-> None]
  /\ unsettled' = Others(g) \union {Self}
  /\ UNCHANGED <<hops, walk, table, raised>>

AnyUnsettled(u) == u \in unsettled
Lowest(u) == u \in unsettled /\ \A n \in unsettled : cost[u] <= cost[n]

PathCost(u, v) == cost[u] + EdgeCost(edges, u, v)

FirstSeen(u) == {v \in Neighbors(edges, u) : cost[v] = Infinity}
Improved(u) == {v \in Neighbors(edges, u) : PathCost(u, v) < cost[v]}

(* One round of the search: the popped node's edges are relaxed.           *)
Settle(u) ==
  /\ phase = "searching"
  /\ Lowest(u)
  /\ cost' = [n \in DOMAIN cost |-> IF n \in Improved(u) THEN PathCost(u, n) ELSE cost[n]]
  /\ prev' = [n \in DOMAIN prev |-> IF n \in Improved(u) THEN u ELSE prev[n]]
  /\ unsettled' = (unsettled \ {u}) \union Improved(u)
  /\ UNCHANGED <<edges, phase, hops, walk, table, raised, updates>>

SearchEnds ==
  /\ phase = "searching"
  /\ unsettled = {}
  /\ phase' = "extracting"
  /\ UNCHANGED <<edges, search, hops, walk, table, raised, updates>>

StartWalk(d) ==
  /\ phase = "extracting"
  /\ walk = <<>>
  /\ d \in Others(edges) \ DOMAIN hops
  /\ walk' = <<d, d>>
  /\ UNCHANGED <<edges, phase, search, hops, table, raised, updates>>

WalkPastSelf ==
  /\ walk # <<>>
  /\ prev[walk[2]] \in Nodes
  /\ walk' = <<walk[1], prev[walk[2]]>>
  /\ UNCHANGED <<edges, phase, search, hops, table, raised, updates>>
WalkInPlace ==
  /\ walk # <<>>
  /\ prev[walk[2]] \in Nodes \ {Self}
  /\ walk' = <<walk[1], prev[walk[1]]>>
  /\ UNCHANGED <<edges, phase, search, hops, table, raised, updates>>
WalkBack ==
  /\ walk # <<>>
  /\ prev[walk[2]] \in Nodes \ {Self}
  /\ walk' = <<walk[1], prev[walk[2]]>>
  /\ UNCHANGED <<edges, phase, search, hops, table, raised, updates>>

HopIsDestination(d, p) == [hop |-> d, cost |-> cost[d]]
Entry(d, p) == [hop |-> p, cost |-> cost[d]]

FoundHop ==
  /\ walk # <<>>
  /\ prev[walk[2]] = Self
  /\ hops' = [d \in DOMAIN hops \union {walk[1]} |->
                IF d = walk[1] THEN Entry(d, walk[2]) ELSE hops[d]]
  /\ walk' = <<>>
  /\ UNCHANGED <<edges, phase, search, table, raised, updates>>

Return(failed) ==
  /\ phase' = "idle" /\ raised' = failed
  /\ cost' = <<>> /\ prev' = <<>> /\ unsettled' = {}
  /\ hops' = <<>> /\ walk' = <<>>
  /\ UNCHANGED <<edges, updates>>

RaiseQuietly ==
  /\ walk # <<>>
  /\ prev[walk[2]] = None
  /\ Return(FALSE)
  /\ UNCHANGED table
(* prev[p] is None: prev[None] raises KeyError, and routing_table is not   *)
(* assigned.                                                               *)
Raise ==
  /\ walk # <<>>
  /\ prev[walk[2]] = None
  /\ Return(TRUE)
  /\ UNCHANGED table

Install ==
  /\ phase = "extracting"
  /\ walk = <<>>
  /\ DOMAIN hops = Others(edges)
  /\ table' = hops
  /\ Return(FALSE)

Next ==
  \/ phase = "idle" /\ \E g \in Graphs : Update(g)
  \/ \E n \in Nodes : Settle(n) \/ StartWalk(n)
  \/ SearchEnds \/ WalkBack \/ FoundHop \/ Raise \/ Install

(* add_or_update_edges does not suspend: once called it runs to its end.   *)
Fairness == WF_vars(Next /\ phase # "idle")

Spec == Init /\ [][Next]_vars /\ Fairness

-----------------------------------------------------------------------------

(* The router's state is well typed.                                       *)
Domain == Others(edges) \union {Self}
TypeOK ==
  /\ DOMAIN edges \subseteq Pairs /\ edges \in [DOMAIN edges -> Costs]
  /\ phase \in {"idle", "searching", "extracting"}
  /\ raised \in BOOLEAN /\ updates \in Nat
  /\ phase # "idle" =>
       /\ cost \in [Domain -> Nat]
       /\ prev \in [Others(edges) -> Nodes \union {None}]
       /\ unsettled \subseteq Domain
       /\ walk # <<>> => walk \in Others(edges) \X Others(edges)

(* Bellman's equations: what the search computed is, node by node, the     *)
(* least of what its neighbours' costs and edges allow, attained through   *)
(* prev.  This makes cost the length of the shortest paths.                *)
Settled == Domain \ unsettled
Attained(n) ==
  IF prev[n] = None THEN cost[n] = Infinity
  ELSE /\ prev[n] \in Settled /\ n \in Neighbors(edges, prev[n])
       /\ cost[n] = PathCost(prev[n], n)
       /\ cost[n] < Infinity
SearchIsExact ==
  phase = "extracting" =>
    /\ cost[Self] = 0
    /\ \A n \in Domain : \A m \in Neighbors(edges, n) : cost[m] <= PathCost(n, m)
    /\ \A n \in Others(edges) : Attained(n)

(* A node taken from the queue is not put back, and its cost is final:     *)
(* the loop of the search runs once for every node.                        *)
SettledIsFinal ==
  [][phase = "searching" /\ phase' # "idle" =>
       /\ unsettled' \subseteq unsettled
       /\ \A n \in Settled : cost'[n] = cost[n]]_vars

(* Reference: the length of the shortest path of at most k edges.          *)
LeastOf(S) == CHOOSE x \in S : \A y \in S : x <= y
Nearer(g, shorter) ==
  [n \in Nodes |->
     LeastOf({shorter[n]}
       \union {shorter[m] + EdgeCost(g, m, n) : m \in Neighbors(g, n)})]
Within(g, from) ==
  LET within[k \in 0 .. Cardinality(Nodes)] ==
        IF k = 0 THEN [n \in Nodes |-> IF n = from THEN 0 ELSE Infinity]
                 ELSE Nearer(g, within[k - 1])
  IN  within
Distances(g, from) == Within(g, from)[Cardinality(Nodes)]
CutOff(g) == {n \in Others(g) : Distances(g, Self)[n] >= Infinity}

(* After an update that returns, every node of the graph has an entry, its *)
(* cost is the distance, and its hop is a neighbour on a shortest path:    *)
(* closer to the destination, so that messages forwarded by nodes that     *)
(* know the same graph come nearer with every hop and never go in circles. *)
TableIsShortest ==
  phase = "idle" /\ ~raised =>
    LET distance == Distances(edges, Self) IN
    /\ DOMAIN table = Others(edges)
    /\ \A d \in DOMAIN table :
         LET hop == table[d].hop IN
         /\ hop \in Neighbors(edges, Self)
         /\ table[d].cost = distance[d]
         /\ EdgeCost(edges, Self, hop) + Distances(edges, hop)[d] = table[d].cost

(* An update raises exactly when the edges name a node that cannot be      *)
(* reached from here; the table then is still that of earlier edges.       *)
RaisesWhenCutOff == phase = "idle" => (raised <=> CutOff(edges) # {})

(* Every update comes to an end: following prev back never runs in a       *)
(* circle, whatever the ties and whatever part of the graph is cut off.    *)
UpdateEnds == phase # "idle" ~> phase = "idle"
=============================================================================
