---------------------------- MODULE RouterProofs ----------------------------
(***************************************************************************)
(* Theorems about Router, for every graph and all positive costs: the      *)
(* search for shortest paths is well typed, settles every node for good,   *)
(* and ends with a solution of Bellman's equations; the entries of a new   *)
(* table send to neighbours along shortest paths, and a search raises      *)
(* exactly when it comes upon a node that no path reaches.                 *)
(*                                                                         *)
(* The argument is that of Dijkstra.  What is settled costs no more than   *)
(* what is not (SettledFirst), so that an edge from the cheapest unsettled *)
(* node can improve no settled one; the edges of the settled nodes are     *)
(* relaxed (SettledRelaxed); and every cost is Infinity or that of a path  *)
(* through a settled node (Attained).                                      *)
(***************************************************************************)
EXTENDS Router, TLAPS, WellOrdering, FiniteSetTheorems

SettledFirst == \A s \in Settled, u \in unsettled : cost[s] <= cost[u]
SettledRelaxed ==
  \A s \in Settled : \A m \in Neighbors(edges, s) : cost[m] <= PathCost(s, m)

Searching ==
  phase # "idle" =>
    /\ cost[Self] = 0
    /\ SettledFirst
    /\ SettledRelaxed
    /\ \A n \in Others(edges) : Attained(n)

Extracting ==
  /\ phase # "extracting" => walk = <<>> /\ hops = <<>>
  /\ phase = "extracting" =>
       /\ unsettled = {}
       /\ \A d \in DOMAIN hops : hops[d].hop \in Neighbors(edges, Self)

Inv == TypeOK /\ Searching /\ Extracting

-----------------------------------------------------------------------------

(* An edge joins two nodes of the search and has a positive cost.          *)
LEMMA EdgesAreInDomain ==
  ASSUME TypeOK, NEW u \in Domain, NEW v \in Neighbors(edges, u)
  PROVE  v \in Domain /\ EdgeCost(edges, u, v) \in Nat \ {0}
  <1>1. {u, v} \in DOMAIN edges
    BY DEF Neighbors
  <1>2. edges[{u, v}] \in Costs
    BY <1>1 DEF TypeOK
  <1>3. v \in UNION (DOMAIN edges)
    BY <1>1
  <1> QED
    BY <1>2, <1>3, CostsAssumption DEF Domain, Others, EdgeCost

(* Every node of a graph is a node.                                        *)
LEMMA OthersAreNodes ==
  ASSUME NEW g, DOMAIN g \subseteq Pairs
  PROVE  Others(g) \subseteq Nodes \ {Self}
  <1> SUFFICES ASSUME NEW n \in UNION (DOMAIN g) PROVE n \in Nodes
    BY DEF Others
  <1>1. PICK p \in DOMAIN g : n \in p
    OBVIOUS
  <1>2. p \in {{a, b} : a, b \in Nodes}
    BY <1>1 DEF Pairs
  <1> QED
    BY <1>1, <1>2

(* The cheapest unsettled node improves neither itself nor this node nor   *)
(* any settled one.                                                        *)
LEMMA ImprovedAreUnsettled ==
  ASSUME Inv, phase = "searching", NEW u \in Nodes, Lowest(u)
  PROVE  /\ Improved(u) \subseteq unsettled \ {u}
         /\ Self \notin Improved(u)
         /\ \A v \in Improved(u) : PathCost(u, v) \in Nat /\ PathCost(u, v) > cost[u]
  <1>1. u \in Domain /\ cost \in [Domain -> Nat] /\ unsettled \subseteq Domain
    BY DEF Inv, TypeOK, Lowest
  <1> SUFFICES ASSUME NEW v \in Improved(u)
               PROVE  /\ v \in unsettled \ {u} /\ v # Self
                      /\ PathCost(u, v) \in Nat /\ PathCost(u, v) > cost[u]
    OBVIOUS
  <1>2. v \in Neighbors(edges, u) /\ PathCost(u, v) < cost[v]
    BY DEF Improved
  <1>3. v \in Domain /\ EdgeCost(edges, u, v) \in Nat \ {0}
    BY <1>1, <1>2, EdgesAreInDomain DEF Inv
  <1>4. PathCost(u, v) \in Nat /\ PathCost(u, v) > cost[u]
    BY <1>1, <1>3 DEF PathCost
  <1>5. cost[u] < cost[v]
    BY <1>1, <1>2, <1>3, <1>4
  <1>6. v # u /\ v # Self
    BY <1>1, <1>3, <1>5 DEF Inv, Searching
  <1>7. v \in unsettled
    <2>1. SUFFICES ASSUME v \in Settled PROVE FALSE
      BY <1>3 DEF Settled
    <2>2. cost[v] <= cost[u]
      BY <2>1 DEF Inv, Searching, SettledFirst, Lowest
    <2> QED
      BY <1>1, <1>3, <1>5, <2>2
  <1> QED
    BY <1>4, <1>6, <1>7

(* The effect of a round of the search, in the terms of the invariant.     *)
LEMMA SettleEffect ==
  ASSUME Inv, NEW u \in Nodes, Settle(u)
  PROVE  /\ Domain' = Domain
         /\ Settled' = Settled \union {u}
         /\ unsettled' = unsettled \ {u}
         /\ cost' \in [Domain -> Nat]
         /\ \A n \in Domain : cost'[n] <= cost[n]
         /\ \A n \in Settled' : cost'[n] = cost[n]
         /\ \A n \in unsettled' : cost[u] <= cost'[n]
         /\ \A m \in Neighbors(edges, u) : cost'[m] <= PathCost(u, m)
  <1>1. /\ u \in Domain /\ u \in unsettled
        /\ cost \in [Domain -> Nat] /\ unsettled \subseteq Domain
        /\ phase = "searching" /\ UNCHANGED edges
        /\ \A n \in unsettled : cost[u] <= cost[n]
    BY DEF Inv, TypeOK, Settle, Lowest
  <1>2. /\ Improved(u) \subseteq unsettled \ {u}
        /\ \A v \in Improved(u) : PathCost(u, v) \in Nat /\ PathCost(u, v) > cost[u]
    BY <1>1, ImprovedAreUnsettled DEF Settle
  <1>3. Domain' = Domain
    BY <1>1 DEF Domain
  <1>4. unsettled' = unsettled \ {u}
    BY <1>2 DEF Settle
  <1>5. Settled' = Settled \union {u}
    BY <1>1, <1>3, <1>4 DEF Settled
  <1>6. \A n \in Domain :
          cost'[n] = IF n \in Improved(u) THEN PathCost(u, n) ELSE cost[n]
    BY <1>1 DEF Settle
  <1>7. cost' \in [Domain -> Nat]
    <2>1. cost' = [n \in Domain |-> IF n \in Improved(u) THEN PathCost(u, n) ELSE cost[n]]
      BY <1>1 DEF Settle
    <2> QED
      BY <1>1, <1>2, <2>1
  <1>8. \A n \in Domain : cost'[n] <= cost[n]
    <2> TAKE n \in Domain
    <2>1. cost[n] \in Nat
      BY <1>1
    <2>2. CASE n \in Improved(u)
      <3>1. PathCost(u, n) \in Nat /\ PathCost(u, n) < cost[n]
        BY <1>2, <2>2 DEF Improved
      <3> QED
        BY <1>6, <2>1, <2>2, <3>1
    <2>3. CASE n \notin Improved(u)
      BY <1>6, <2>1, <2>3
    <2> QED
      BY <2>2, <2>3
  <1>9. \A n \in Settled' : cost'[n] = cost[n]
    BY <1>1, <1>2, <1>5, <1>6 DEF Settled
  <1>10. \A n \in unsettled' : cost[u] <= cost'[n]
    <2> TAKE n \in unsettled'
    <2>1. n \in unsettled /\ cost[n] \in Nat /\ cost[u] \in Nat /\ cost[u] <= cost[n]
      BY <1>1, <1>4
    <2>2. CASE n \in Improved(u)
      BY <1>1, <1>2, <1>6, <2>1, <2>2
    <2>3. CASE n \notin Improved(u)
      BY <1>1, <1>6, <2>1, <2>3
    <2> QED
      BY <2>2, <2>3
  <1>11. \A m \in Neighbors(edges, u) : cost'[m] <= PathCost(u, m)
    <2> TAKE m \in Neighbors(edges, u)
    <2>1. m \in Domain /\ EdgeCost(edges, u, m) \in Nat
      BY <1>1, EdgesAreInDomain DEF Inv
    <2>2. PathCost(u, m) \in Nat /\ cost[m] \in Nat
      BY <1>1, <2>1 DEF PathCost
    <2>3. CASE m \in Improved(u)
      BY <1>6, <2>1, <2>2, <2>3
    <2>4. CASE m \notin Improved(u)
      <3>1. ~(PathCost(u, m) < cost[m])
        BY <2>4 DEF Improved
      <3> QED
        BY <1>6, <2>1, <2>2, <2>4, <3>1
    <2> QED
      BY <2>3, <2>4
  <1> QED
    BY <1>3, <1>4, <1>5, <1>7, <1>8, <1>9, <1>10, <1>11

-----------------------------------------------------------------------------

(* The router starts idle and empty.                                       *)
LEMMA InitInv == Init => Inv
  <1> SUFFICES ASSUME Init PROVE Inv
    OBVIOUS
  <1>1. DOMAIN edges = {}
    BY DEF Init
  <1>2. edges \in [DOMAIN edges -> Costs]
    BY <1>1 DEF Init
  <1>3. TypeOK
    BY <1>1, <1>2 DEF Init, TypeOK
  <1> QED
    BY <1>3 DEF Init, Inv, Searching, Extracting

(* A new search has costs for every node, nothing settled, and only this   *)
(* node reached.                                                           *)
LEMMA UpdateKeepsInv ==
  ASSUME Inv, phase = "idle", NEW g \in Graphs, Update(g)
  PROVE  Inv'
  <1>1. DOMAIN g \subseteq Pairs /\ g \in [DOMAIN g -> Costs]
    BY DEF Graphs
  <1>2. /\ edges' = g /\ phase' = "searching" /\ unsettled' = Domain'
        /\ Domain' = Others(g) \union {Self}
        /\ Self \notin Others(g)
    BY DEF Update, Domain, Others
  <1>3. /\ cost' \in [Domain' -> Nat]
        /\ cost'[Self] = 0
        /\ \A n \in Others(g) : cost'[n] = Infinity
        /\ prev' = [n \in Others(g) |-> None]
    BY <1>2, InfinityAssumption DEF Update
  <1>4. walk' = <<>> /\ hops' = <<>>
    BY DEF Inv, Extracting, Update
  <1>5. TypeOK'
    BY <1>1, <1>2, <1>3, <1>4 DEF Inv, TypeOK, Update
  <1>6. Searching'
    <2>1. Settled' = {}
      BY <1>2 DEF Settled
    <2>2. \A n \in Others(g) : Attained(n)'
      BY <1>2, <1>3 DEF Attained
    <2> QED
      BY <1>2, <1>3, <2>1, <2>2 DEF Searching, SettledFirst, SettledRelaxed
  <1>7. Extracting'
    BY <1>2, <1>4 DEF Extracting
  <1> QED
    BY <1>5, <1>6, <1>7 DEF Inv

(* A round of the search settles one more node.                            *)
LEMMA SettleKeepsInv ==
  ASSUME Inv, NEW u \in Nodes, Settle(u)
  PROVE  Inv'
  <1>1. /\ UNCHANGED <<edges, phase, hops, walk, raised, updates>>
        /\ phase = "searching"
        /\ cost \in [Domain -> Nat]
        /\ prev \in [Others(edges) -> Nodes \union {None}]
        /\ unsettled \subseteq Domain
        /\ u \in unsettled
    BY DEF Inv, TypeOK, Settle, Lowest
  <1>2. /\ Domain' = Domain
        /\ Settled' = Settled \union {u}
        /\ unsettled' = unsettled \ {u}
        /\ cost' \in [Domain -> Nat]
        /\ \A n \in Domain : cost'[n] <= cost[n]
        /\ \A n \in Settled' : cost'[n] = cost[n]
        /\ \A n \in unsettled' : cost[u] <= cost'[n]
        /\ \A m \in Neighbors(edges, u) : cost'[m] <= PathCost(u, m)
    BY SettleEffect
  <1>3. Others(edges)' = Others(edges)
    BY <1>1
  <1>4. Settled \subseteq Domain /\ Settled' \subseteq Domain
    BY <1>1, <1>2 DEF Settled
  <1>5. TypeOK'
    <2>1. prev' \in [Others(edges) -> Nodes \union {None}]
      BY <1>1 DEF Settle
    <2> QED
      BY <1>1, <1>2, <1>3, <2>1 DEF Inv, TypeOK
  <1>6. cost'[Self] = 0
    <2>1. Self \in Domain /\ cost[Self] = 0 /\ cost'[Self] \in Nat
      BY <1>1, <1>2 DEF Domain, Inv, Searching
    <2> QED
      BY <1>2, <2>1
  <1>7. SettledFirst'
    <2> SUFFICES ASSUME NEW s \in Settled', NEW v \in unsettled'
                 PROVE  cost'[s] <= cost'[v]
      BY DEF SettledFirst
    <2>1. cost[s] <= cost[u]
      BY <1>1, <1>2 DEF Inv, Searching, SettledFirst
    <2>2. cost'[s] = cost[s] /\ cost[u] <= cost'[v]
      BY <1>2
    <2>3. cost[s] \in Nat /\ cost[u] \in Nat /\ cost'[v] \in Nat
      BY <1>1, <1>2, <1>4
    <2> QED
      BY <2>1, <2>2, <2>3
  <1>8. \A s \in Settled' : \A m : PathCost(s, m)' = PathCost(s, m)
    BY <1>1, <1>2 DEF PathCost
  <1>9. SettledRelaxed'
    <2> SUFFICES ASSUME NEW s \in Settled', NEW m \in Neighbors(edges, s)
                 PROVE  cost'[m] <= PathCost(s, m)
      BY <1>1, <1>8 DEF SettledRelaxed
    <2>1. s \in Domain /\ m \in Domain /\ EdgeCost(edges, s, m) \in Nat
      BY <1>4, EdgesAreInDomain DEF Inv
    <2>2. PathCost(s, m) \in Nat /\ cost'[m] \in Nat /\ cost[m] \in Nat
      BY <1>1, <1>2, <2>1 DEF PathCost
    <2>3. CASE s \in Settled
      <3>1. cost[m] <= PathCost(s, m)
        BY <1>1, <2>3 DEF Inv, Searching, SettledRelaxed
      <3>2. cost'[m] <= cost[m]
        BY <1>2, <2>1
      <3> QED
        BY <2>2, <3>1, <3>2
    <2>4. CASE s = u
      BY <1>2, <2>4
    <2> QED
      BY <1>2, <2>3, <2>4
  <1>10. ASSUME NEW n \in Others(edges) PROVE Attained(n)'
    <2>1. n \in Domain /\ cost[n] \in Nat /\ Attained(n)
      BY <1>1 DEF Domain, Inv, Searching
    <2>2. CASE n \in Improved(u)
      <3>1. /\ n \in Neighbors(edges, u) /\ PathCost(u, n) < cost[n]
            /\ PathCost(u, n) \in Nat
        BY <1>1, <2>2, ImprovedAreUnsettled DEF Improved, Settle
      <3>2. prev'[n] = u /\ cost'[n] = PathCost(u, n)
        BY <1>1, <2>1, <2>2 DEF Settle
      <3>3. cost[n] <= Infinity
        BY <2>1, InfinityAssumption DEF Attained
      <3>4. PathCost(u, n) < Infinity
        BY <2>1, <3>1, <3>3, InfinityAssumption
      <3>5. u \in Settled' /\ PathCost(u, n)' = PathCost(u, n)
        BY <1>2, <1>8
      <3>6. u # None
        BY NodesAssumption
      <3> QED
        BY <1>1, <3>1, <3>2, <3>4, <3>5, <3>6 DEF Attained
    <2>3. CASE n \notin Improved(u)
      <3>1. prev'[n] = prev[n] /\ cost'[n] = cost[n]
        BY <1>1, <2>1, <2>3 DEF Settle
      <3> QED
        BY <1>1, <1>2, <1>8, <2>1, <3>1 DEF Attained
    <2> QED
      BY <2>2, <2>3
  <1>11. Searching'
    BY <1>1, <1>3, <1>6, <1>7, <1>9, <1>10 DEF Searching
  <1>12. Extracting'
    BY <1>1 DEF Inv, Extracting
  <1> QED
    BY <1>5, <1>11, <1>12 DEF Inv

(* While the predecessors are followed, the search stays as it ended.      *)
LEMMA SearchStays ==
  ASSUME Inv, UNCHANGED <<edges, search>>, phase # "idle"
  PROVE  Searching'
  <1>1. /\ Domain' = Domain /\ Settled' = Settled
        /\ \A n, m : PathCost(n, m)' = PathCost(n, m)
    BY DEF search, Domain, Settled, PathCost
  <1>2. \A n : Attained(n)' <=> Attained(n)
    BY <1>1 DEF search, Attained
  <1> QED
    BY <1>1, <1>2 DEF search, Inv, Searching, SettledFirst, SettledRelaxed

(* Every step keeps the invariant.                                         *)
LEMMA NextInv == Inv /\ [Next]_vars => Inv'
  <1> SUFFICES ASSUME Inv, [Next]_vars PROVE Inv'
    OBVIOUS
  <1>1. Others(edges) \subseteq Nodes \ {Self}
    BY OthersAreNodes DEF Inv, TypeOK
  <1>2. ASSUME phase = "idle", NEW g \in Graphs, Update(g) PROVE Inv'
    BY <1>2, UpdateKeepsInv
  <1>3. ASSUME NEW n \in Nodes, Settle(n) PROVE Inv'
    BY <1>3, SettleKeepsInv
  <1>4. ASSUME NEW n \in Nodes, StartWalk(n) PROVE Inv'
    <2>1. Searching'
      BY <1>4, SearchStays DEF StartWalk
    <2>2. TypeOK'
      BY <1>4 DEF Inv, TypeOK, StartWalk, search, Domain
    <2>3. Extracting'
      BY <1>4 DEF Inv, Extracting, StartWalk, search
    <2> QED
      BY <2>1, <2>2, <2>3 DEF Inv
  <1>5. CASE SearchEnds
    <2>1. Searching'
      BY <1>5, SearchStays DEF SearchEnds
    <2>2. TypeOK'
      BY <1>5 DEF Inv, TypeOK, SearchEnds, search, Domain
    <2>3. Extracting'
      BY <1>5 DEF Inv, Extracting, SearchEnds, search
    <2> QED
      BY <2>1, <2>2, <2>3 DEF Inv
  <1>6. ASSUME walk # <<>>
        PROVE  /\ phase = "extracting"
               /\ walk \in Others(edges) \X Others(edges)
               /\ Attained(walk[2])
    BY <1>6 DEF Inv, TypeOK, Extracting, Searching
  <1>7. CASE WalkBack
    <2>1. phase = "extracting" /\ walk[1] \in Others(edges)
      BY <1>6, <1>7 DEF WalkBack
    <2>2. Searching'
      BY <1>7, <2>1, SearchStays DEF WalkBack
    <2>3. prev[walk[2]] \in Others(edges)
      <3>1. prev[walk[2]] \in Nodes \ {Self} /\ Attained(walk[2])
        BY <1>6, <1>7 DEF WalkBack
      <3>2. prev[walk[2]] \in Domain
        BY <3>1, NodesAssumption DEF Attained, Settled
      <3> QED
        BY <3>1, <3>2 DEF Domain
    <2>4. TypeOK'
      BY <1>7, <2>1, <2>3 DEF Inv, TypeOK, WalkBack, search, Domain
    <2>5. Extracting'
      BY <1>7, <2>1 DEF Inv, Extracting, WalkBack, search
    <2> QED
      BY <2>2, <2>4, <2>5 DEF Inv
  <1>8. CASE FoundHop
    <2>1. phase = "extracting" /\ walk \in Others(edges) \X Others(edges)
      BY <1>6, <1>8 DEF FoundHop
    <2>2. Searching'
      BY <1>8, <2>1, SearchStays DEF FoundHop
    <2>3. TypeOK'
      BY <1>8, <2>1 DEF Inv, TypeOK, FoundHop, search, Domain
    <2>4. walk[2] \in Neighbors(edges, Self)
      <3>1. Attained(walk[2]) /\ prev[walk[2]] = Self
        BY <1>6, <1>8 DEF FoundHop
      <3> QED
        BY <3>1, NodesAssumption DEF Attained
    <2>5. \A d \in DOMAIN hops' : hops'[d].hop \in Neighbors(edges, Self)
      BY <1>8, <2>1, <2>4 DEF Inv, Extracting, FoundHop, Entry
    <2>6. Extracting'
      BY <1>8, <2>1, <2>5 DEF Inv, Extracting, FoundHop, search
    <2> QED
      BY <2>2, <2>3, <2>6 DEF Inv
  <1>9. ASSUME NEW failed \in BOOLEAN, Return(failed) PROVE Inv'
    BY <1>9 DEF Inv, TypeOK, Searching, Extracting, Return
  <1>10. CASE Raise
    BY <1>9, <1>10 DEF Raise
  <1>11. CASE Install
    BY <1>9, <1>11 DEF Install
  <1>12. CASE UNCHANGED vars
    <2>1. UNCHANGED <<edges, phase, search, hops, walk, raised, updates>>
      BY <1>12 DEF vars
    <2>2. Searching'
      BY <2>1, SearchStays DEF Searching
    <2> QED
      BY <2>1, <2>2 DEF Inv, TypeOK, Extracting, search, Domain
  <1> QED
    BY <1>2, <1>3, <1>4, <1>5, <1>7, <1>8, <1>10, <1>11, <1>12 DEF Next

(* The invariant holds in every behaviour.                                 *)
LEMMA Invariance == Spec => []Inv
  BY InitInv, NextInv, PTL DEF Spec

-----------------------------------------------------------------------------

(* update_routing_table keeps its data well typed, for every graph.        *)
THEOREM TypeCorrect == Spec => []TypeOK
  <1>1. Inv => TypeOK
    BY DEF Inv
  <1> QED
    BY <1>1, Invariance, PTL

(* When the queue is empty the costs solve Bellman's equations: the search *)
(* of update_routing_table computes the shortest paths of every graph with *)
(* positive costs, however ties are broken.                                *)
THEOREM SearchFindsShortestPaths == Spec => []SearchIsExact
  <1>1. Inv => SearchIsExact
    <2> SUFFICES ASSUME Inv, phase = "extracting" PROVE SearchIsExact
      BY DEF SearchIsExact
    <2>1. Settled = Domain
      BY DEF Inv, Extracting, Settled
    <2> QED
      BY <2>1 DEF Inv, Searching, SettledRelaxed, SearchIsExact
  <1> QED
    BY <1>1, Invariance, PTL

(* No node popped from the priority queue is added to it again, and its    *)
(* cost does not change: the search makes one round for every node.        *)
THEOREM SettledOnce == Spec => SettledIsFinal
  <1> DEFINE Final == phase = "searching" /\ phase' # "idle" =>
                        /\ unsettled' \subseteq unsettled
                        /\ \A n \in Settled : cost'[n] = cost[n]
  <1>1. Inv /\ [Next]_vars => [Final]_vars
    <2> SUFFICES ASSUME Inv, Next, phase = "searching", phase' # "idle"
                 PROVE  /\ unsettled' \subseteq unsettled
                        /\ \A n \in Settled : cost'[n] = cost[n]
      OBVIOUS
    <2>1. walk = <<>>
      BY DEF Inv, Extracting
    <2>2. ASSUME NEW u \in Nodes, Settle(u)
          PROVE  /\ unsettled' \subseteq unsettled
                 /\ \A n \in Settled : cost'[n] = cost[n]
      BY <2>2, SettleEffect
    <2>3. CASE SearchEnds
      BY <2>3 DEF SearchEnds, search
    <2> QED
      BY <2>1, <2>2, <2>3 DEF Next, StartWalk, WalkBack, FoundHop, Raise, Install
  <1> QED
    BY <1>1, Invariance, PTL DEF Spec, SettledIsFinal

(* The first hop of every entry that an update installs is a neighbour of  *)
(* this node, whatever the graph.                                          *)
THEOREM HopsAreNeighbours ==
  Spec => [][Install => \A d \in DOMAIN table' :
                          table'[d].hop \in Neighbors(edges, Self)]_vars
  <1> DEFINE Near == Install => \A d \in DOMAIN table' :
                                  table'[d].hop \in Neighbors(edges, Self)
  <1>1. Inv => [Near]_vars
    BY DEF Inv, Extracting, Install
  <1> QED
    BY <1>1, Invariance, PTL
-----------------------------------------------------------------------------

Count == Cardinality(Nodes)
IsGraph(g) == DOMAIN g \subseteq Pairs /\ g \in [DOMAIN g -> Costs]
Lengths == [Nodes -> 0 .. Infinity]

LEMMA NodesAreCounted == IsFiniteSet(Nodes) /\ Count \in Nat
  BY FiniteAssumption, FS_CardinalityType DEF Count

(* An edge joins two different nodes, both ways, at a positive cost.       *)
LEMMA GraphEdges ==
  ASSUME NEW g, IsGraph(g), NEW n \in Nodes, NEW m \in Neighbors(g, n)
  PROVE  /\ m \in Nodes /\ n \in Neighbors(g, m) /\ n # m
         /\ EdgeCost(g, n, m) \in Nat \ {0} /\ EdgeCost(g, m, n) = EdgeCost(g, n, m)
  <1>1. {n, m} \in DOMAIN g /\ m \in Nodes /\ {m, n} = {n, m}
    BY DEF Neighbors
  <1>2. g[{n, m}] \in Nat \ {0}
    BY <1>1, CostsAssumption DEF IsGraph
  <1>3. n # m
    BY <1>1 DEF IsGraph, Pairs
  <1> QED
    BY <1>1, <1>2, <1>3 DEF EdgeCost, Neighbors

(* LeastOf is the least number of a set of them.                           *)
LEMMA LeastOfIsLeast ==
  ASSUME NEW S \in SUBSET Nat, S # {}
  PROVE  LeastOf(S) \in S /\ \A y \in S : LeastOf(S) <= y
  BY LeastExists DEF LeastOf

(* A step of the reference: no length grows, and each is that of a path of *)
(* one edge more or the one before.                                        *)
LEMMA NearerEffect ==
  ASSUME NEW g, IsGraph(g), NEW w \in Lengths
  PROVE  /\ Nearer(g, w) \in Lengths
         /\ \A n \in Nodes :
              /\ Nearer(g, w)[n] <= w[n]
              /\ \A m \in Neighbors(g, n) : Nearer(g, w)[n] <= w[m] + EdgeCost(g, m, n)
              /\ \/ Nearer(g, w)[n] = w[n]
                 \/ \E m \in Neighbors(g, n) : Nearer(g, w)[n] = w[m] + EdgeCost(g, m, n)
  <1> DEFINE S(n) == {w[n]} \union {w[m] + EdgeCost(g, m, n) : m \in Neighbors(g, n)}
  <1>1. ASSUME NEW n \in Nodes
        PROVE  /\ S(n) \in SUBSET Nat /\ S(n) # {} /\ w[n] \in S(n) /\ w[n] \in 0 .. Infinity
               /\ \A m \in Neighbors(g, n) : w[m] + EdgeCost(g, m, n) \in S(n)
               /\ \A x \in S(n) : \/ x = w[n]
                                  \/ \E m \in Neighbors(g, n) : x = w[m] + EdgeCost(g, m, n)
    <2>1. w[n] \in 0 .. Infinity
      BY DEF Lengths
    <2>2. \A m \in Neighbors(g, n) : w[m] + EdgeCost(g, m, n) \in Nat
      <3> TAKE m \in Neighbors(g, n)
      <3>1. m \in Nodes /\ EdgeCost(g, m, n) \in Nat
        BY GraphEdges
      <3>2. w[m] \in Nat
        BY <3>1, InfinityAssumption DEF Lengths
      <3> QED
        BY <3>1, <3>2
    <2>3. w[n] \in Nat
      BY <2>1, InfinityAssumption
    <2> QED
      BY <2>1, <2>2, <2>3
  <1> HIDE DEF S
  <1>2. \A n \in Nodes : LeastOf(S(n)) \in S(n) /\ \A y \in S(n) : LeastOf(S(n)) <= y
    BY <1>1, LeastOfIsLeast
  <1>3. \A n \in Nodes : Nearer(g, w)[n] = LeastOf(S(n))
    BY DEF Nearer, S
  <1>4. \A n \in Nodes : LeastOf(S(n)) \in 0 .. Infinity
    <2> TAKE n \in Nodes
    <2>1. LeastOf(S(n)) \in Nat /\ LeastOf(S(n)) <= w[n] /\ w[n] \in 0 .. Infinity
      BY <1>1, <1>2
    <2> QED
      BY <2>1, InfinityAssumption
  <1>5. Nearer(g, w) = [n \in Nodes |-> LeastOf(S(n))]
    BY DEF Nearer, S
  <1>6. Nearer(g, w) \in Lengths
    BY <1>4, <1>5 DEF Lengths
  <1> QED
    BY <1>1, <1>2, <1>3, <1>6

(* The reference is well defined: each step is made from the one before.   *)
LEMMA WithinSteps ==
  ASSUME NEW g, IsGraph(g), NEW q \in Nodes
  PROVE  /\ Within(g, q) \in [0 .. Count -> Lengths]
         /\ \A n \in Nodes : Within(g, q)[0][n] = IF n = q THEN 0 ELSE Infinity
         /\ \A k \in 0 .. Count : k < Count => Within(g, q)[k + 1] = Nearer(g, Within(g, q)[k])
  <1> DEFINE a == [n \in Nodes |-> IF n = q THEN 0 ELSE Infinity]
             F(f) == [k \in 0 .. Count |-> IF k = 0 THEN a ELSE Nearer(g, f[k - 1])]
             step == [k \in Nat |-> [w \in Lengths |-> Nearer(g, w)]]
  <1>1. Count \in Nat
    BY NodesAreCounted
  <1>2. a \in Lengths
    BY InfinityAssumption DEF Lengths
  <1>3. step \in [Nat -> [Lengths -> Lengths]]
    BY NearerEffect
  <1>4. PICK f : Iterates(f, Lengths, a, step, Count)
    <2> HIDE DEF a, step
    <2> QED
      BY <1>1, <1>2, <1>3, Iteration
  <1>5. /\ f \in [0 .. Count -> Lengths] /\ f[0] = a
         /\ \A k \in 1 .. Count : f[k] = step[k][f[k - 1]]
    BY <1>4 DEF Iterates
  <1>6. \A k \in 1 .. Count : f[k - 1] \in Lengths /\ f[k] = Nearer(g, f[k - 1])
    <2> TAKE k \in 1 .. Count
    <2>3. step[k] = [w \in Lengths |-> Nearer(g, w)]
      BY <1>1
    <2> HIDE DEF step
    <2>1. k \in Nat /\ k - 1 \in 0 .. Count /\ f[k] = step[k][f[k - 1]]
      BY <1>1, <1>5
    <2>2. f[k - 1] \in Lengths
      BY <1>5, <2>1
    <2> QED
      BY <2>1, <2>2, <2>3
  <1> HIDE DEF a
  <1>7. f = F(f)
    BY <1>1, <1>6, <1>5
  <1>8. Within(g, q) = CHOOSE h : h = F(h)
    BY DEF Within, Count, a
  <1> HIDE DEF F
  <1>9. Within(g, q) = F(Within(g, q))
    BY <1>7, <1>8
  <1> DEFINE W == Within(g, q)
  <1>10. W[0] = a /\ \A k \in 1 .. Count : W[k] = Nearer(g, W[k - 1])
    BY <1>1, <1>9 DEF F
  <1>11. W \in [0 .. Count -> Lengths]
    <2>1. \A k \in 0 .. Count : k \in {n \in 0 .. Count : W[n] \in Lengths} /\ k < Count
                            => k + 1 \in {n \in 0 .. Count : W[n] \in Lengths}
      <3> SUFFICES ASSUME NEW k \in 0 .. Count, W[k] \in Lengths, k < Count
                   PROVE  k + 1 \in 0 .. Count /\ W[k + 1] \in Lengths
        OBVIOUS
      <3>1. k + 1 \in 1 .. Count /\ (k + 1) - 1 = k
        BY <1>1
      <3>2. W[k + 1] = Nearer(g, W[k])
        BY <1>10, <3>1
      <3> QED
        BY <1>1, <3>1, <3>2, NearerEffect
    <2>2. 0 .. Count \subseteq {n \in 0 .. Count : W[n] \in Lengths}
      BY <1>1, <1>2, <1>10, <2>1, AllUpTo
    <2>3. W = [k \in 0 .. Count |-> W[k]]
      BY <1>9 DEF F
    <2> QED
      BY <2>2, <2>3
  <1> QED
    BY <1>1, <1>10, <1>11 DEF a

(* Its values are lengths up to Infinity.                                  *)
LEMMA WithinType ==
  ASSUME NEW g, IsGraph(g), NEW q \in Nodes, NEW k \in 0 .. Count, NEW n \in Nodes
  PROVE  /\ Within(g, q)[k] \in Lengths
         /\ Within(g, q)[k][n] \in Nat /\ Within(g, q)[k][n] \in 0 .. Infinity
  <1>1. Within(g, q)[k] \in Lengths
    <2>1. Within(g, q) \in [0 .. Count -> Lengths]
      BY WithinSteps
    <2> QED
      BY <2>1
  <1>2. Within(g, q)[k][n] \in 0 .. Infinity
    BY <1>1 DEF Lengths
  <1> QED
    BY <1>1, <1>2, InfinityAssumption

(* A step of the reference, in the terms of the proofs below.              *)
LEMMA WithinEffect ==
  ASSUME NEW g, IsGraph(g), NEW q \in Nodes, NEW k \in 0 .. Count, k < Count
  PROVE  /\ k + 1 \in 0 .. Count
         /\ Within(g, q)[k] \in Lengths /\ Within(g, q)[k + 1] \in Lengths
         /\ \A n \in Nodes :
              /\ Within(g, q)[k][n] \in Nat /\ Within(g, q)[k + 1][n] \in Nat
              /\ Within(g, q)[k + 1][n] <= Within(g, q)[k][n]
              /\ \A m \in Neighbors(g, n) :
                   Within(g, q)[k + 1][n] <= Within(g, q)[k][m] + EdgeCost(g, m, n)
              /\ \/ Within(g, q)[k + 1][n] = Within(g, q)[k][n]
                 \/ \E m \in Neighbors(g, n) :
                      Within(g, q)[k + 1][n] = Within(g, q)[k][m] + EdgeCost(g, m, n)
  <1>1. Count \in Nat /\ k + 1 \in 0 .. Count
    BY NodesAreCounted
  <1>2. PICK v, w : /\ v = Within(g, q)[k] /\ w = Within(g, q)[k + 1]
                    /\ v \in Lengths /\ w \in Lengths /\ w = Nearer(g, v)
    BY <1>1, NodesAssumption, WithinSteps, WithinType
  <1>3. \A n \in Nodes : v[n] \in Nat /\ w[n] \in Nat
    BY <1>2, InfinityAssumption DEF Lengths
  <1> QED
    BY <1>1, <1>2, <1>3, NearerEffect

(* With more edges allowed no length is greater.                           *)
LEMMA WithinShrinks ==
  ASSUME NEW g, IsGraph(g), NEW q \in Nodes, NEW n \in Nodes,
         NEW i \in 0 .. Count, NEW j \in 0 .. Count, i <= j
  PROVE  Within(g, q)[j][n] <= Within(g, q)[i][n]
  <1> DEFINE W(k) == Within(g, q)[k][n]
             T == {k \in 0 .. Count : W(k) \in Nat /\ (i <= k => W(k) <= W(i))}
  <1>1. Count \in Nat /\ \A k \in 0 .. Count : W(k) \in Nat
    BY NodesAreCounted, WithinType
  <1>2. 0 \in T
    BY <1>1
  <1>3. ASSUME NEW k \in 0 .. Count, k \in T, k < Count PROVE k + 1 \in T
    <2>1. k + 1 \in 0 .. Count /\ W(k + 1) <= W(k)
      BY <1>3, WithinEffect
    <2> HIDE DEF W
    <2> QED
      BY <1>1, <1>3, <2>1
  <1>4. 0 .. Count \subseteq T
    <2> HIDE DEF T
    <2> QED
      BY <1>1, <1>2, <1>3, AllUpTo
  <1> QED
    BY <1>4

(* The way from q begins with an edge, and goes on as the way from p.      *)
LEMMA OneEdgeFirst ==
  ASSUME NEW g, IsGraph(g), NEW q \in Nodes, NEW p \in Neighbors(g, q),
         NEW i \in 0 .. Count, i < Count, NEW d \in Nodes
  PROVE  Within(g, q)[i + 1][d] <= EdgeCost(g, q, p) + Within(g, p)[i][d]
  <1> DEFINE Q(k, n) == Within(g, q)[k][n]
             P(k, n) == Within(g, p)[k][n]
             c == EdgeCost(g, q, p)
             T == {k \in 0 .. Count : k < Count => \A n \in Nodes : Q(k + 1, n) <= c + P(k, n)}
  <1>1. p \in Nodes /\ q \in Neighbors(g, p) /\ c \in Nat /\ Count \in Nat
    BY GraphEdges, NodesAreCounted
  <1>2. \A k \in 0 .. Count, n \in Nodes :
          Q(k, n) \in Nat /\ P(k, n) \in Nat /\ Q(k, n) <= Infinity
    BY <1>1, WithinType, InfinityAssumption
  <1>3. 0 \in T
    <2> SUFFICES ASSUME 0 < Count, NEW n \in Nodes PROVE Q(1, n) <= c + P(0, n)
      BY <1>1
    <2>1. CASE n = p
      <3>1. Q(0 + 1, n) <= Q(0, q) + c
        BY <1>1, <2>1, WithinEffect
      <3>2. Q(0, q) = 0 /\ P(0, n) = 0
        BY <1>1, <2>1, WithinSteps
      <3> QED
        BY <1>1, <3>1, <3>2
    <2>2. CASE n # p
      <3>1. P(0, n) = Infinity
        BY <1>1, <2>2, WithinSteps
      <3> QED
        BY <1>1, <1>2, <3>1, InfinityAssumption
    <2> QED
      BY <2>1, <2>2
  <1>4. ASSUME NEW k \in 0 .. Count, k \in T, k < Count PROVE k + 1 \in T
    <2> SUFFICES ASSUME k + 1 < Count, NEW n \in Nodes
                 PROVE  Q((k + 1) + 1, n) <= c + P(k + 1, n)
      BY <1>1, <1>4
    <2>1. k + 1 \in 0 .. Count /\ (k + 1) + 1 \in 0 .. Count
      BY <1>1
    <2>2. \A m \in Nodes : Q(k + 1, m) <= c + P(k, m)
      BY <1>4
    <2>3. CASE P(k + 1, n) = P(k, n)
      <3>1. Q((k + 1) + 1, n) <= Q(k + 1, n)
        BY <2>1, WithinEffect
      <3> HIDE DEF Q, P, c
      <3> QED
        BY <1>1, <1>2, <2>1, <2>2, <2>3, <3>1
    <2>4. ASSUME NEW m \in Neighbors(g, n), P(k + 1, n) = P(k, m) + EdgeCost(g, m, n)
          PROVE  Q((k + 1) + 1, n) <= c + P(k + 1, n)
      <3>1. Q((k + 1) + 1, n) <= Q(k + 1, m) + EdgeCost(g, m, n)
        BY <2>1, WithinEffect
      <3>2. m \in Nodes /\ EdgeCost(g, m, n) \in Nat
        BY GraphEdges
      <3> HIDE DEF Q, P, c
      <3> QED
        BY <1>1, <1>2, <2>1, <2>2, <2>4, <3>1, <3>2
    <2> QED
      BY <1>1, <1>4, <2>3, <2>4, WithinEffect
  <1>5. 0 .. Count \subseteq T
    <2> HIDE DEF T
    <2> QED
      BY <1>1, <1>3, <1>4, AllUpTo
  <1> QED
    BY <1>5

-----------------------------------------------------------------------------

(* What the search leaves behind: edges, and costs that solve Bellman's    *)
(* equations over them.                                                    *)
Solved ==
  /\ IsGraph(edges) /\ Domain \subseteq Nodes /\ Self \in Domain
  /\ \A n \in Domain : cost[n] \in 0 .. Infinity
  /\ cost[Self] = 0
  /\ \A n \in Domain : \A m \in Neighbors(edges, n) :
       m \in Domain /\ cost[m] <= cost[n] + EdgeCost(edges, n, m)
  /\ \A n \in Domain : n # Self =>
       \/ prev[n] = None /\ cost[n] = Infinity
       \/ /\ prev[n] \in Domain /\ n \in Neighbors(edges, prev[n])
          /\ cost[n] = cost[prev[n]] + EdgeCost(edges, prev[n], n)
          /\ cost[n] < Infinity

LEMMA SearchSolves ==
  ASSUME Inv, phase = "extracting"
  PROVE  Solved
  <1>1. IsGraph(edges) /\ cost \in [Domain -> Nat] /\ Settled = Domain
    BY DEF Inv, TypeOK, Extracting, IsGraph, Settled
  <1>2. Domain \subseteq Nodes /\ Self \in Domain
    BY <1>1, OthersAreNodes, NodesAssumption DEF Domain, IsGraph
  <1>3. ASSUME NEW n \in Domain, n # Self
        PROVE  \/ prev[n] = None /\ cost[n] = Infinity
               \/ /\ prev[n] \in Domain /\ n \in Neighbors(edges, prev[n])
                  /\ cost[n] = cost[prev[n]] + EdgeCost(edges, prev[n], n)
                  /\ cost[n] < Infinity
    <2>1. Attained(n)
      BY <1>3 DEF Domain, Inv, Searching
    <2> QED
      BY <1>1, <2>1 DEF Attained, PathCost
  <1>4. cost[Self] = 0
    BY DEF Inv, Searching
  <1>5. \A n \in Domain : cost[n] \in 0 .. Infinity
    <2> TAKE n \in Domain
    <2>1. cost[n] \in Nat
      BY <1>1
    <2> QED
      BY <1>3, <1>4, <2>1, InfinityAssumption
  <1>6. ASSUME NEW n \in Domain, NEW m \in Neighbors(edges, n)
        PROVE  m \in Domain /\ cost[m] <= cost[n] + EdgeCost(edges, n, m)
    <2>1. m \in Domain
      BY EdgesAreInDomain DEF Inv
    <2>2. cost[m] <= PathCost(n, m)
      BY <1>1 DEF Inv, Searching, SettledRelaxed
    <2> QED
      BY <2>1, <2>2 DEF PathCost
  <1> QED
    BY <1>1, <1>2, <1>3, <1>4, <1>5, <1>6 DEF Solved

(* The cost is no greater than that of any path, from h on as from here.   *)
LEMMA NoPathIsShorter ==
  ASSUME Solved, NEW h \in Domain, NEW d \in Domain, NEW i \in 0 .. Count
  PROVE  cost[d] <= cost[h] + Within(edges, h)[i][d]
  <1> DEFINE W(k, n) == Within(edges, h)[k][n]
             T == {k \in 0 .. Count : \A n \in Domain : cost[n] <= cost[h] + W(k, n)}
  <1>1. IsGraph(edges) /\ h \in Nodes /\ Count \in Nat /\ Domain \subseteq Nodes
    BY NodesAreCounted DEF Solved
  <1>2. \A n \in Domain : cost[n] \in Nat /\ cost[n] <= Infinity
    BY InfinityAssumption DEF Solved
  <1>3. \A k \in 0 .. Count, n \in Domain : W(k, n) \in Nat
    BY <1>1, WithinType
  <1>4. 0 \in T
    <2>1. \A n \in Domain : W(0, n) = IF n = h THEN 0 ELSE Infinity
      BY <1>1, WithinSteps
    <2> HIDE DEF W
    <2> QED
      BY <1>1, <1>2, <2>1, InfinityAssumption
  <1>5. ASSUME NEW k \in 0 .. Count, k \in T, k < Count PROVE k + 1 \in T
    <2> SUFFICES ASSUME NEW n \in Domain PROVE cost[n] <= cost[h] + W(k + 1, n)
      BY <1>1, <1>5
    <2>1. \/ W(k + 1, n) = W(k, n)
          \/ \E m \in Neighbors(edges, n) : W(k + 1, n) = W(k, m) + EdgeCost(edges, m, n)
      BY <1>1, <1>5, WithinEffect
    <2>2. CASE W(k + 1, n) = W(k, n)
      BY <1>5, <2>2
    <2>3. ASSUME NEW m \in Neighbors(edges, n), W(k + 1, n) = W(k, m) + EdgeCost(edges, m, n)
          PROVE  cost[n] <= cost[h] + W(k + 1, n)
      <3>1. /\ m \in Nodes /\ n \in Neighbors(edges, m)
            /\ EdgeCost(edges, m, n) \in Nat
        BY <1>1, GraphEdges
      <3>2. m \in Domain
        BY DEF Solved
      <3>3. cost[n] <= cost[m] + EdgeCost(edges, m, n)
        BY <3>1, <3>2 DEF Solved
      <3>4. cost[m] <= cost[h] + W(k, m)
        BY <1>5, <3>2
      <3> HIDE DEF W
      <3> QED
        BY <1>2, <1>3, <2>3, <3>1, <3>2, <3>3, <3>4
    <2> QED
      BY <2>1, <2>2, <2>3
  <1>6. 0 .. Count \subseteq T
    <2> HIDE DEF T
    <2> QED
      BY <1>1, <1>4, <1>5, AllUpTo
  <1> QED
    BY <1>6

(* The nodes that cost at least as much as p, and less than d.             *)
Between(p, d) == {n \in Domain : cost[p] <= cost[n] /\ cost[n] < cost[d]}

LEMMA BetweenIsCounted ==
  ASSUME Solved, NEW p, NEW d \in Domain
  PROVE  /\ IsFiniteSet(Between(p, d))
         /\ Cardinality(Between(p, d)) \in 0 .. Count
         /\ Cardinality(Between(p, d)) < Count
  <1>1. IsFiniteSet(Nodes) /\ Count \in Nat /\ d \in Nodes /\ cost[d] \in Nat
    BY NodesAreCounted, InfinityAssumption DEF Solved
  <1>2. Between(p, d) \subseteq Nodes \ {d}
    BY <1>1 DEF Solved, Between
  <1>3. IsFiniteSet(Nodes \ {d}) /\ Cardinality(Nodes \ {d}) = Count - 1
    BY <1>1, FS_RemoveElement DEF Count
  <1>4. /\ IsFiniteSet(Between(p, d))
        /\ Cardinality(Between(p, d)) <= Cardinality(Nodes \ {d})
    BY <1>2, <1>3, FS_Subset
  <1>5. Cardinality(Between(p, d)) \in Nat
    BY <1>4, FS_CardinalityType
  <1> QED
    BY <1>1, <1>3, <1>4, <1>5

(* One step back along prev leaves one node more between.                  *)
LEMMA BetweenGrows ==
  ASSUME Solved, NEW d \in Domain, NEW p \in Domain, NEW q \in Domain,
         cost[q] < cost[p], cost[p] <= cost[d]
  PROVE  Cardinality(Between(p, d)) + 1 <= Cardinality(Between(q, d))
  <1>1. \A n \in Domain : cost[n] \in Nat
    BY InfinityAssumption DEF Solved
  <1>2. Between(p, d) \union {q} \subseteq Between(q, d) /\ q \notin Between(p, d)
    BY <1>1 DEF Between
  <1>3. IsFiniteSet(Between(p, d)) /\ IsFiniteSet(Between(q, d))
        /\ Cardinality(Between(p, d)) \in Nat /\ Cardinality(Between(q, d)) \in Nat
    BY BetweenIsCounted
  <1>4. IsFiniteSet(Between(p, d) \union {q})
        /\ Cardinality(Between(p, d) \union {q}) = Cardinality(Between(p, d)) + 1
    BY <1>2, <1>3, FS_AddElement
  <1>5. Cardinality(Between(p, d) \union {q}) <= Cardinality(Between(q, d))
    BY <1>2, <1>3, FS_Subset
  <1> QED
    BY <1>4, <1>5

-----------------------------------------------------------------------------

(* The way from p to d costs what the search says, within as many edges as *)
(* there are nodes between; p is d or d can be reached.                    *)
OnShortest(d, p) ==
  /\ cost[p] <= cost[d]
  /\ p # d => cost[d] < Infinity
  /\ Within(edges, p)[Cardinality(Between(p, d))][d] + cost[p] <= cost[d]

RightEntry(entry, d) ==
  /\ entry.hop \in Neighbors(edges, Self)
  /\ entry.cost = Distances(edges, Self)[d] /\ entry.cost < Infinity
  /\ EdgeCost(edges, Self, entry.hop) + Distances(edges, entry.hop)[d] = entry.cost
Right(entries) == \A d \in DOMAIN entries : RightEntry(entries[d], d)

LEMMA WalkBegins ==
  ASSUME Solved, NEW d \in Domain
  PROVE  OnShortest(d, d)
  <1>1. Between(d, d) = {}
    <2>1. cost[d] \in Nat /\ \A n \in Domain : cost[n] \in Nat
      BY InfinityAssumption DEF Solved
    <2> QED
      BY <2>1 DEF Between
  <1>2. Cardinality(Between(d, d)) = 0
    BY <1>1, FS_EmptySet
  <1>3. Within(edges, d)[0][d] = 0
    BY WithinSteps DEF Solved
  <1>4. cost[d] \in Nat
    BY InfinityAssumption DEF Solved
  <1> QED
    BY <1>2, <1>3, <1>4 DEF OnShortest

(* Following prev from the destination back stays on a shortest path.      *)
LEMMA WalkStays ==
  ASSUME Solved, NEW d \in Domain, NEW p \in Domain, p # Self, prev[p] # None,
         OnShortest(d, p)
  PROVE  /\ prev[p] \in Domain /\ OnShortest(d, prev[p]) /\ cost[d] < Infinity
         /\ p \in Neighbors(edges, prev[p])
         /\ cost[p] = cost[prev[p]] + EdgeCost(edges, prev[p], p)
  <1>1. PICK q \in Domain :
          /\ q = prev[p] /\ p \in Neighbors(edges, q) /\ cost[p] < Infinity
          /\ cost[p] = cost[q] + EdgeCost(edges, q, p)
    BY DEF Solved
  <1>2. IsGraph(edges) /\ q \in Nodes /\ p \in Nodes /\ d \in Nodes
    BY DEF Solved
  <1>3. PICK c \in Nat \ {0} : c = EdgeCost(edges, q, p)
    BY <1>1, <1>2, GraphEdges
  <1>4. cost[q] \in Nat /\ cost[p] \in Nat /\ cost[d] \in Nat
    BY InfinityAssumption DEF Solved
  <1>5. cost[q] < cost[p] /\ cost[q] <= cost[d] /\ cost[d] < Infinity
    BY <1>1, <1>3, <1>4, InfinityAssumption DEF OnShortest
  <1>6. PICK i, j : /\ i = Cardinality(Between(p, d)) /\ j = Cardinality(Between(q, d))
                    /\ i \in 0 .. Count /\ j \in 0 .. Count /\ i < Count /\ i + 1 <= j
    BY <1>4, <1>5, BetweenIsCounted, BetweenGrows DEF OnShortest
  <1>7. i + 1 \in 0 .. Count
    BY <1>6, NodesAreCounted
  <1>8. Within(edges, q)[j][d] <= Within(edges, q)[i + 1][d]
    BY <1>2, <1>6, <1>7, WithinShrinks
  <1>9. Within(edges, q)[i + 1][d] <= c + Within(edges, p)[i][d]
    BY <1>1, <1>2, <1>3, <1>6, OneEdgeFirst
  <1>10. /\ Within(edges, q)[j][d] \in Nat /\ Within(edges, q)[i + 1][d] \in Nat
         /\ Within(edges, p)[i][d] \in Nat
    BY <1>2, <1>6, <1>7, WithinType
  <1>11. Within(edges, p)[i][d] + cost[p] <= cost[d]
    BY <1>6 DEF OnShortest
  <1>12. Within(edges, q)[j][d] + cost[q] <= cost[d]
    BY <1>1, <1>3, <1>4, <1>8, <1>9, <1>10, <1>11
  <1> QED
    BY <1>1, <1>5, <1>6, <1>12 DEF OnShortest

(* What a walk has kept makes the length a distance.                       *)
LEMMA WalkIsDistance ==
  ASSUME Solved, NEW d \in Domain, NEW p \in Domain, OnShortest(d, p)
  PROVE  Distances(edges, p)[d] \in Nat /\ Distances(edges, p)[d] + cost[p] = cost[d]
  <1>1. IsGraph(edges) /\ p \in Nodes /\ d \in Nodes /\ Count \in Nat
    BY NodesAreCounted DEF Solved
  <1>2. PICK i \in 0 .. Count : i = Cardinality(Between(p, d))
    BY BetweenIsCounted
  <1>3. Within(edges, p)[Count][d] <= Within(edges, p)[i][d]
    BY <1>1, <1>2, WithinShrinks
  <1>5. Within(edges, p)[Count][d] \in Nat /\ Within(edges, p)[i][d] \in Nat
    BY <1>1, <1>2, WithinType
  <1>6. cost[d] \in Nat /\ cost[p] \in Nat
    BY InfinityAssumption DEF Solved
  <1>7. cost[d] <= cost[p] + Within(edges, p)[Count][d]
    BY <1>1, NoPathIsShorter
  <1>8. Within(edges, p)[i][d] + cost[p] <= cost[d]
    BY <1>2 DEF OnShortest
  <1>9. Distances(edges, p)[d] = Within(edges, p)[Count][d]
    BY DEF Distances, Count
  <1> QED
    BY <1>3, <1>5, <1>6, <1>7, <1>8, <1>9

(* The entry of FoundHop is right.                                         *)
LEMMA FoundIsRight ==
  ASSUME Solved, NEW d \in Domain, NEW p \in Domain, p # Self, prev[p] = Self,
         OnShortest(d, p)
  PROVE  RightEntry(Entry(d, p), d)
  <1>1. /\ OnShortest(d, Self) /\ p \in Neighbors(edges, Self) /\ cost[d] < Infinity
        /\ cost[p] = cost[Self] + EdgeCost(edges, Self, p)
    BY WalkStays, NodesAssumption
  <1>2. /\ Distances(edges, Self)[d] \in Nat
        /\ Distances(edges, Self)[d] + cost[Self] = cost[d]
    BY <1>1, WalkIsDistance DEF Solved
  <1>3. Distances(edges, p)[d] \in Nat /\ Distances(edges, p)[d] + cost[p] = cost[d]
    BY WalkIsDistance
  <1>4. cost[Self] = 0 /\ EdgeCost(edges, Self, p) \in Nat
    BY <1>1, GraphEdges, NodesAssumption DEF Solved
  <1>5. Entry(d, p).hop = p /\ Entry(d, p).cost = cost[d]
    BY DEF Entry
  <1> HIDE DEF Entry
  <1> QED
    BY <1>1, <1>2, <1>3, <1>4, <1>5 DEF RightEntry

(* A node without predecessor is cut off.                                  *)
LEMMA RaiseIsRight ==
  ASSUME Solved, NEW p \in Others(edges), prev[p] = None
  PROVE  p \in CutOff(edges)
  <1>1. p \in Domain /\ p # Self /\ Self \in Domain
    BY DEF Domain, Others
  <1>2. cost[p] = Infinity /\ cost[Self] = 0
    BY <1>1, NodesAssumption DEF Solved
  <1>3. cost[p] <= cost[Self] + Within(edges, Self)[Count][p]
    BY <1>1, NoPathIsShorter, NodesAreCounted
  <1>4. Within(edges, Self)[Count][p] \in 0 .. Infinity
    BY <1>1, WithinType, NodesAreCounted DEF Solved
  <1>5. Distances(edges, Self)[p] = Within(edges, Self)[Count][p]
    BY DEF Distances, Count
  <1> QED
    BY <1>2, <1>3, <1>4, <1>5, InfinityAssumption DEF CutOff

(* Walks are on shortest paths; entries, new or installed, are right; and  *)
(* after an exception some node is cut off.                                *)
TableInv ==
  /\ walk # <<>> => OnShortest(walk[1], walk[2])
  /\ DOMAIN hops \subseteq Others(edges) /\ Right(hops)
  /\ phase = "idle" /\ ~raised => DOMAIN table = Others(edges) /\ Right(table)
  /\ phase = "idle" /\ raised => CutOff(edges) # {}

LEMMA InitTable == Init => TableInv
  <1> SUFFICES ASSUME Init PROVE TableInv
    OBVIOUS
  <1>1. DOMAIN edges = {} /\ DOMAIN hops = {} /\ DOMAIN table = {}
    BY DEF Init
  <1>2. Others(edges) = {}
    BY <1>1 DEF Others
  <1> QED
    BY <1>1, <1>2 DEF Init, TableInv, Right

(* While the edges and the search stay, so does what is said of them.      *)
LEMMA RightStays ==
  ASSUME UNCHANGED <<edges, search>>
  PROVE  /\ \A d, p : OnShortest(d, p)' <=> OnShortest(d, p)
         /\ \A e, d : RightEntry(e, d)' <=> RightEntry(e, d)
  BY DEF search, OnShortest, RightEntry, Between, Domain

LEMMA NextTable == Inv /\ TableInv /\ [Next]_vars => TableInv'
  <1> SUFFICES ASSUME Inv, TableInv, [Next]_vars PROVE TableInv'
    OBVIOUS
  <1>1. walk # <<>> =>
          /\ phase = "extracting" /\ Solved
          /\ walk[1] \in Others(edges) /\ walk[2] \in Others(edges)
          /\ OnShortest(walk[1], walk[2])
    BY SearchSolves DEF Inv, TypeOK, Extracting, TableInv
  <1>2. \A d \in Others(edges) : d \in Domain /\ d # Self /\ Self \notin Others(edges)
    BY DEF Domain, Others
  <1>3. ASSUME phase = "idle", NEW g \in Graphs, Update(g) PROVE TableInv'
    <2>1. walk' = <<>> /\ DOMAIN hops' = {} /\ phase' = "searching"
      BY <1>3 DEF Inv, Extracting, Update
    <2> QED
      BY <2>1 DEF TableInv, Right
  <1>4. ASSUME NEW n \in Nodes, Settle(n) PROVE TableInv'
    <2>1. walk' = <<>> /\ DOMAIN hops' = {} /\ phase' = "searching"
      BY <1>4 DEF Inv, Extracting, Settle
    <2> QED
      BY <2>1 DEF TableInv, Right
  <1>5. ASSUME NEW d \in Nodes, StartWalk(d) PROVE TableInv'
    <2>1. /\ UNCHANGED <<edges, search, hops, phase>> /\ phase = "extracting"
          /\ walk' = <<d, d>> /\ d \in Domain /\ Solved
      BY <1>2, <1>5, SearchSolves DEF StartWalk
    <2>2. OnShortest(d, d)
      BY <2>1, WalkBegins
    <2> QED
      BY <2>1, <2>2, RightStays DEF TableInv, Right
  <1>6. CASE SearchEnds
    <2>1. UNCHANGED <<edges, search, hops, walk>> /\ phase' = "extracting"
      BY <1>6 DEF SearchEnds
    <2> QED
      BY <2>1, RightStays DEF TableInv, Right
  <1>7. CASE WalkBack
    <2>1. /\ UNCHANGED <<edges, search, hops, phase>> /\ walk # <<>>
          /\ prev[walk[2]] \in Nodes \ {Self} /\ walk' = <<walk[1], prev[walk[2]]>>
      BY <1>7 DEF WalkBack
    <2>2. OnShortest(walk[1], prev[walk[2]])
      BY <1>1, <1>2, <2>1, WalkStays, NodesAssumption
    <2>3. OnShortest(walk'[1], walk'[2])
      BY <2>1, <2>2
    <2>4. (walk # <<>> => OnShortest(walk[1], walk[2]))'
      BY <2>1, <2>3, RightStays
    <2> QED
      BY <1>1, <2>1, <2>4, RightStays DEF TableInv, Right
  <1>8. CASE FoundHop
    <2>1. /\ UNCHANGED <<edges, search, phase>> /\ walk # <<>> /\ walk' = <<>>
          /\ prev[walk[2]] = Self
          /\ hops' = [d \in DOMAIN hops \union {walk[1]} |->
                        IF d = walk[1] THEN Entry(d, walk[2]) ELSE hops[d]]
      BY <1>8 DEF FoundHop
    <2>2. RightEntry(Entry(walk[1], walk[2]), walk[1])
      BY <1>1, <1>2, <2>1, FoundIsRight
    <2>3. \A d \in DOMAIN hops' : RightEntry(hops'[d], d)
      BY <2>1, <2>2 DEF TableInv, Right
    <2> QED
      BY <1>1, <2>1, <2>3, RightStays DEF TableInv, Right
  <1>9. CASE Raise
    <2>1. /\ UNCHANGED edges /\ walk # <<>> /\ prev[walk[2]] = None
          /\ phase' = "idle" /\ raised' = TRUE /\ walk' = <<>> /\ DOMAIN hops' = {}
      BY <1>9 DEF Raise, Return
    <2>2. walk[2] \in CutOff(edges)
      BY <1>1, <2>1, RaiseIsRight
    <2> QED
      BY <2>1, <2>2 DEF TableInv, Right
  <1>10. CASE Install
    <2>1. /\ UNCHANGED edges /\ DOMAIN hops = Others(edges) /\ table' = hops
          /\ phase' = "idle" /\ raised' = FALSE /\ walk' = <<>> /\ DOMAIN hops' = {}
      BY <1>10 DEF Install, Return
    <2>2. \A e, d : RightEntry(e, d)' <=> RightEntry(e, d)
      BY <2>1 DEF RightEntry
    <2> QED
      BY <2>1, <2>2 DEF TableInv, Right
  <1>11. CASE UNCHANGED vars
    BY <1>11, RightStays DEF vars, TableInv, Right
  <1> QED
    BY <1>3, <1>4, <1>5, <1>6, <1>7, <1>8, <1>9, <1>10, <1>11 DEF Next

LEMMA TableInvariance == Spec => []TableInv
  <1>1. (Inv /\ TableInv) /\ [Next]_vars => (Inv /\ TableInv)'
    BY NextInv, NextTable
  <1> QED
    BY <1>1, InitInv, InitTable, PTL DEF Spec

(* An update that returns leaves the shortest paths in the routing table,  *)
(* for every graph with positive costs: every node has an entry, its cost  *)
(* is the distance, and its first hop is a neighbour that much closer.     *)
THEOREM TableHasShortestPaths == Spec => []TableIsShortest
  <1>1. TableInv => TableIsShortest
    BY DEF TableInv, Right, RightEntry, TableIsShortest
  <1> QED
    BY <1>1, TableInvariance, PTL

(* update_routing_table raises exactly when the edges name a node that     *)
(* cannot be reached from here.                                            *)
THEOREM RaisesExactlyWhenCutOff == Spec => []RaisesWhenCutOff
  <1>1. Inv /\ TableInv => RaisesWhenCutOff
    <2> SUFFICES ASSUME Inv, TableInv, phase = "idle", ~raised, NEW n \in CutOff(edges)
                 PROVE  FALSE
      BY DEF RaisesWhenCutOff, TableInv, Inv, TypeOK
    <2>1. n \in Others(edges) /\ Distances(edges, Self)[n] >= Infinity
      BY DEF CutOff
    <2>2. Distances(edges, Self)[n] < Infinity
      BY <2>1 DEF TableInv, Right, RightEntry
    <2>3. Distances(edges, Self)[n] \in 0 .. Infinity
      <3>1. IsGraph(edges)
        BY DEF Inv, TypeOK, IsGraph
      <3>2. n \in Nodes
        BY <2>1, <3>1, OthersAreNodes DEF IsGraph
      <3> QED
        BY <3>1, <3>2, WithinType, NodesAreCounted, NodesAssumption DEF Distances, Count
    <2> QED
      BY <2>1, <2>2, <2>3, InfinityAssumption
  <1> QED
    BY <1>1, Invariance, TableInvariance, PTL
=============================================================================
