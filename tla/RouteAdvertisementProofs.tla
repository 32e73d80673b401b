---------------------- MODULE RouteAdvertisementProofs ----------------------
(***************************************************************************)
(* Theorems about RouteAdvertisement, for every set of nodes and all       *)
(* scenarios: type correctness, that news never goes back, that no two     *)
(* advertisements of a node carry one epoch and sequence; and, in a mesh   *)
(* without a cycle where nothing fails, that advertisements come once and  *)
(* in time; if it has at most three nodes, that handlers live on and that  *)
(* every node ends up with the edges of its mesh.                          *)
(***************************************************************************)
EXTENDS RouteAdvertisement, WellOrdering, FiniteSetTheorems, TLAPS

Pairs == {{a, b} : a, b \in Nodes}
Graphs == UNION {[P -> {Near, Far}] : P \in SUBSET Pairs}
Reports == [epoch : Nat, sequence : Nat, connections : Graphs]
Tables == UNION {[D -> Reports] : D \in SUBSET Nodes}
Advertisements ==
  [origin : Nodes, epoch : Nat, sequence : Nat \ {0}, connections : Graphs,
   names : SUBSET Nodes]

LinksType ==
  /\ link \subseteq scenario.links
  /\ conns \in [Nodes -> SUBSET Nodes]
  /\ met \in [Nodes -> SUBSET Nodes]
  /\ manifest \in [Nodes -> SUBSET Nodes]
  /\ \A n \in Nodes : conns[n] \subseteq met[n] /\ met[n] \subseteq manifest[n]
LivesType ==
  /\ epoch \in [Nodes -> Nat \ {0}]
  /\ seq \in [Nodes -> Nat]
  /\ \A n \in Nodes : seq[n] <= scenario.sequence
KnownType ==
  /\ known \in [Nodes -> Tables]
  /\ \A n \in Nodes : n \notin DOMAIN known[n]
EdgesType == edges \in [Nodes -> Graphs]
TasksType ==
  /\ timer \in [Nodes -> {"off", "plain", "forced"}]
  /\ deaf \in [Nodes -> SUBSET Nodes]
NetType == net \in [Nodes -> [Nodes -> Seq(Advertisements)]]

TypeInv ==
  /\ scenario \in Scenarios
  /\ LinksType
  /\ LivesType
  /\ KnownType
  /\ EdgesType
  /\ TasksType
  /\ NetType

-----------------------------------------------------------------------------

(* What a table holds.                                                     *)
LEMMA TableType ==
  ASSUME NEW t \in Tables
  PROVE  /\ DOMAIN t \subseteq Nodes
         /\ \A o \in DOMAIN t : t[o] \in Reports
BY DEF Tables

(* A graph is a function on pairs of nodes with two costs.                 *)
LEMMA GraphType ==
  ASSUME NEW g
  PROVE  g \in Graphs <=> IsGraph(g)
<1>1. ASSUME g \in Graphs PROVE IsGraph(g)
  BY <1>1 DEF Graphs, IsGraph, Pairs
<1>2. ASSUME IsGraph(g) PROVE g \in Graphs
  <2>1. DOMAIN g \in SUBSET Pairs
    BY <1>2 DEF IsGraph, Pairs
  <2>2. g \in [DOMAIN g -> {Near, Far}]
    BY <1>2 DEF IsGraph
  <2> QED
    BY <2>1, <2>2 DEF Graphs
<1> QED
  BY <1>1, <1>2

(* What recalculate_routes builds is a graph of the nodes.                 *)
LEMMA RecalculatedType ==
  ASSUME TypeInv, NEW n \in Nodes, NEW report \in Tables,
         NEW g \in Recalculated(n, report)
  PROVE  g \in Graphs
<1> DEFINE near == {{n, m} : m \in conns[n]}
           own == near \union {{n, m} : m \in manifest[n]}
           claimed == UNION {DOMAIN report[o].connections : o \in DOMAIN report}
<1>1. g \in [own \union claimed -> {Near, Far}]
  BY DEF Recalculated
<1>2. own \subseteq Pairs
  BY DEF TypeInv, LinksType, Pairs
<1>3. claimed \subseteq Pairs
  <2> SUFFICES ASSUME NEW o \in DOMAIN report
               PROVE  DOMAIN report[o].connections \subseteq Pairs
    OBVIOUS
  <2>1. report[o].connections \in Graphs
    BY TableType DEF Reports
  <2> QED
    BY <2>1, GraphType DEF IsGraph, Pairs
<1>4. own \union claimed \in SUBSET Pairs
  BY <1>2, <1>3
<1> QED
  BY <1>1, <1>4 DEF Graphs

(* The advertisement of a node that has recalculated its routes.           *)
LEMMA AdvertisementType ==
  ASSUME TypeInv, NEW n \in Nodes, NEW g \in Graphs
  PROVE  Advertisement(n, g) \in Advertisements
<1> DEFINE part == [p \in {q \in DOMAIN g : n \in q} |-> g[p]]
<1>1. part \in Graphs
  <2>1. IsGraph(g)
    BY GraphType
  <2>2. IsGraph(part)
    BY <2>1 DEF IsGraph
  <2> QED
    BY <2>2, GraphType
<1>2. DOMAIN known[n] \in SUBSET Nodes
  BY TableType DEF TypeInv, KnownType
<1>3. epoch[n] \in Nat /\ seq[n] + 1 \in Nat \ {0}
  BY DEF TypeInv, LivesType
<1> QED
  BY <1>1, <1>2, <1>3 DEF Advertisement, Advertisements

(* The empty function is a graph, a report of nobody heard is a report.    *)
LEMMA UnheardType == Unheard \in Reports /\ <<>> \in Graphs
<1>1. IsGraph(<<>>)
  BY DEF IsGraph
<1> QED
  BY <1>1, GraphType DEF Unheard, Reports

(* What a node knows after it has recorded an advertisement of another.    *)
LEMMA RecordedType ==
  ASSUME TypeInv, NEW n \in Nodes, NEW adv \in Advertisements, adv.origin # n
  PROVE  Recorded(n, adv) \in Tables /\ n \notin DOMAIN Recorded(n, adv)
<1> DEFINE D == (Named(n, adv) \ Orphans(n, adv)) \union {adv.origin}
<1>1. DOMAIN known[n] \subseteq Nodes \ {n} /\ \A o \in DOMAIN known[n] : known[n][o] \in Reports
  BY TableType DEF TypeInv, KnownType
<1>2. D \in SUBSET Nodes /\ n \notin D
  BY <1>1 DEF Named, Advertisements
<1>3. \A o \in D : View(n, o) \in Reports
  BY <1>1, UnheardType DEF View
<1>4. Report(adv) \in Reports
  BY DEF Report, Reports, Advertisements
<1>5. Recorded(n, adv) \in [D -> Reports]
  BY <1>3, <1>4 DEF Recorded
<1> QED
  BY <1>2, <1>5 DEF Tables

(* Sends and relays append advertisements to the buffers of a node.        *)
LEMMA SentType ==
  ASSUME NEW N \in [Nodes -> [Nodes -> Seq(Advertisements)]], NEW n \in Nodes,
         NEW targets, NEW adv \in Advertisements, NetType
  PROVE  [N EXCEPT ![n] = Sent(n, targets, adv)] \in [Nodes -> [Nodes -> Seq(Advertisements)]]
<1>1. \A m \in Nodes : net[n][m] \in Seq(Advertisements)
  BY DEF NetType
<1>2. Sent(n, targets, adv) \in [Nodes -> Seq(Advertisements)]
  BY <1>1 DEF Sent
<1> QED
  BY <1>2

(* The head of what comes from m is an advertisement; the rest stays.      *)
LEMMA TakenType ==
  ASSUME TypeInv, NEW n \in Nodes, NEW m \in Nodes, NEW adv, Arrives(n, m, adv)
  PROVE  /\ adv \in Advertisements
         /\ Taken(n, m) \in [Nodes -> [Nodes -> Seq(Advertisements)]]
<1>1. net[m][n] \in Seq(Advertisements) /\ net[m][n] # <<>>
  BY DEF TypeInv, NetType, Arrives
<1>2. Head(net[m][n]) \in Advertisements /\ Tail(net[m][n]) \in Seq(Advertisements)
  BY <1>1
<1> QED
  BY <1>2 DEF Taken, TypeInv, NetType, Arrives

(* A timer is set to one of its three values.                              *)
LEMMA SoonType ==
  ASSUME TasksType, NEW n \in Nodes, NEW force \in BOOLEAN, Soon(n, force)
  PROVE  timer' \in [Nodes -> {"off", "plain", "forced"}]
BY DEF TasksType, Soon

LEMMA InitType == Init => TypeInv
<1> SUFFICES ASSUME Init PROVE TypeInv
  OBVIOUS
<1>1. \A s \in Scenarios : s.sequence \in Nat
  BY ScenariosAssumption
<1>2. <<>> \in Tables
  <2>1. <<>> \in [{} -> Reports]
    OBVIOUS
  <2> QED
    BY <2>1 DEF Tables
<1>3. LinksType /\ LivesType /\ TasksType /\ NetType
  BY <1>1 DEF Init, LinksType, LivesType, TasksType, NetType
<1>4. KnownType
  BY <1>2 DEF Init, KnownType
<1>5. EdgesType
  BY UnheardType DEF Init, EdgesType
<1> QED
  BY <1>3, <1>4, <1>5 DEF Init, TypeInv

(* What changes connections leaves what is known and the edges alone.      *)
LEMMA ConnectionStepsType ==
  ASSUME TypeInv, NEW n \in Nodes, NEW m \in Nodes,
         Up(n, m) \/ Register(n, m) \/ Down(n, m) \/ Unregister(n, m) \/ Overtake(n, m)
  PROVE  TypeInv'
<1>1. CASE Up(n, m)
  BY <1>1 DEF Up, TypeInv, LinksType, LivesType, KnownType, EdgesType, TasksType, NetType,
              lives, views, tasks
<1>2. CASE Register(n, m)
  <2>1. LinksType'
    BY <1>2 DEF Register, TypeInv, LinksType, bounds
  <2>2. TasksType'
    BY <1>2, SoonType DEF Register, TypeInv, TasksType
  <2> QED
    BY <1>2, <2>1, <2>2 DEF Register, TypeInv, LivesType, KnownType, EdgesType, NetType,
                            bounds, lives, views
<1>3. CASE Down(n, m)
  <2>1. NetType'
    <3>1. \A s \in Seq(Advertisements) : \A i \in 0 .. Len(s) :
            SubSeq(s, i + 1, Len(s)) \in Seq(Advertisements)
      OBVIOUS
    <3>2. net[n][m] \in Seq(Advertisements) /\ net[m][n] \in Seq(Advertisements)
      BY DEF TypeInv, NetType
    <3>3. PICK i \in 0 .. Len(net[n][m]), j \in 0 .. Len(net[m][n]) :
            net' = [net EXCEPT ![n][m] = SubSeq(@, i + 1, Len(@)),
                               ![m][n] = SubSeq(@, j + 1, Len(@))]
      BY <1>3 DEF Down
    <3> DEFINE here == SubSeq(net[n][m], i + 1, Len(net[n][m]))
               there == SubSeq(net[m][n], j + 1, Len(net[m][n]))
    <3>4. here \in Seq(Advertisements) /\ there \in Seq(Advertisements)
      BY <3>1, <3>2
    <3>5. net' = [net EXCEPT ![n][m] = here, ![m][n] = there]
      BY <3>3
    <3> HIDE DEF here, there
    <3> QED
      BY <3>4, <3>5 DEF TypeInv, NetType
  <2>2. LinksType'
    BY <1>3 DEF Down, Fault, TypeInv, LinksType
  <2> QED
    BY <1>3, <2>1, <2>2 DEF Down, Fault, TypeInv, LivesType, KnownType, EdgesType, TasksType,
                            lives, views, tasks
<1>4. CASE Unregister(n, m)
  <2>1. LinksType'
    BY <1>4 DEF Unregister, TypeInv, LinksType, bounds
  <2>2. TasksType'
    BY <1>4, SoonType DEF Unregister, TypeInv, TasksType
  <2> QED
    BY <1>4, <2>1, <2>2 DEF Unregister, TypeInv, LivesType, KnownType, EdgesType, NetType,
                            bounds, lives, views
<1>5. CASE Overtake(n, m)
  <2>1. NetType'
    <3>1. \A s \in Seq(Advertisements) : Len(s) > 1 =>
            <<s[2], s[1]>> \o SubSeq(s, 3, Len(s)) \in Seq(Advertisements)
      OBVIOUS
    <3>2. net[n][m] \in Seq(Advertisements)
      BY DEF TypeInv, NetType
    <3> QED
      BY <1>5, <3>1, <3>2 DEF Overtake, TypeInv, NetType
  <2> QED
    BY <1>5, <2>1 DEF Overtake, Fault, TypeInv, LinksType, LivesType, KnownType, EdgesType,
                      TasksType, links, lives, views, tasks
<1> QED
  BY <1>1, <1>2, <1>3, <1>4, <1>5

(* What a node does on its own account.                                    *)
LEMMA NodeStepsType ==
  ASSUME TypeInv, NEW n \in Nodes, Check(n) \/ Forget(n) \/ Restart(n)
  PROVE  TypeInv'
<1>1. CASE Check(n)
  <2>1. PICK g \in Recalculated(n, known[n]) : SendRoutes(n, g) \/ SendNothing(n, g)
    BY <1>1 DEF Check
  <2>2. known[n] \in Tables
    BY DEF TypeInv, KnownType
  <2>3. g \in Graphs
    BY <2>2, RecalculatedType
  <2>4. Rechecked(n, g)
    BY <2>1 DEF SendRoutes, SendNothing
  <2>5. LinksType' /\ KnownType' /\ EdgesType' /\ TasksType' /\ (scenario \in Scenarios)'
    BY <2>3, <2>4 DEF Rechecked, TypeInv, LinksType, KnownType, EdgesType, TasksType,
                      bounds, links, views
  <2>6. CASE SendRoutes(n, g)
    <3>1. scenario.sequence \in Nat /\ scenario' = scenario
      BY <2>4, ScenariosAssumption DEF TypeInv, Rechecked, bounds
    <3>2. LivesType'
      BY <2>4, <2>6, <3>1 DEF SendRoutes, Rechecked, NextSequence, TypeInv, LivesType
    <3>3. NetType'
      BY <2>3, <2>6, AdvertisementType, SentType DEF SendRoutes, TypeInv, NetType
    <3> QED
      BY <2>5, <3>2, <3>3 DEF TypeInv
  <2>7. CASE SendNothing(n, g)
    BY <2>4, <2>5, <2>7 DEF SendNothing, Rechecked, TypeInv, LivesType, NetType, bounds
  <2> QED
    BY <2>1, <2>6, <2>7
<1>2. CASE Forget(n)
  BY <1>2 DEF Forget, Fault, TypeInv, LinksType, LivesType, KnownType, EdgesType, TasksType,
              NetType, links, lives, tasks
<1>3. CASE Restart(n)
  <2>1. <<>> \in Tables
    <3>1. <<>> \in [{} -> Reports]
      OBVIOUS
    <3> QED
      BY <3>1 DEF Tables
  <2>2. LivesType'
    BY <1>3, ScenariosAssumption DEF Restart, Fault, TypeInv, LivesType
  <2>3. KnownType'
    BY <1>3, <2>1 DEF Restart, TypeInv, KnownType
  <2>4. EdgesType'
    BY <1>3, UnheardType DEF Restart, TypeInv, EdgesType
  <2>5. NetType'
    BY <1>3 DEF Restart, TypeInv, NetType
  <2>6. LinksType'
    BY <1>3 DEF Restart, Fault, TypeInv, LinksType
  <2>7. TasksType'
    BY <1>3 DEF Restart, TypeInv, TasksType
  <2> QED
    BY <1>3, <2>2, <2>3, <2>4, <2>5, <2>6, <2>7 DEF Restart, Fault, TypeInv
<1> QED
  BY <1>1, <1>2, <1>3

(* What the handler of a connection does.                                  *)
LEMMA HandleType ==
  ASSUME TypeInv, NEW n \in Nodes, NEW m \in Nodes, Handle(n, m)
  PROVE  TypeInv'
<1>1. PICK adv \in OnTheWay(m, n) :
        \/ Ignore(n, m, adv) \/ Reject(n, m, adv)
        \/ \E g \in Recalculated(n, Recorded(n, adv)) : Accept(n, m, adv, g)
  BY DEF Handle
<1>2. Arrives(n, m, adv)
  BY <1>1 DEF Ignore, Reject, Accept
<1>3. adv \in Advertisements /\ Taken(n, m) \in [Nodes -> [Nodes -> Seq(Advertisements)]]
  BY <1>2, TakenType
<1>4. LinksType' /\ LivesType' /\ (scenario \in Scenarios)'
  BY <1>2 DEF Arrives, TypeInv, LinksType, LivesType, bounds, links, lives
<1>5. CASE Ignore(n, m, adv)
  BY <1>3, <1>4, <1>5 DEF Ignore, TypeInv, KnownType, EdgesType, TasksType, NetType, views, tasks
<1>6. CASE Reject(n, m, adv)
  BY <1>3, <1>4, <1>6 DEF Reject, StopHearing, TypeInv, KnownType, EdgesType, TasksType, NetType
<1>7. ASSUME NEW g \in Recalculated(n, Recorded(n, adv)), Accept(n, m, adv, g) PROVE TypeInv'
  <2>1. adv.origin # n
    BY <1>7 DEF Accept, IsNews
  <2>2. Recorded(n, adv) \in Tables /\ n \notin DOMAIN Recorded(n, adv)
    BY <1>3, <2>1, RecordedType
  <2>3. KnownType'
    BY <1>7, <2>2 DEF Accept, TypeInv, KnownType
  <2>4. EdgesType'
    BY <1>7, <2>2, RecalculatedType DEF Accept, TypeInv, EdgesType
  <2>5. timer' \in [Nodes -> {"off", "plain", "forced"}]
    BY <1>7, SoonType DEF Accept, TypeInv, TasksType
  <2>6. deaf' \in [Nodes -> SUBSET Nodes]
    BY <1>7 DEF Accept, StopHearing, TypeInv, TasksType
  <2>7. NetType'
    <3>1. [Taken(n, m) EXCEPT ![n] = Sent(n, met[n] \ {m}, adv)]
            \in [Nodes -> [Nodes -> Seq(Advertisements)]]
      BY <1>3, SentType DEF TypeInv
    <3>2. \/ net' = Taken(n, m)
          \/ net' = [Taken(n, m) EXCEPT ![n] = Sent(n, met[n] \ {m}, adv)]
      BY <1>7 DEF Accept
    <3> QED
      BY <1>3, <3>1, <3>2 DEF NetType
  <2> QED
    BY <1>4, <2>3, <2>4, <2>5, <2>6, <2>7 DEF TypeInv, TasksType
<1> QED
  BY <1>1, <1>5, <1>6, <1>7

LEMMA NextType == TypeInv /\ [Next]_vars => TypeInv'
<1> SUFFICES ASSUME TypeInv, [Next]_vars PROVE TypeInv'
  OBVIOUS
<1>1. CASE UNCHANGED vars
  BY <1>1 DEF TypeInv, LinksType, LivesType, KnownType, EdgesType, TasksType, NetType,
              vars, bounds, links, lives, views, tasks
<1>2. CASE Next
  BY <1>2, ConnectionStepsType, NodeStepsType, HandleType DEF Next
<1> QED
  BY <1>1, <1>2

(* The well-typed state the runs check follows from the inductive one.     *)
LEMMA TypeInvImpliesTypeOK == TypeInv => TypeOK
<1> SUFFICES ASSUME TypeInv PROVE TypeOK
  OBVIOUS
<1>1. link \subseteq scenario.links
  BY DEF TypeInv, LinksType
<1> SUFFICES ASSUME NEW n \in Nodes
             PROVE  /\ conns[n] \subseteq met[n] /\ met[n] \subseteq manifest[n]
                    /\ manifest[n] \subseteq Nodes
                    /\ epoch[n] \in Nat \ {0} /\ seq[n] \in 0 .. scenario.sequence
                    /\ DOMAIN known[n] \subseteq Nodes \ {n}
                    /\ \A o \in DOMAIN known[n] : IsReport(known[n][o])
                    /\ IsGraph(edges[n])
                    /\ timer[n] \in {"off", "plain", "forced"}
                    /\ deaf[n] \subseteq Nodes
                    /\ \A m \in Nodes : \A i \in DOMAIN net[n][m] : IsAdvertisement(net[n][m][i])
  BY <1>1 DEF TypeOK
<1>2. /\ conns[n] \subseteq met[n] /\ met[n] \subseteq manifest[n] /\ manifest[n] \subseteq Nodes
  BY DEF TypeInv, LinksType
<1>3. epoch[n] \in Nat \ {0} /\ seq[n] \in 0 .. scenario.sequence
  BY ScenariosAssumption DEF TypeInv, LivesType
<1>4. DOMAIN known[n] \subseteq Nodes \ {n}
  BY TableType DEF TypeInv, KnownType
<1>5. ASSUME NEW o \in DOMAIN known[n] PROVE IsReport(known[n][o])
  <2>1. known[n][o] \in Reports
    BY TableType DEF TypeInv, KnownType
  <2> QED
    BY <2>1, GraphType DEF IsReport, Reports
<1>6. IsGraph(edges[n])
  BY GraphType DEF TypeInv, EdgesType
<1>7. timer[n] \in {"off", "plain", "forced"} /\ deaf[n] \subseteq Nodes
  BY DEF TypeInv, TasksType
<1>8. ASSUME NEW m \in Nodes, NEW i \in DOMAIN net[n][m] PROVE IsAdvertisement(net[n][m][i])
  <2>1. net[n][m] \in Seq(Advertisements)
    BY DEF TypeInv, NetType
  <2>2. net[n][m][i] \in Advertisements
    BY <2>1
  <2> QED
    BY <2>2, GraphType DEF IsAdvertisement, IsReport, Advertisements
<1> QED
  BY <1>2, <1>3, <1>4, <1>5, <1>6, <1>7, <1>8

(* Every node's state is well typed: advertisements carry a sequence from  *)
(* 1, graphs join nodes, nobody keeps a report of itself.                  *)
THEOREM TypeCorrect == Spec => []TypeOK
<1>1. TypeInv /\ [Next]_vars => TypeInv'
  BY NextType
<1> QED
  BY <1>1, InitType, TypeInvImpliesTypeOK, PTL DEF Spec

-----------------------------------------------------------------------------

(* What Accept records is the advertisement; of the others it forgets some *)
(* and changes none.                                                       *)
LEMMA RecordedIsLater ==
  ASSUME TypeInv, NEW n \in Nodes, NEW adv \in Advertisements, ~Stale(n, adv),
         NEW o \in DOMAIN known[n] \intersect DOMAIN Recorded(n, adv)
  PROVE  \/ Recorded(n, adv)[o] = known[n][o]
         \/ Later(known[n][o], Recorded(n, adv)[o])
<1>1. CASE o # adv.origin
  BY <1>1 DEF Recorded, View
<1>2. CASE o = adv.origin
  <2>1. Recorded(n, adv)[o] = Report(adv)
    BY <1>2 DEF Recorded
  <2>2. known[n][o] \in Reports
    BY TableType DEF TypeInv, KnownType
  <2>3. ~(known[n][o].epoch > adv.epoch) /\ ~(known[n][o].sequence >= adv.sequence)
    BY <1>2 DEF Stale
  <2>4. known[n][o].epoch \in Nat /\ known[n][o].sequence \in Nat
    BY <2>2 DEF Reports
  <2>5. adv.epoch \in Nat /\ adv.sequence \in Nat
    BY DEF Advertisements
  <2>6. Report(adv).epoch = adv.epoch /\ Report(adv).sequence = adv.sequence
    BY DEF Report
  <2> QED
    BY <2>1, <2>3, <2>4, <2>5, <2>6 DEF Later
<1> QED
  BY <1>1, <1>2

(* What a node knows of another changes by later news only.                *)
THEOREM NewsGoesForward == Spec => NewsNeverGoesBack
<1> DEFINE Step ==
      \A n \in Nodes : epoch'[n] = epoch[n] =>
        \A o \in DOMAIN known[n] \intersect DOMAIN known'[n] :
          known'[n][o] = known[n][o] \/ Later(known[n][o], known'[n][o])
<1>1. TypeInv /\ [Next]_vars => Step
  <2> SUFFICES ASSUME TypeInv, [Next]_vars PROVE Step
    OBVIOUS
  <2>1. CASE known' = known
    BY <2>1
  <2>2. ASSUME NEW k \in Nodes, Restart(k) PROVE Step
    <3>1. known \in [Nodes -> Tables] /\ epoch \in [Nodes -> Nat \ {0}]
      BY DEF TypeInv, KnownType, LivesType
    <3>2. epoch'[k] # epoch[k]
      BY <2>2, <3>1 DEF Restart
    <3>3. \A n \in Nodes \ {k} : known'[n] = known[n]
      BY <2>2, <3>1 DEF Restart
    <3> QED
      BY <3>2, <3>3
  <2>3. ASSUME NEW k \in Nodes, NEW m \in Nodes, NEW adv, NEW g, Accept(k, m, adv, g)
        PROVE  Step
    <3>1. adv \in Advertisements
      BY <2>3, TakenType DEF Accept
    <3>2. known \in [Nodes -> Tables]
      BY DEF TypeInv, KnownType
    <3>3. known'[k] = Recorded(k, adv) /\ \A n \in Nodes \ {k} : known'[n] = known[n]
      BY <2>3, <3>2 DEF Accept
    <3>4. ~Stale(k, adv)
      BY <2>3 DEF Accept
    <3> QED
      BY <3>1, <3>3, <3>4, RecordedIsLater
  <2>4. CASE UNCHANGED vars
    BY <2>1, <2>4 DEF vars, views
  <2>5. ASSUME NEW k \in Nodes, NEW m \in Nodes,
               \/ Up(k, m) \/ Register(k, m) \/ Down(k, m) \/ Unregister(k, m)
               \/ Overtake(k, m) \/ Check(k) \/ Forget(k)
        PROVE  Step
    BY <2>1, <2>5 DEF Up, Register, Down, Unregister, Overtake, Check, SendRoutes,
                      SendNothing, Rechecked, Forget, views
  <2>6. ASSUME NEW k \in Nodes, NEW m \in Nodes, Handle(k, m) PROVE Step
    <3>1. PICK adv \in OnTheWay(m, k) :
            \/ Ignore(k, m, adv) \/ Reject(k, m, adv)
            \/ \E g \in Recalculated(k, Recorded(k, adv)) : Accept(k, m, adv, g)
      BY <2>6 DEF Handle
    <3>2. CASE Ignore(k, m, adv) \/ Reject(k, m, adv)
      BY <2>1, <3>2 DEF Ignore, Reject, views
    <3> QED
      BY <2>3, <3>1, <3>2
  <2> QED
    BY <2>2, <2>4, <2>5, <2>6 DEF Next
<1>2. TypeInv /\ [Next]_vars => TypeInv'
  BY NextType
<1>3. TypeInv /\ [Next]_vars => [Step]_vars
  BY <1>1
<1> QED
  BY <1>2, <1>3, InitType, PTL DEF Spec, NewsNeverGoesBack

-----------------------------------------------------------------------------

(* The inductive invariant of OneStatementPerId: nothing is said under an  *)
(* epoch and sequence that its origin has not used yet.                    *)
Used(s) ==
  \/ s.epoch < epoch[s.origin]
  \/ s.epoch = epoch[s.origin] /\ s.sequence <= seq[s.origin]
Past == \A s \in Statements : Used(s)

Inv == TypeInv /\ Past /\ OneStatementPerId

Elements(s) == {s[i] : i \in DOMAIN s}

(* What is cut off, exchanged or appended adds nothing else.               *)
LEMMA ElementsOf ==
  ASSUME NEW S, NEW s \in Seq(S)
  PROVE  /\ \A i \in 0 .. Len(s) : Elements(SubSeq(s, i + 1, Len(s))) \subseteq Elements(s)
         /\ Len(s) > 1 =>
              Elements(<<s[2], s[1]>> \o SubSeq(s, 3, Len(s))) \subseteq Elements(s)
         /\ \A x : Elements(Append(s, x)) \subseteq Elements(s) \union {x}
         /\ s # <<>> => Elements(Tail(s)) \subseteq Elements(s) /\ Head(s) \in Elements(s)
<1>1. \A i \in 0 .. Len(s) : Elements(SubSeq(s, i + 1, Len(s))) \subseteq Elements(s)
  BY DEF Elements
<1>2. ASSUME Len(s) > 1
      PROVE  Elements(<<s[2], s[1]>> \o SubSeq(s, 3, Len(s))) \subseteq Elements(s)
  BY <1>2 DEF Elements
<1>3. ASSUME NEW x PROVE Elements(Append(s, x)) \subseteq Elements(s) \union {x}
  BY DEF Elements
<1>4. ASSUME s # <<>> PROVE Elements(Tail(s)) \subseteq Elements(s) /\ Head(s) \in Elements(s)
  BY <1>4 DEF Elements
<1> QED
  BY <1>1, <1>2, <1>3, <1>4

(* Statements come from what is known and from what is under way.          *)
LEMMA StatementsFrom ==
  /\ \A n \in Nodes : \A o \in DOMAIN known[n] : Says(o, known[n][o]) \in Statements
  /\ \A n, m \in Nodes : \A adv \in OnTheWay(n, m) : Says(adv.origin, adv) \in Statements
  /\ \A n, m \in Nodes : \A adv \in Elements(net[n][m]) : Says(adv.origin, adv) \in Statements
<1>1. \A n, m \in Nodes : OnTheWay(n, m) = Elements(net[n][m])
  BY DEF OnTheWay, Elements
<1>2. \A n, m \in Nodes : \A adv \in OnTheWay(n, m) : Says(adv.origin, adv) \in Statements
  BY DEF Statements, UnderWay
<1>3. \A n \in Nodes : \A o \in DOMAIN known[n] : Says(o, known[n][o]) \in Statements
  BY DEF Statements, Known
<1> QED
  BY <1>1, <1>2, <1>3

(* A step says nothing but what is in X when neither tables nor buffers do. *)
LEMMA StatementsOf ==
  ASSUME NEW X,
         \A n \in Nodes : \A o \in DOMAIN known'[n] : Says(o, known'[n][o]) \in X,
         \A n, m \in Nodes : \A adv \in Elements(net'[n][m]) : Says(adv.origin, adv) \in X
  PROVE  Statements' \subseteq X
BY DEF Statements, Known, UnderWay, OnTheWay, Says, Elements

(* What a named node has said that was never heard.                        *)
Unsaid == {Says(o, Unheard) : o \in Nodes}

(* Connections add nothing to what is under way.                           *)
LEMMA ConnectionStepsSayNothing ==
  ASSUME TypeInv, NEW n \in Nodes, NEW m \in Nodes,
         Up(n, m) \/ Register(n, m) \/ Down(n, m) \/ Unregister(n, m) \/ Overtake(n, m)
  PROVE  Statements' \subseteq Statements
<1>1. known' = known
  BY DEF Up, Register, Down, Unregister, Overtake, views
<1>2. net \in [Nodes -> [Nodes -> Seq(Advertisements)]]
  BY DEF TypeInv, NetType
<1>3. \A a, b \in Nodes : Elements(net'[a][b]) \subseteq Elements(net[a][b])
  <2>1. CASE net' = net
    BY <2>1
  <2>2. CASE Down(n, m)
    <3>1. PICK i \in 0 .. Len(net[n][m]), j \in 0 .. Len(net[m][n]) :
            net' = [net EXCEPT ![n][m] = SubSeq(@, i + 1, Len(@)),
                               ![m][n] = SubSeq(@, j + 1, Len(@))]
      BY <2>2 DEF Down
    <3> DEFINE here == SubSeq(net[n][m], i + 1, Len(net[n][m]))
               there == SubSeq(net[m][n], j + 1, Len(net[m][n]))
    <3>2. Elements(here) \subseteq Elements(net[n][m])
      BY <1>2, ElementsOf
    <3>3. Elements(there) \subseteq Elements(net[m][n])
      BY <1>2, ElementsOf
    <3>4. net' = [net EXCEPT ![n][m] = here, ![m][n] = there]
      BY <3>1
    <3> HIDE DEF here, there
    <3> SUFFICES ASSUME NEW a \in Nodes, NEW b \in Nodes
                 PROVE  \/ net'[a][b] = net[a][b]
                        \/ a = n /\ b = m /\ net'[a][b] = here
                        \/ a = m /\ b = n /\ net'[a][b] = there
      BY <3>2, <3>3
    <3> QED
      BY <1>2, <3>4
  <2>3. CASE Overtake(n, m)
    <3> DEFINE other == <<net[n][m][2], net[n][m][1]>> \o SubSeq(net[n][m], 3, Len(net[n][m]))
    <3>1. Elements(other) \subseteq Elements(net[n][m])
      BY <1>2, <2>3, ElementsOf DEF Overtake
    <3>2. net' = [net EXCEPT ![n][m] = other]
      BY <2>3 DEF Overtake
    <3> HIDE DEF other
    <3> QED
      BY <1>2, <3>1, <3>2
  <2> QED
    BY <2>1, <2>2, <2>3 DEF Up, Register, Unregister
<1>4. \A k \in Nodes : \A o \in DOMAIN known'[k] : Says(o, known'[k][o]) \in Statements
  BY <1>1, StatementsFrom
<1>5. \A a, b \in Nodes : \A adv \in Elements(net'[a][b]) : Says(adv.origin, adv) \in Statements
  BY <1>3, StatementsFrom
<1> QED
  BY <1>4, <1>5, StatementsOf

(* A restart forgets, an expired id says nothing.                          *)
LEMMA NodeStepsSayNothing ==
  ASSUME TypeInv, NEW n \in Nodes,
         Forget(n) \/ Restart(n) \/ \E g : SendNothing(n, g)
  PROVE  Statements' \subseteq Statements
<1>1. CASE known' = known /\ net' = net
  BY <1>1, StatementsFrom, StatementsOf DEF OnTheWay, Elements
<1>2. CASE Restart(n)
  <2>1. known \in [Nodes -> Tables] /\ net \in [Nodes -> [Nodes -> Seq(Advertisements)]]
    BY DEF TypeInv, KnownType, NetType
  <2>2. DOMAIN known'[n] = {} /\ \A k \in Nodes \ {n} : known'[k] = known[k]
    BY <1>2, <2>1 DEF Restart
  <2>3. \A a, b \in Nodes : Elements(net'[a][b]) \subseteq Elements(net[a][b])
    BY <1>2, <2>1 DEF Restart, Elements
  <2> QED
    BY <2>2, <2>3, StatementsFrom, StatementsOf DEF OnTheWay, Elements
<1> QED
  BY <1>1, <1>2 DEF Forget, SendNothing, Rechecked, views

(* Handlers record and relay what has been said.                           *)
LEMMA HandleSaysNothing ==
  ASSUME TypeInv, NEW n \in Nodes, NEW m \in Nodes, Handle(n, m)
  PROVE  Statements' \subseteq Statements \union Unsaid
<1>1. PICK adv \in OnTheWay(m, n) :
        \/ Ignore(n, m, adv) \/ Reject(n, m, adv)
        \/ \E g \in Recalculated(n, Recorded(n, adv)) : Accept(n, m, adv, g)
  BY DEF Handle
<1>2. Arrives(n, m, adv)
  BY <1>1 DEF Ignore, Reject, Accept
<1>3. adv \in Advertisements /\ Says(adv.origin, adv) \in Statements
  BY <1>1, <1>2, TakenType, StatementsFrom
<1>4. known \in [Nodes -> Tables] /\ net \in [Nodes -> [Nodes -> Seq(Advertisements)]]
  BY DEF TypeInv, KnownType, NetType
<1>5. /\ Taken(n, m) \in [Nodes -> [Nodes -> Seq(Advertisements)]]
      /\ \A a, b \in Nodes : Elements(Taken(n, m)[a][b]) \subseteq Elements(net[a][b])
  <2>1. Elements(Tail(net[m][n])) \subseteq Elements(net[m][n])
    <3>1. net[m][n] \in Seq(Advertisements) /\ net[m][n] # <<>>
      BY <1>2, <1>4 DEF Arrives
    <3> QED
      BY <3>1, ElementsOf
  <2> QED
    BY <1>2, <1>4, <2>1, TakenType DEF Taken
<1>6. \A a, b \in Nodes : Elements(net'[a][b]) \subseteq Elements(net[a][b]) \union {adv}
  <2>1. CASE net' = Taken(n, m)
    BY <1>5, <2>1
  <2>2. CASE net' = [Taken(n, m) EXCEPT ![n] = Sent(n, met[n] \ {m}, adv)]
    <3>1. ASSUME NEW b \in Nodes
          PROVE  Elements(Append(net[n][b], adv)) \subseteq Elements(net[n][b]) \union {adv}
      <4>1. net[n][b] \in Seq(Advertisements)
        BY <1>4
      <4> QED
        BY <4>1, ElementsOf
    <3>2. \A b \in Nodes : Elements(net'[n][b]) \subseteq Elements(net[n][b]) \union {adv}
      BY <1>5, <2>2, <3>1 DEF Sent
    <3>3. \A a \in Nodes \ {n} : net'[a] = Taken(n, m)[a]
      BY <1>5, <2>2
    <3> QED
      BY <1>5, <3>2, <3>3
  <2> QED
    BY <1>1, <2>1, <2>2 DEF Ignore, Reject, Accept
<1>7. \A k \in Nodes : \A o \in DOMAIN known'[k] :
        Says(o, known'[k][o]) \in Statements \union Unsaid
  <2>1. CASE known' = known
    BY <2>1, StatementsFrom
  <2>2. CASE known' = [known EXCEPT ![n] = Recorded(n, adv)]
    <3>1. \A k \in Nodes \ {n} : known'[k] = known[k]
      BY <1>4, <2>2
    <3>2. ASSUME NEW o \in DOMAIN Recorded(n, adv)
          PROVE  Says(o, Recorded(n, adv)[o]) \in Statements \union Unsaid
      <4>1. CASE o = adv.origin
        BY <1>3, <4>1 DEF Recorded, Report, Says
      <4>2. CASE o # adv.origin /\ o \in DOMAIN known[n]
        BY <4>2, StatementsFrom DEF Recorded, View
      <4>3. CASE o # adv.origin /\ o \notin DOMAIN known[n]
        <5>1. o \in Nodes
          BY <1>3, <4>3 DEF Recorded, Named, Advertisements
        <5> QED
          BY <4>3, <5>1 DEF Recorded, View, Unsaid
      <4> QED
        BY <4>1, <4>2, <4>3
    <3>3. known'[n] = Recorded(n, adv)
      BY <1>4, <2>2
    <3> QED
      BY <3>1, <3>2, <3>3, StatementsFrom
  <2> QED
    BY <1>1, <2>1, <2>2 DEF Ignore, Reject, Accept, views
<1>8. \A a, b \in Nodes : \A x \in Elements(net'[a][b]) :
        Says(x.origin, x) \in Statements \union Unsaid
  BY <1>3, <1>6, StatementsFrom
<1> QED
  BY <1>7, <1>8, StatementsOf

(* A node that sends says one thing, under its next sequence.              *)
LEMMA SendSaysOneThing ==
  ASSUME TypeInv, NEW n \in Nodes, NEW g \in Graphs, SendRoutes(n, g)
  PROVE  Statements' \subseteq Statements \union {Says(n, Advertisement(n, g))}
<1> DEFINE adv == Advertisement(n, g)
<1>1. known' = known
  BY DEF SendRoutes, Rechecked, views
<1>2. net \in [Nodes -> [Nodes -> Seq(Advertisements)]]
  BY DEF TypeInv, NetType
<1>3. net' = [net EXCEPT ![n] = Sent(n, conns[n], adv)]
  BY DEF SendRoutes
<1>4. adv.origin = n
  BY DEF Advertisement
<1> HIDE DEF adv
<1>5. ASSUME NEW b \in Nodes
      PROVE  Elements(Append(net[n][b], adv)) \subseteq Elements(net[n][b]) \union {adv}
  <2>1. net[n][b] \in Seq(Advertisements)
    BY <1>2
  <2> QED
    BY <2>1, ElementsOf
<1>6. \A a, b \in Nodes : Elements(net'[a][b]) \subseteq Elements(net[a][b]) \union {adv}
  BY <1>2, <1>3, <1>5 DEF Sent
<1>7. Statements' \subseteq Statements \union {Says(n, adv)}
  <2> DEFINE X == Statements \union {Says(n, adv)}
  <2>1. \A k \in Nodes : \A o \in DOMAIN known'[k] : Says(o, known'[k][o]) \in X
    BY <1>1, StatementsFrom
  <2>2. ASSUME NEW a \in Nodes, NEW b \in Nodes, NEW x \in Elements(net'[a][b])
        PROVE  Says(x.origin, x) \in X
    <3>1. CASE x = adv
      BY <1>4, <3>1
    <3>2. CASE x \in Elements(net[a][b])
      BY <3>2, StatementsFrom DEF OnTheWay, Elements
    <3> QED
      BY <1>6, <3>1, <3>2
  <2> HIDE DEF X
  <2>3. Statements' \subseteq X
    BY <2>1, <2>2, StatementsOf
  <2> QED
    BY <2>3 DEF X
<1> QED
  BY <1>7 DEF adv

LEMMA StatementType ==
  ASSUME TypeInv
  PROVE  Statements \subseteq [origin : Nodes, epoch : Nat, sequence : Nat, connections : Graphs]
<1> DEFINE X == [origin : Nodes, epoch : Nat, sequence : Nat, connections : Graphs]
<1>1. ASSUME NEW n \in Nodes, NEW o \in DOMAIN known[n] PROVE Says(o, known[n][o]) \in X
  <2>1. o \in Nodes /\ known[n][o] \in Reports
    BY TableType DEF TypeInv, KnownType
  <2> QED
    BY <2>1 DEF Says, Reports
<1>2. ASSUME NEW n \in Nodes, NEW m \in Nodes, NEW adv \in OnTheWay(n, m)
      PROVE  Says(adv.origin, adv) \in X
  <2>1. net[n][m] \in Seq(Advertisements)
    BY DEF TypeInv, NetType
  <2>2. adv \in Advertisements
    BY <2>1 DEF OnTheWay
  <2> QED
    BY <2>2 DEF Says, Advertisements
<1> HIDE DEF X
<1>3. Statements \subseteq X
  BY <1>1, <1>2 DEF Statements, Known, UnderWay
<1> QED
  BY <1>3 DEF X

(* A life and its sequence only grow.                                      *)
LEMMA UsedStays ==
  ASSUME TypeInv, [Next]_vars, NEW s \in Statements, Used(s)
  PROVE  Used(s)'
<1>1. s.origin \in Nodes /\ s.epoch \in Nat /\ s.sequence \in Nat
  BY StatementType
<1>2. epoch \in [Nodes -> Nat \ {0}] /\ seq \in [Nodes -> Nat]
  BY DEF TypeInv, LivesType
<1>3. CASE epoch' = epoch /\ seq' = seq
  BY <1>3 DEF Used
<1>4. ASSUME NEW n \in Nodes, Restart(n) PROVE Used(s)'
  BY <1>1, <1>2, <1>4 DEF Restart, Used
<1>5. ASSUME NEW n \in Nodes, NEW g, SendRoutes(n, g) PROVE Used(s)'
  BY <1>1, <1>2, <1>5 DEF SendRoutes, Rechecked, NextSequence, Used
<1>6. ASSUME NEW n \in Nodes, Check(n) PROVE Used(s)'
  BY <1>3, <1>5, <1>6 DEF Check, SendNothing, Rechecked
<1>7. ASSUME NEW n \in Nodes, NEW m \in Nodes,
             \/ Up(n, m) \/ Register(n, m) \/ Down(n, m) \/ Unregister(n, m)
             \/ Overtake(n, m) \/ Forget(n) \/ Handle(n, m)
      PROVE  Used(s)'
  BY <1>3, <1>7 DEF Up, Register, Down, Unregister, Overtake, Forget, Handle, Ignore, Reject,
                    Accept, Arrives, lives
<1>8. CASE UNCHANGED vars
  BY <1>3, <1>8 DEF vars, lives
<1> QED
  BY <1>4, <1>6, <1>7, <1>8 DEF Next

LEMMA InitInv == Init => Inv
<1> SUFFICES ASSUME Init PROVE Inv
  OBVIOUS
<1>1. TypeInv
  BY InitType
<1>2. Statements = {}
  BY DEF Init, Statements, Known, UnderWay, OnTheWay
<1> QED
  BY <1>1, <1>2 DEF Inv, Past, OneStatementPerId

LEMMA NextInv == Inv /\ [Next]_vars => Inv'
<1> SUFFICES ASSUME Inv, [Next]_vars PROVE Inv'
  OBVIOUS
<1>1. TypeInv /\ TypeInv'
  BY NextType DEF Inv
<1>2. \A s \in Statements : Used(s) /\ Used(s)'
  BY <1>1, UsedStays DEF Inv, Past
<1>3. CASE Statements' \subseteq Statements \union Unsaid
  <2>1. \A s \in Unsaid : s.sequence = 0 /\ Used(s)'
    BY <1>1 DEF Unsaid, Says, Unheard, Used, TypeInv, LivesType
  <2>2. Past'
    BY <1>2, <1>3, <2>1 DEF Past
  <2>3. OneStatementPerId'
    <3> SUFFICES ASSUME NEW s \in Statements', NEW t \in Statements',
                        s.sequence > 0, Id(s) = Id(t)
                 PROVE  s = t
      BY DEF OneStatementPerId, Id
    <3>1. t.sequence = s.sequence
      BY DEF Id
    <3>2. s \in Statements /\ t \in Statements
      BY <1>3, <2>1, <3>1
    <3> QED
      BY <3>2 DEF Inv, OneStatementPerId
  <2> QED
    BY <1>1, <2>2, <2>3 DEF Inv
<1>4. ASSUME NEW n \in Nodes, NEW g \in Graphs, SendRoutes(n, g) PROVE Inv'
  <2>0. PICK new : new = Says(n, Advertisement(n, g))
    OBVIOUS
  <2>1. Statements' \subseteq Statements \union {new}
    BY <1>1, <1>4, <2>0, SendSaysOneThing
  <2>2. new.origin = n /\ new.epoch = epoch[n] /\ new.sequence = seq[n] + 1
    BY <2>0 DEF Says, Advertisement
  <2>3. epoch'[n] = epoch[n] /\ seq'[n] = seq[n] + 1 /\ epoch[n] \in Nat /\ seq[n] \in Nat
    BY <1>1, <1>4 DEF SendRoutes, Rechecked, NextSequence, TypeInv, LivesType
  <2>4. Used(new)'
    BY <2>2, <2>3 DEF Used
  <2>5. \A s \in Statements : Id(s) # Id(new)
    <3> SUFFICES ASSUME NEW s \in Statements, Id(s) = Id(new) PROVE FALSE
      OBVIOUS
    <3>1. s.origin = n /\ s.epoch = epoch[n] /\ s.sequence = seq[n] + 1
      BY <2>2 DEF Id
    <3> QED
      BY <1>2, <2>3, <3>1 DEF Used
  <2>6. Past'
    BY <1>2, <2>1, <2>4 DEF Past
  <2>7. OneStatementPerId'
    <3> SUFFICES ASSUME NEW s \in Statements', NEW t \in Statements',
                        s.sequence > 0, Id(s) = Id(t)
                 PROVE  s = t
      BY DEF OneStatementPerId, Id
    <3>1. CASE s \in Statements /\ t \in Statements
      BY <3>1 DEF Inv, OneStatementPerId
    <3>2. CASE s = new \/ t = new
      BY <2>1, <2>5, <3>2
    <3> QED
      BY <2>1, <3>1, <3>2
  <2> QED
    BY <1>1, <2>6, <2>7 DEF Inv
<1>5. ASSUME NEW n \in Nodes, Check(n) PROVE Inv'
  <2>1. PICK g \in Recalculated(n, known[n]) : SendRoutes(n, g) \/ SendNothing(n, g)
    BY <1>5 DEF Check
  <2>2. g \in Graphs
    BY <1>1, RecalculatedType DEF TypeInv, KnownType
  <2> QED
    BY <1>1, <1>3, <1>4, <2>1, <2>2, NodeStepsSayNothing
<1>6. CASE UNCHANGED vars
  BY <1>3, <1>6 DEF vars, views, Statements, Known, UnderWay, OnTheWay, Says
<1> QED
  BY <1>1, <1>3, <1>5, <1>6, ConnectionStepsSayNothing, NodeStepsSayNothing, HandleSaysNothing
     DEF Next

(* Across relays, restarts, overtakings and expired ids, an epoch and      *)
(* sequence of a node stand for one set of connections.                    *)
THEOREM OneStatement == Spec => []OneStatementPerId
<1>1. Inv => OneStatementPerId
  BY DEF Inv
<1> QED
  BY <1>1, InitInv, NextInv, PTL DEF Spec

-----------------------------------------------------------------------------

(* One step of Reached: what an edge joins to what is reached.             *)
Spread(E, R) == R \union UNION {p \in E : p \intersect R # {}}

LEMMA SpreadType ==
  ASSUME NEW E \in SUBSET Pairs, NEW R \in SUBSET Nodes
  PROVE  Spread(E, R) \in SUBSET Nodes
BY DEF Spread, Pairs

(* What Reached computes, as a chain of such steps.                        *)
LEMMA ReachedUnfolds ==
  ASSUME NEW E \in SUBSET Pairs, NEW n \in Nodes, Cardinality(Nodes) \in Nat
  PROVE  \E W : /\ Reached(E, n) = W[Cardinality(Nodes)] /\ W[0] = {n}
               /\ \A k \in 1 .. Cardinality(Nodes) : W[k] = Spread(E, W[k - 1])
<1> DEFINE c == Cardinality(Nodes)
           step == [k \in Nat |-> [R \in SUBSET Nodes |-> Spread(E, R)]]
           F(f) == [k \in 0 .. c |-> IF k = 0 THEN {n} ELSE Spread(E, f[k - 1])]
<1>1. step \in [Nat -> [SUBSET Nodes -> SUBSET Nodes]]
  BY SpreadType
<1>2. PICK f : Iterates(f, SUBSET Nodes, {n}, step, c)
  <2> HIDE DEF step
  <2> QED
    BY <1>1, Iteration
<1>3. /\ f \in [0 .. c -> SUBSET Nodes] /\ f[0] = {n}
      /\ \A k \in 1 .. c : f[k] = step[k][f[k - 1]]
  BY <1>2 DEF Iterates
<1>4. ASSUME NEW k \in 1 .. c PROVE f[k - 1] \in SUBSET Nodes /\ f[k] = Spread(E, f[k - 1])
  <2>1. step[k] = [R \in SUBSET Nodes |-> Spread(E, R)]
    OBVIOUS
  <2> HIDE DEF step
  <2>2. k - 1 \in 0 .. c /\ f[k] = step[k][f[k - 1]]
    BY <1>3
  <2>3. f[k - 1] \in SUBSET Nodes
    BY <1>3, <2>2
  <2> QED
    BY <2>1, <2>2, <2>3
<1>5. f = F(f)
  BY <1>3, <1>4
<1>6. Reached(E, n) = (CHOOSE h : h = F(h))[c]
  BY DEF Reached, Spread
<1> HIDE DEF F
<1> DEFINE W == CHOOSE h : h = F(h)
<1>7. W = F(W)
  BY <1>5
<1> HIDE DEF W
<1>8. W[0] = {n} /\ \A k \in 1 .. c : W[k] = Spread(E, W[k - 1])
  <2>1. \A k \in 0 .. c : F(W)[k] = IF k = 0 THEN {n} ELSE Spread(E, W[k - 1])
    BY DEF F
  <2> QED
    BY <1>7, <2>1
<1> QED
  BY <1>6, <1>8 DEF W

(* In a mesh of two nodes or more, what two edges join to a node is reached.*)
LEMMA TwoEdgesAreReached ==
  ASSUME NEW E \in SUBSET Pairs, NEW n \in Nodes,
         Cardinality(Nodes) \in Nat, Cardinality(Nodes) >= 2
  PROVE  Spread(E, Spread(E, {n})) \subseteq Reached(E, n)
<1> DEFINE c == Cardinality(Nodes)
<1>1. PICK W : /\ Reached(E, n) = W[c] /\ W[0] = {n}
               /\ \A k \in 1 .. c : W[k] = Spread(E, W[k - 1])
  BY ReachedUnfolds
<1>2. W[2] = Spread(E, Spread(E, {n}))
  <2>0. 1 \in 1 .. c /\ 2 \in 1 .. c /\ 1 - 1 = 0 /\ 2 - 1 = 1
    OBVIOUS
  <2>1. W[1] = Spread(E, W[0])
    BY <1>1, <2>0
  <2>2. W[2] = Spread(E, W[1])
    BY <1>1, <2>0
  <2> QED
    BY <1>1, <2>1, <2>2
<1>3. W[2] \subseteq W[c]
  <2> DEFINE S == {k \in Nat : k + 2 <= c => W[2] \subseteq W[k + 2]}
  <2>1. 0 \in S
    OBVIOUS
  <2>2. ASSUME NEW k \in S PROVE k + 1 \in S
    <3>1. CASE k + 3 <= c
      <4>1. k + 3 \in 1 .. c /\ (k + 3) - 1 = k + 2 /\ (k + 1) + 2 = k + 3
        BY <3>1
      <4>2. W[k + 3] = Spread(E, W[k + 2])
        BY <1>1, <4>1
      <4>3. W[2] \subseteq W[k + 2]
        BY <3>1
      <4> QED
        BY <4>1, <4>2, <4>3 DEF Spread
    <3>2. CASE ~(k + 3 <= c)
      BY <3>2
    <3> QED
      BY <3>1, <3>2
  <2>3. S = Nat
    <3> HIDE DEF S
    <3>1. S \in SUBSET Nat
      BY DEF S
    <3> QED
      BY <2>1, <2>2, <3>1, AllOfNat
  <2>4. c - 2 \in S /\ (c - 2) + 2 = c
    BY <2>3
  <2> QED
    BY <2>4
<1> QED
  BY <1>1, <1>2, <1>3

(* A node without an edge reaches itself only.                             *)
LEMMA AloneReachesNobody ==
  ASSUME NEW E \in SUBSET Pairs, NEW n \in Nodes, \A p \in E : n \notin p,
         Cardinality(Nodes) \in Nat
  PROVE  Reached(E, n) = {n}
<1> DEFINE c == Cardinality(Nodes)
<1>1. PICK W : /\ Reached(E, n) = W[c] /\ W[0] = {n}
               /\ \A k \in 1 .. c : W[k] = Spread(E, W[k - 1])
  BY ReachedUnfolds
<1>2. Spread(E, {n}) = {n}
  BY DEF Spread
<1> DEFINE S == {k \in Nat : k <= c => W[k] = {n}}
<1>3. 0 \in S
  BY <1>1
<1>4. ASSUME NEW k \in S PROVE k + 1 \in S
  <2>1. CASE k + 1 <= c
    <3>1. k + 1 \in 1 .. c /\ (k + 1) - 1 = k /\ k <= c
      BY <2>1
    <3>2. W[k + 1] = Spread(E, W[k])
      BY <1>1, <3>1
    <3>3. W[k] = {n}
      BY <3>1
    <3>4. W[k + 1] = {n}
      BY <1>2, <3>2, <3>3
    <3> QED
      BY <3>4
  <2>2. CASE ~(k + 1 <= c)
    BY <2>2
  <2> QED
    BY <2>1, <2>2
<1>5. S = Nat
  <2> HIDE DEF S
  <2>1. S \in SUBSET Nat
    BY DEF S
  <2> QED
    BY <1>3, <1>4, <2>1, AllOfNat
<1>6. c \in S
  BY <1>5
<1> QED
  BY <1>1, <1>6

(* A graph has no edge from a node to itself.                              *)
Straight(g) == \A x \in Nodes : {x} \notin DOMAIN g

FewNodes == IsFiniteSet(Nodes) /\ Cardinality(Nodes) <= 3

(* Three nodes that differ are all there are.                              *)
LEMMA NoFourth ==
  ASSUME FewNodes, NEW a \in Nodes, NEW b \in Nodes, NEW c \in Nodes, NEW d \in Nodes,
         a # b, c # a, c # b
  PROVE  d \in {a, b, c} /\ Cardinality(Nodes) \in Nat /\ Cardinality(Nodes) >= 2
<1>1. IsFiniteSet({a}) /\ Cardinality({a}) = 1
  BY FS_Singleton
<1>2. IsFiniteSet({a} \union {b}) /\ Cardinality({a} \union {b}) = 2
  BY <1>1, FS_AddElement
<1>3. IsFiniteSet({a, b} \union {c}) /\ Cardinality({a, b} \union {c}) = 3
  <2>1. {a} \union {b} = {a, b}
    OBVIOUS
  <2> QED
    BY <1>2, <2>1, FS_AddElement
<1>4. Cardinality(Nodes) \in Nat
  BY FS_CardinalityType DEF FewNodes
<1>5. {a, b, c} \in SUBSET Nodes /\ {a, b, c} = {a, b} \union {c}
  OBVIOUS
<1>6. Cardinality({a, b, c}) <= Cardinality(Nodes)
      /\ (Cardinality(Nodes) = Cardinality({a, b, c}) => Nodes = {a, b, c})
  BY <1>5, FS_Subset DEF FewNodes
<1> QED
  BY <1>3, <1>4, <1>5, <1>6 DEF FewNodes

LEMMA TwoAreTwo ==
  ASSUME FewNodes, NEW a \in Nodes, NEW b \in Nodes, a # b
  PROVE  Cardinality(Nodes) \in Nat /\ Cardinality(Nodes) >= 2
<1>1. IsFiniteSet({a}) /\ Cardinality({a}) = 1
  BY FS_Singleton
<1>2. Cardinality({a} \union {b}) = 2
  BY <1>1, FS_AddElement
<1>3. {a} \union {b} \in SUBSET Nodes
  OBVIOUS
<1> QED
  BY <1>2, <1>3, FS_Subset, FS_CardinalityType DEF FewNodes

(* Among three nodes, one with a neighbour is never cut off.               *)
LEMMA NobodyIsCutOff ==
  ASSUME FewNodes, NEW g \in Graphs, Straight(g), NEW n \in Nodes, NEW m \in Nodes, n # m,
         {n, m} \in DOMAIN g
  PROVE  ~Raises(n, g)
<1>1. DOMAIN g \in SUBSET Pairs
  BY DEF Graphs
<1> DEFINE E == DOMAIN g
           first == Spread(E, {n})
           second == Spread(E, first)
<1>2. second \subseteq Reached(E, n)
  BY <1>1, TwoAreTwo, TwoEdgesAreReached
<1>3. n \in first /\ m \in first /\ first \subseteq second
  <2>1. {n, m} \intersect {n} # {}
    OBVIOUS
  <2> QED
    BY <2>1 DEF Spread
<1>4. ASSUME NEW e \in UNION E PROVE e \in second
  <2>1. PICK p \in E : e \in p
    OBVIOUS
  <2>2. PICK a \in Nodes, b \in Nodes : p = {a, b}
    BY <1>1 DEF Pairs
  <2>3. a # b
    BY <2>2 DEF Straight
  <2>4. CASE e \in {n, m}
    BY <1>3, <2>4
  <2>5. CASE e \notin {n, m}
    <3>1. PICK other \in p : other # e
      BY <2>2, <2>3
    <3>2. e \in Nodes /\ other \in Nodes
      BY <2>1, <2>2
    <3>3. other \in {n, m, e}
      BY <2>5, <3>2, NoFourth
    <3>4. p \intersect first # {}
      BY <1>3, <3>1, <3>3
    <3> QED
      BY <2>1, <3>4 DEF Spread
  <2> QED
    BY <2>4, <2>5
<1> HIDE DEF second, E
<1>5. UNION E \subseteq Reached(E, n)
  BY <1>2, <1>4
<1> QED
  BY <1>5 DEF Raises, E

-----------------------------------------------------------------------------

(* A mesh without a cycle: everybody can say which of its connections      *)
(* leads to whom, and of the two ends of a connection one always is on the *)
(* way of the other.                                                       *)
Guides(toward, pairs) ==
  \A n, m \in Nodes : n # m /\ {n, m} \in pairs =>
    /\ toward[n][m] = m
    /\ \A o \in Nodes \ {n, m} : toward[n][o] = m \/ toward[m][o] = n
IsForest(pairs) == \E toward \in [Nodes -> [Nodes -> Nodes]] : Guides(toward, pairs)

HistoryType ==
  /\ faults \in Nat
  /\ seen \in [Nodes -> SUBSET (Nodes \X Nat \X Nat)]

(* A node is no peer of its own; while nothing fails the keys of           *)
(* connections are pairs the scenario connects.                            *)
PeersFit ==
  /\ \A n \in Nodes : {n} \notin link /\ n \notin manifest[n]
  /\ faults = 0 => \A n \in Nodes : \A m \in met[n] : {n, m} \in scenario.links

(* While nothing fails all that is said, but of nodes never heard, is said *)
(* in the first life of its origin.                                        *)
StatementsFit ==
  \A s \in Statements :
    /\ Straight(s.connections)
    /\ faults = 0 => s.epoch = IF s.sequence = 0 THEN 0 ELSE 1
FirstLife == faults = 0 => \A n \in Nodes : epoch[n] = 1

(* What a node knows of another is what an advertisement has said.         *)
KnownIsSeen ==
  faults = 0 => \A n \in Nodes : \A o \in DOMAIN known[n] :
    known[n][o].sequence = 0 \/ Id(Says(o, known[n][o])) \in seen[n]

(* In the buffer for a connection the advertisements of an origin wait in  *)
(* their order.                                                            *)
Ordered(s) ==
  \A i, j \in DOMAIN s : i < j /\ s[i].origin = s[j].origin => s[i].sequence < s[j].sequence

(* An advertisement on the way from m to n comes away from its origin; m   *)
(* has made or seen it, n has seen older ones only.                        *)
Outward(toward, m, n, adv) ==
  /\ adv.origin # n /\ toward[n][adv.origin] = m
  /\ IF adv.origin = m THEN adv.sequence <= seq[m] ELSE Id(adv) \in seen[m]
  /\ \A id \in seen[n] : id[1] = adv.origin => id[3] < adv.sequence
OutwardInOrder(toward) ==
  \A m, n \in Nodes :
    Ordered(net[m][n]) /\ \A adv \in Elements(net[m][n]) : Outward(toward, m, n, adv)

(* What a node has seen, the one it came from has made or seen.            *)
SeenBefore(toward, n, id) ==
  LET m == toward[n][id[1]]
  IN  id[1] # n /\ IF m = id[1] THEN id[3] <= seq[m] ELSE id \in seen[m]
SeenOutward(toward) == \A n \in Nodes : \A id \in seen[n] : SeenBefore(toward, n, id)

InForest ==
  \A toward \in [Nodes -> [Nodes -> Nodes]] :
    faults = 0 /\ Guides(toward, scenario.links) =>
      OutwardInOrder(toward) /\ SeenOutward(toward)

MeshInv ==
  /\ TypeInv /\ HistoryType
  /\ PeersFit /\ StatementsFit /\ FirstLife /\ KnownIsSeen
  /\ InForest

LEMMA InitMesh == Init => MeshInv
<1> SUFFICES ASSUME Init PROVE MeshInv
  OBVIOUS
<1>1. TypeInv
  BY InitType
<1>2. Statements = {}
  BY DEF Init, Statements, Known, UnderWay, OnTheWay
<1>3. HistoryType /\ PeersFit /\ FirstLife /\ KnownIsSeen /\ StatementsFit
  BY <1>2 DEF Init, HistoryType, PeersFit, FirstLife, KnownIsSeen, StatementsFit
<1>4. InForest
  BY DEF Init, InForest, OutwardInOrder, SeenOutward, Ordered, Elements
<1> QED
  BY <1>1, <1>3, <1>4 DEF MeshInv

-----------------------------------------------------------------------------

(* What has gone first was older than what is left of its origin.          *)
LEMMA OrderedTail ==
  ASSUME NEW s \in Seq(Advertisements), s # <<>>, Ordered(s)
  PROVE  /\ Ordered(Tail(s))
         /\ \A b \in Elements(Tail(s)) :
              b.origin = Head(s).origin => Head(s).sequence < b.sequence
<1>1. Len(s) \in Nat /\ Len(s) >= 1 /\ DOMAIN s = 1 .. Len(s) /\ Head(s) = s[1]
  OBVIOUS
<1>2. /\ DOMAIN Tail(s) = 1 .. Len(s) - 1
      /\ \A i \in 1 .. Len(s) - 1 : Tail(s)[i] = s[i + 1]
  OBVIOUS
<1>3. Ordered(Tail(s))
  <2> SUFFICES ASSUME NEW i \in 1 .. Len(s) - 1, NEW j \in 1 .. Len(s) - 1, i < j,
                      s[i + 1].origin = s[j + 1].origin
               PROVE  s[i + 1].sequence < s[j + 1].sequence
    BY <1>2 DEF Ordered
  <2>1. i + 1 \in DOMAIN s /\ j + 1 \in DOMAIN s /\ i + 1 < j + 1
    BY <1>1
  <2> QED
    BY <2>1 DEF Ordered
<1>4. ASSUME NEW i \in 1 .. Len(s) - 1, s[i + 1].origin = s[1].origin
      PROVE  s[1].sequence < s[i + 1].sequence
  <2>1. 1 \in DOMAIN s /\ i + 1 \in DOMAIN s /\ 1 < i + 1
    BY <1>1
  <2> QED
    BY <1>4, <2>1 DEF Ordered
<1> QED
  BY <1>1, <1>2, <1>3, <1>4 DEF Elements

(* What is newer than all that waits of its origin may be added.           *)
LEMMA OrderedAppend ==
  ASSUME NEW s \in Seq(Advertisements), NEW x, Ordered(s),
         \A b \in Elements(s) : b.origin = x.origin => b.sequence < x.sequence
  PROVE  Ordered(Append(s, x))
<1>1. /\ Len(s) \in Nat /\ DOMAIN s = 1 .. Len(s) /\ DOMAIN Append(s, x) = 1 .. Len(s) + 1
      /\ Append(s, x)[Len(s) + 1] = x
      /\ \A i \in 1 .. Len(s) : Append(s, x)[i] = s[i]
  OBVIOUS
<1> SUFFICES ASSUME NEW i \in 1 .. Len(s) + 1, NEW j \in 1 .. Len(s) + 1, i < j,
                    Append(s, x)[i].origin = Append(s, x)[j].origin
             PROVE  Append(s, x)[i].sequence < Append(s, x)[j].sequence
  BY <1>1 DEF Ordered
<1>2. i \in DOMAIN s /\ Append(s, x)[i] = s[i]
  BY <1>1
<1>3. CASE j \in DOMAIN s
  BY <1>1, <1>2, <1>3 DEF Ordered
<1>4. CASE j = Len(s) + 1
  BY <1>1, <1>2, <1>4 DEF Elements
<1> QED
  BY <1>1, <1>3, <1>4

-----------------------------------------------------------------------------

(* The scenario stays; failures are counted.                               *)
LEMMA BoundsStep ==
  ASSUME HistoryType, [Next]_vars
  PROVE  scenario' = scenario /\ faults' \in Nat /\ (faults' = faults \/ faults' = faults + 1)
<1>1. CASE scenario' = scenario /\ faults' = faults
  BY <1>1 DEF HistoryType
<1>2. CASE Fault
  BY <1>2 DEF Fault, HistoryType
<1>3. ASSUME NEW n \in Nodes, Check(n) PROVE scenario' = scenario /\ faults' = faults
  BY <1>3 DEF Check, SendRoutes, SendNothing, Rechecked, bounds
<1>4. ASSUME NEW n \in Nodes, NEW m \in Nodes,
             Up(n, m) \/ Register(n, m) \/ Unregister(n, m)
      PROVE  scenario' = scenario /\ faults' = faults
  BY <1>4 DEF Up, Register, Unregister, bounds
<1>5. ASSUME NEW n \in Nodes, NEW m \in Nodes, Handle(n, m)
      PROVE  scenario' = scenario /\ faults' = faults
  BY <1>5 DEF Handle, Ignore, Reject, Accept, Arrives, bounds
<1>6. ASSUME NEW n \in Nodes, NEW m \in Nodes,
             Down(n, m) \/ Overtake(n, m) \/ Forget(n) \/ Restart(n)
      PROVE  Fault
  BY <1>6 DEF Down, Overtake, Forget, Restart
<1> QED
  BY <1>1, <1>2, <1>3, <1>4, <1>5, <1>6 DEF Next, vars, bounds

(* A step that is no failure, and what it may be.                          *)
LEMMA WithoutFailure ==
  ASSUME HistoryType, [Next]_vars, faults' = 0
  PROVE  /\ faults = 0
         /\ \/ UNCHANGED vars
            \/ \E n \in Nodes : Check(n)
            \/ \E n, m \in Nodes :
                 Up(n, m) \/ Register(n, m) \/ Unregister(n, m) \/ Handle(n, m)
<1>1. faults = 0
  BY BoundsStep DEF HistoryType
<1>2. ~Fault
  BY DEF Fault, HistoryType
<1>3. ASSUME NEW n \in Nodes, NEW m \in Nodes
      PROVE  ~Forget(n) /\ ~Restart(n) /\ ~Down(n, m) /\ ~Overtake(n, m)
  BY <1>2 DEF Forget, Restart, Down, Overtake
<1> QED
  BY <1>1, <1>3 DEF Next

LEMMA HistoryStep ==
  ASSUME TypeInv, HistoryType, [Next]_vars
  PROVE  HistoryType'
<1>1. faults' \in Nat
  BY BoundsStep
<1>2. CASE seen' = seen
  BY <1>1, <1>2 DEF HistoryType
<1>3. ASSUME NEW n \in Nodes, NEW m \in Nodes, NEW adv, Arrives(n, m, adv), See(n, adv)
      PROVE  HistoryType'
  <2>1. adv \in Advertisements
    BY <1>3, TakenType
  <2>2. Id(adv) \in Nodes \X Nat \X Nat
    BY <2>1 DEF Id, Advertisements
  <2> QED
    BY <1>1, <1>3, <2>2 DEF HistoryType, See
<1>4. ASSUME NEW n \in Nodes, Forget(n) \/ Restart(n) PROVE HistoryType'
  BY <1>1, <1>4 DEF Forget, Restart, HistoryType
<1>5. ASSUME NEW n \in Nodes, NEW m \in Nodes, Handle(n, m) PROVE HistoryType'
  BY <1>2, <1>3, <1>5 DEF Handle, Ignore, Reject, Accept, views
<1>6. ASSUME NEW n \in Nodes, NEW m \in Nodes,
             Up(n, m) \/ Register(n, m) \/ Down(n, m) \/ Unregister(n, m) \/ Overtake(n, m)
      PROVE  HistoryType'
  BY <1>2, <1>6 DEF Up, Register, Down, Unregister, Overtake, views
<1>7. ASSUME NEW n \in Nodes, Check(n) PROVE HistoryType'
  BY <1>2, <1>7 DEF Check, SendRoutes, SendNothing, Rechecked, views
<1> QED
  BY <1>2, <1>4, <1>5, <1>6, <1>7 DEF Next, vars, views

(* Only a pair of two is connected, only a connected peer is registered.   *)
LEMMA PeersStep ==
  ASSUME TypeInv, HistoryType, PeersFit, [Next]_vars
  PROVE  PeersFit'
<1>1. /\ link \subseteq scenario.links /\ scenario' = scenario
      /\ manifest \in [Nodes -> SUBSET Nodes] /\ met \in [Nodes -> SUBSET Nodes]
      /\ faults' = 0 => faults = 0
  BY BoundsStep DEF TypeInv, LinksType, HistoryType
<1>2. CASE link' \subseteq link /\ met' = met /\ manifest' = manifest
  BY <1>1, <1>2 DEF PeersFit
<1>3. ASSUME NEW n \in Nodes, NEW m \in Nodes, Up(n, m) PROVE PeersFit'
  <2>1. \A x \in Nodes : {x} # {n, m}
    BY <1>3 DEF Up
  <2> QED
    BY <1>1, <1>3, <2>1 DEF Up, PeersFit, bounds
<1>4. ASSUME NEW n \in Nodes, NEW m \in Nodes, Register(n, m) PROVE PeersFit'
  <2>1. n # m
    <3>1. CASE n = m
      BY <1>4, <3>1 DEF Register, PeersFit
    <3> QED
      BY <3>1
  <2>2. link' = link /\ \A k \in Nodes : k \notin manifest'[k]
    BY <1>1, <1>4, <2>1 DEF Register, PeersFit
  <2>3. ASSUME faults' = 0, NEW k \in Nodes, NEW j \in met'[k] PROVE {k, j} \in scenario.links
    <3>1. j \in met[k] \/ (k = n /\ j = m)
      BY <1>1, <1>4 DEF Register
    <3> QED
      BY <1>1, <1>4, <2>3, <3>1 DEF Register, PeersFit
  <2> QED
    BY <1>1, <2>2, <2>3 DEF PeersFit
<1>5. ASSUME NEW n \in Nodes, Restart(n) PROVE PeersFit'
  <2>1. link' = link /\ manifest' = manifest /\ \A k \in Nodes : met'[k] \subseteq met[k]
    BY <1>1, <1>5 DEF Restart
  <2> QED
    BY <1>1, <2>1 DEF PeersFit
<1>6. ASSUME NEW n \in Nodes, NEW m \in Nodes,
             Down(n, m) \/ Unregister(n, m) \/ Overtake(n, m) \/ Handle(n, m)
      PROVE  PeersFit'
  BY <1>2, <1>6 DEF Down, Unregister, Overtake, Handle, Ignore, Reject, Accept, Arrives, links
<1>7. ASSUME NEW n \in Nodes, Check(n) \/ Forget(n) PROVE PeersFit'
  BY <1>2, <1>7 DEF Check, SendRoutes, SendNothing, Rechecked, Forget, links
<1> QED
  BY <1>2, <1>3, <1>4, <1>5, <1>6, <1>7 DEF Next, vars, links

(* Nobody comes to have an edge from a node to itself.                     *)
LEMMA RecalculatedStraight ==
  ASSUME TypeInv, PeersFit, NEW n \in Nodes, NEW report \in Tables,
         \A o \in DOMAIN report : Straight(report[o].connections),
         NEW g \in Recalculated(n, report)
  PROVE  Straight(g) /\ \A m \in conns[n] : {n, m} \in DOMAIN g
<1> DEFINE near == {{n, m} : m \in conns[n]}
           own == near \union {{n, m} : m \in manifest[n]}
           claimed == UNION {DOMAIN report[o].connections : o \in DOMAIN report}
<1>1. DOMAIN g = own \union claimed
  BY DEF Recalculated
<1>2. conns[n] \subseteq manifest[n] /\ n \notin manifest[n]
  BY DEF TypeInv, LinksType, PeersFit
<1>3. \A x \in Nodes : {x} \notin own
  BY <1>2
<1>4. \A x \in Nodes : {x} \notin claimed
  BY DEF Straight
<1> QED
  BY <1>1, <1>3, <1>4 DEF Straight

(* What a step adds to what is said.                                       *)
LEMMA WhatIsSaid ==
  ASSUME TypeInv, [Next]_vars
  PROVE  \/ Statements' \subseteq Statements \union Unsaid
         \/ \E n \in Nodes : \E g \in Recalculated(n, known[n]) :
              /\ Check(n) /\ g \in Graphs
              /\ Statements' \subseteq Statements \union {Says(n, Advertisement(n, g))}
<1>1. ASSUME NEW n \in Nodes, Check(n)
      PROVE  \/ Statements' \subseteq Statements \union Unsaid
             \/ \E g \in Recalculated(n, known[n]) :
                  /\ g \in Graphs
                  /\ Statements' \subseteq Statements \union {Says(n, Advertisement(n, g))}
  <2>1. PICK g \in Recalculated(n, known[n]) : SendRoutes(n, g) \/ SendNothing(n, g)
    BY <1>1 DEF Check
  <2>2. g \in Graphs
    BY RecalculatedType DEF TypeInv, KnownType
  <2> QED
    BY <2>1, <2>2, SendSaysOneThing, NodeStepsSayNothing
<1>2. CASE UNCHANGED vars
  BY <1>2 DEF vars, views, Statements, Known, UnderWay, OnTheWay, Says
<1>3. ASSUME NEW n \in Nodes, Forget(n) \/ Restart(n) PROVE Statements' \subseteq Statements
  BY <1>3, NodeStepsSayNothing
<1> QED
  BY <1>1, <1>2, <1>3, ConnectionStepsSayNothing, HandleSaysNothing DEF Next

LEMMA StatementsStep ==
  ASSUME TypeInv, HistoryType, PeersFit, FirstLife, StatementsFit, [Next]_vars
  PROVE  StatementsFit'
<1>1. faults' = 0 => faults = 0
  BY BoundsStep DEF HistoryType
<1>2. ASSUME NEW s \in Statements
      PROVE  Straight(s.connections) /\ (faults' = 0 => s.epoch = IF s.sequence = 0 THEN 0 ELSE 1)
  BY <1>1 DEF StatementsFit
<1>3. ASSUME NEW s \in Unsaid
      PROVE  Straight(s.connections) /\ (faults' = 0 => s.epoch = IF s.sequence = 0 THEN 0 ELSE 1)
  BY DEF Unsaid, Says, Unheard, Straight
<1>4. ASSUME NEW n \in Nodes, NEW g \in Recalculated(n, known[n]), NEW s,
             s = Says(n, Advertisement(n, g))
      PROVE  Straight(s.connections) /\ (faults' = 0 => s.epoch = IF s.sequence = 0 THEN 0 ELSE 1)
  <2>1. s.epoch = epoch[n] /\ s.sequence = seq[n] + 1 /\ DOMAIN s.connections \subseteq DOMAIN g
    BY <1>4 DEF Says, Advertisement
  <2>2. \A o \in DOMAIN known[n] : Straight(known[n][o].connections)
    <3> TAKE o \in DOMAIN known[n]
    <3>1. Says(o, known[n][o]) \in Statements
      BY StatementsFrom
    <3> QED
      BY <3>1 DEF StatementsFit, Says
  <2>3. Straight(g)
    BY <2>2, RecalculatedStraight DEF TypeInv, KnownType
  <2>4. seq[n] + 1 # 0
    BY DEF TypeInv, LivesType
  <2> QED
    BY <1>1, <2>1, <2>3, <2>4 DEF Straight, FirstLife
<1>5. \A s \in Statements' :
        Straight(s.connections) /\ (faults' = 0 => s.epoch = IF s.sequence = 0 THEN 0 ELSE 1)
  BY <1>2, <1>3, <1>4, WhatIsSaid
<1> QED
  BY <1>5 DEF StatementsFit, Straight

LEMMA FirstLifeStep ==
  ASSUME HistoryType, FirstLife, [Next]_vars
  PROVE  FirstLife'
<1> SUFFICES ASSUME faults' = 0 PROVE \A n \in Nodes : epoch'[n] = 1
  BY DEF FirstLife
<1>1. ASSUME NEW n \in Nodes, Check(n) PROVE epoch' = epoch
  BY <1>1 DEF Check, SendRoutes, SendNothing, Rechecked
<1>2. ASSUME NEW n \in Nodes, NEW m \in Nodes, Handle(n, m) PROVE epoch' = epoch
  BY <1>2 DEF Handle, Ignore, Reject, Accept, Arrives, lives
<1>3. ASSUME NEW n \in Nodes, NEW m \in Nodes, Up(n, m) \/ Register(n, m) \/ Unregister(n, m)
      PROVE  epoch' = epoch
  BY <1>3 DEF Up, Register, Unregister, lives
<1>4. epoch' = epoch /\ faults = 0
  BY <1>1, <1>2, <1>3, WithoutFailure DEF vars, lives
<1> QED
  BY <1>4 DEF FirstLife

(* A report is recorded by who has seen what it comes from.                *)
LEMMA KnownStep ==
  ASSUME TypeInv, HistoryType, KnownIsSeen, [Next]_vars
  PROVE  KnownIsSeen'
<1> SUFFICES ASSUME faults' = 0, NEW k \in Nodes, NEW o \in DOMAIN known'[k]
             PROVE  known'[k][o].sequence = 0 \/ Id(Says(o, known'[k][o])) \in seen'[k]
  BY DEF KnownIsSeen, Id, Says
<1>1. faults = 0
  BY WithoutFailure
<1>2. CASE known' = known /\ seen[k] \subseteq seen'[k]
  BY <1>1, <1>2 DEF KnownIsSeen
<1>3. ASSUME NEW n \in Nodes, NEW m \in Nodes, Handle(n, m)
      PROVE  known'[k][o].sequence = 0 \/ Id(Says(o, known'[k][o])) \in seen'[k]
  <2>1. PICK adv \in OnTheWay(m, n) :
          \/ Ignore(n, m, adv) \/ Reject(n, m, adv)
          \/ \E g \in Recalculated(n, Recorded(n, adv)) : Accept(n, m, adv, g)
    BY <1>3 DEF Handle
  <2>2. seen[k] \subseteq seen'[k]
    BY <2>1 DEF Ignore, Reject, Accept, See, HistoryType, views
  <2>3. ASSUME known' = [known EXCEPT ![n] = Recorded(n, adv)], See(n, adv), k = n
        PROVE  known'[k][o].sequence = 0 \/ Id(Says(o, known'[k][o])) \in seen'[k]
    <3>1. known'[k] = Recorded(n, adv) /\ Id(adv) \in seen'[k]
      BY <2>3 DEF TypeInv, KnownType, See, HistoryType
    <3>2. CASE o = adv.origin
      BY <3>1, <3>2 DEF Recorded, Report, Id, Says
    <3>3. CASE o # adv.origin
      BY <1>1, <2>2, <2>3, <3>1, <3>3 DEF Recorded, View, Unheard, KnownIsSeen
    <3> QED
      BY <3>2, <3>3
  <2>4. ASSUME known' = [known EXCEPT ![n] = Recorded(n, adv)], k # n
        PROVE  known'[k] = known[k]
    BY <2>4 DEF TypeInv, KnownType
  <2>5. CASE known' = known
    BY <1>2, <2>2, <2>5
  <2> QED
    BY <1>1, <2>1, <2>2, <2>3, <2>4, <2>5 DEF Ignore, Reject, Accept, views, KnownIsSeen
<1>4. ASSUME NEW n \in Nodes, NEW m \in Nodes, Up(n, m) \/ Register(n, m) \/ Unregister(n, m)
      PROVE  known' = known /\ seen' = seen
  BY <1>4 DEF Up, Register, Unregister, views
<1>5. ASSUME NEW n \in Nodes, Check(n)
      PROVE  known' = known /\ seen' = seen
  BY <1>5 DEF Check, SendRoutes, SendNothing, Rechecked, views
<1>6. CASE UNCHANGED vars
  BY <1>2, <1>6 DEF vars, views
<1> QED
  BY <1>2, <1>3, <1>4, <1>5, <1>6, WithoutFailure

-----------------------------------------------------------------------------

(* What is on the way outward stays so while nobody sees more and sequences*)
(* grow.                                                                   *)
LEMMA OutwardStays ==
  ASSUME NEW toward, NEW m \in Nodes, NEW n \in Nodes, NEW adv \in Advertisements,
         Outward(toward, m, n, adv),
         seq[m] \in Nat, seq'[m] \in Nat, seq[m] <= seq'[m], seen[m] \subseteq seen'[m],
         \A id \in seen'[n] : id \in seen[n] \/ (id[1] = adv.origin => id[3] < adv.sequence)
  PROVE  Outward(toward, m, n, adv)'
BY DEF Outward, Advertisements, Id

LEMMA SeenBeforeStays ==
  ASSUME NEW toward \in [Nodes -> [Nodes -> Nodes]], NEW n \in Nodes,
         NEW id \in Nodes \X Nat \X Nat, SeenBefore(toward, n, id),
         seq \in [Nodes -> Nat], seq' \in [Nodes -> Nat],
         \A m \in Nodes : seq[m] <= seq'[m] /\ seen[m] \subseteq seen'[m]
  PROVE  SeenBefore(toward, n, id)'
<1>1. toward[n][id[1]] \in Nodes /\ id[1] \in Nodes /\ id[3] \in Nat
  OBVIOUS
<1> QED
  BY <1>1 DEF SeenBefore

(* Who is not on a node's way to another has the node on its own.          *)
LEMMA GuidesOn ==
  ASSUME NEW toward, Guides(toward, scenario.links), NEW n \in Nodes, NEW o \in Nodes, o # n
  PROVE  \A m \in Nodes : m # n /\ {n, m} \in scenario.links /\ toward[n][o] # m
           => o # m /\ toward[m][o] = n
<1> SUFFICES ASSUME NEW m \in Nodes, m # n, {n, m} \in scenario.links, toward[n][o] # m
             PROVE  o # m /\ toward[m][o] = n
  OBVIOUS
<1>1. o # m
  BY DEF Guides
<1>2. o \in Nodes \ {n, m}
  BY <1>1
<1> QED
  BY <1>1, <1>2 DEF Guides

(* What is in a buffer is an advertisement.                                *)
LEMMA InBuffers ==
  ASSUME TypeInv
  PROVE  \A a, b \in Nodes : net[a][b] \in Seq(Advertisements)
                             /\ Elements(net[a][b]) \subseteq Advertisements
<1>1. \A a, b \in Nodes : net[a][b] \in Seq(Advertisements)
  BY DEF TypeInv, NetType
<1>2. \A s \in Seq(Advertisements) : Elements(s) \subseteq Advertisements
  BY DEF Elements
<1> QED
  BY <1>1, <1>2

(* A node's own advertisement is newer than all it has made.               *)
LEMMA SendOutward ==
  ASSUME TypeInv, TypeInv', PeersFit, faults = 0,
         NEW toward \in [Nodes -> [Nodes -> Nodes]], Guides(toward, scenario.links),
         HistoryType, OutwardInOrder(toward), SeenOutward(toward),
         NEW n \in Nodes, NEW g, SendRoutes(n, g)
  PROVE  OutwardInOrder(toward)' /\ SeenOutward(toward)'
<1>0. PICK adv : adv = Advertisement(n, g)
  OBVIOUS
<1>1. adv.origin = n /\ adv.sequence = seq[n] + 1
  BY <1>0 DEF Advertisement
<1>2. seq' = [seq EXCEPT ![n] = seq[n] + 1] /\ seen' = seen
      /\ net' = [net EXCEPT ![n] = Sent(n, conns[n], adv)]
  BY <1>0 DEF SendRoutes, Rechecked, NextSequence, views
<1>3. /\ seq \in [Nodes -> Nat] /\ seq' \in [Nodes -> Nat] /\ seq'[n] = seq[n] + 1
      /\ \A m \in Nodes : seq[m] <= seq'[m]
  BY <1>2 DEF TypeInv, LivesType
<1>4. SeenOutward(toward)'
  <2> SUFFICES ASSUME NEW k \in Nodes, NEW id \in seen[k] PROVE SeenBefore(toward, k, id)'
    BY <1>2 DEF SeenOutward
  <2>1. id \in Nodes \X Nat \X Nat /\ SeenBefore(toward, k, id)
    BY DEF HistoryType, SeenOutward
  <2> QED
    BY <1>2, <1>3, <2>1, SeenBeforeStays
<1>5. ASSUME NEW k \in Nodes, NEW l \in Nodes, NEW b \in Elements(net[k][l])
      PROVE  Outward(toward, k, l, b)'
  <2>1. b \in Advertisements /\ Outward(toward, k, l, b)
    BY InBuffers DEF OutwardInOrder
  <2> QED
    BY <1>2, <1>3, <2>1, OutwardStays
<1>6. ASSUME NEW k \in Nodes, NEW l \in Nodes, k # n \/ l \notin conns[n]
      PROVE  Ordered(net'[k][l]) /\ \A b \in Elements(net'[k][l]) : Outward(toward, k, l, b)'
  <2>1. net'[k][l] = net[k][l]
    BY <1>2, <1>6 DEF TypeInv, NetType, Sent
  <2> QED
    BY <1>5, <2>1 DEF OutwardInOrder
<1>7. ASSUME NEW l \in conns[n]
      PROVE  Ordered(net'[n][l]) /\ \A b \in Elements(net'[n][l]) : Outward(toward, n, l, b)'
  <2>1. l \in Nodes /\ l # n /\ {l, n} \in scenario.links
    <3>1. l \in met[n] /\ l \in manifest[n] /\ l \in Nodes
      BY DEF TypeInv, LinksType
    <3>2. {n, l} = {l, n}
      OBVIOUS
    <3> QED
      BY <3>1, <3>2 DEF PeersFit
  <2>2. toward[l][n] = n
    BY <2>1 DEF Guides
  <2>3. net'[n][l] = Append(net[n][l], adv)
    BY <1>2, <2>1 DEF TypeInv, NetType, Sent
  <2>4. net[n][l] \in Seq(Advertisements) /\ Ordered(net[n][l])
    BY <2>1, InBuffers DEF OutwardInOrder
  <2>5. \A b \in Elements(net[n][l]) : b.origin = adv.origin => b.sequence < adv.sequence
    <3> SUFFICES ASSUME NEW b \in Elements(net[n][l]), b.origin = n PROVE b.sequence < seq[n] + 1
      BY <1>1
    <3>1. b.sequence <= seq[n] /\ b.sequence \in Nat
      BY <2>1, InBuffers DEF OutwardInOrder, Outward, Advertisements
    <3> QED
      BY <1>3, <3>1
  <2>6. Outward(toward, n, l, adv)'
    <3>1. \A id \in seen[l] : id[1] = n => id[3] < seq[n] + 1
      <4> SUFFICES ASSUME NEW id \in seen[l], id[1] = n PROVE id[3] < seq[n] + 1
        OBVIOUS
      <4>1. id[3] <= seq[n] /\ id[3] \in Nat
        BY <2>1, <2>2 DEF SeenOutward, SeenBefore, HistoryType
      <4> QED
        BY <1>3, <4>1
    <3> QED
      BY <1>1, <1>2, <1>3, <2>1, <2>2, <3>1 DEF Outward
  <2>7. Ordered(net'[n][l])
    BY <2>3, <2>4, <2>5, OrderedAppend
  <2>8. Elements(net'[n][l]) \subseteq Elements(net[n][l]) \union {adv}
    BY <2>3, <2>4, ElementsOf
  <2> QED
    BY <1>5, <2>1, <2>6, <2>7, <2>8
<1>8. OutwardInOrder(toward)'
  BY <1>6, <1>7 DEF OutwardInOrder
<1> QED
  BY <1>4, <1>8

(* What a handler takes, it sees; what is behind it is newer.              *)
LEMMA TakenOutward ==
  ASSUME TypeInv, TypeInv', HistoryType,
         NEW toward \in [Nodes -> [Nodes -> Nodes]],
         OutwardInOrder(toward), SeenOutward(toward),
         NEW n \in Nodes, NEW m \in Nodes, NEW adv, Arrives(n, m, adv),
         seen' = seen \/ See(n, adv)
  PROVE  /\ Outward(toward, m, n, adv)
         /\ SeenOutward(toward)'
         /\ \A k \in Nodes : seen[k] \subseteq seen'[k]
         /\ \A k, l \in Nodes :
              /\ Ordered(Taken(n, m)[k][l])
              /\ \A b \in Elements(Taken(n, m)[k][l]) : Outward(toward, k, l, b)'
<1>1. adv \in Advertisements /\ net[m][n] \in Seq(Advertisements) /\ net[m][n] # <<>>
      /\ adv = Head(net[m][n]) /\ seq' = seq /\ seq \in [Nodes -> Nat]
  BY TakenType, InBuffers DEF Arrives, lives, TypeInv, LivesType
<1>2. Outward(toward, m, n, adv)
  <2>1. adv \in Elements(net[m][n])
    BY <1>1, ElementsOf
  <2> QED
    BY <2>1 DEF OutwardInOrder
<1>3. /\ \A k \in Nodes : seen[k] \subseteq seen'[k]
      /\ \A k \in Nodes \ {n} : seen'[k] = seen[k]
      /\ \A id \in seen'[n] : id \in seen[n] \/ id = Id(adv)
  BY DEF See, HistoryType
<1>31. seq' \in [Nodes -> Nat] /\ \A k \in Nodes : /\ seq[k] \in Nat /\ seq'[k] \in Nat
                                                  /\ seq[k] <= seq'[k]
  BY <1>1
<1>4. /\ Id(adv) \in Nodes \X Nat \X Nat
      /\ Id(adv)[1] = adv.origin /\ Id(adv)[2] = adv.epoch /\ Id(adv)[3] = adv.sequence
  BY <1>1 DEF Id, Advertisements
<1>5. SeenBefore(toward, n, Id(adv))
  BY <1>2, <1>4 DEF Outward, SeenBefore
<1>6. SeenOutward(toward)'
  <2> SUFFICES ASSUME NEW k \in Nodes, NEW id \in seen'[k] PROVE SeenBefore(toward, k, id)'
    BY DEF SeenOutward
  <2>1. id \in Nodes \X Nat \X Nat /\ SeenBefore(toward, k, id)
    BY <1>3, <1>4, <1>5 DEF HistoryType, SeenOutward
  <2> QED
    BY <1>1, <1>3, <1>31, <2>1, SeenBeforeStays
<1>7. /\ Ordered(Tail(net[m][n]))
      /\ \A b \in Elements(Tail(net[m][n])) : b.origin = adv.origin => adv.sequence < b.sequence
      /\ Elements(Tail(net[m][n])) \subseteq Elements(net[m][n])
  BY <1>1, OrderedTail, ElementsOf DEF OutwardInOrder
<1>8. ASSUME NEW k \in Nodes, NEW l \in Nodes, NEW b \in Elements(net[k][l]),
             l = n /\ b.origin = adv.origin => adv.sequence < b.sequence
      PROVE  Outward(toward, k, l, b)'
  <2>1. b \in Advertisements /\ Outward(toward, k, l, b)
    BY InBuffers DEF OutwardInOrder
  <2>2. \A id \in seen'[l] : id \in seen[l] \/ (id[1] = b.origin => id[3] < b.sequence)
    BY <1>3, <1>4, <1>8
  <2> QED
    BY <1>3, <1>31, <2>1, <2>2, OutwardStays
<1>9. ASSUME NEW k \in Nodes, NEW l \in Nodes
      PROVE  /\ Ordered(Taken(n, m)[k][l])
             /\ \A b \in Elements(Taken(n, m)[k][l]) : Outward(toward, k, l, b)'
  <2>1. CASE k = m /\ l = n
    <3>1. Taken(n, m)[k][l] = Tail(net[m][n])
      BY <2>1 DEF Taken, TypeInv, NetType
    <3> QED
      BY <1>7, <1>8, <2>1, <3>1
  <2>2. CASE ~(k = m /\ l = n)
    <3>1. Taken(n, m)[k][l] = net[k][l]
      BY <2>2 DEF Taken, TypeInv, NetType
    <3>2. ASSUME NEW b \in Elements(net[k][l]), l = n, b.origin = adv.origin PROVE FALSE
      BY <1>2, <2>2, <3>2 DEF OutwardInOrder, Outward
    <3> QED
      BY <1>8, <3>1, <3>2 DEF OutwardInOrder
  <2> QED
    BY <2>1, <2>2
<1> QED
  BY <1>2, <1>3, <1>6, <1>9

(* An advertisement is relayed away from its origin.                       *)
LEMMA RelayOutward ==
  ASSUME TypeInv, TypeInv', PeersFit, faults = 0,
         NEW toward \in [Nodes -> [Nodes -> Nodes]], Guides(toward, scenario.links),
         HistoryType, OutwardInOrder(toward), SeenOutward(toward),
         NEW n \in Nodes, NEW m \in Nodes, NEW adv, NEW g, Accept(n, m, adv, g)
  PROVE  OutwardInOrder(toward)' /\ SeenOutward(toward)'
<1>1. Arrives(n, m, adv) /\ See(n, adv) /\ adv \in Advertisements
  BY TakenType DEF Accept
<1>2. /\ Outward(toward, m, n, adv) /\ SeenOutward(toward)'
      /\ \A k \in Nodes : seen[k] \subseteq seen'[k]
      /\ \A k, l \in Nodes :
           /\ Ordered(Taken(n, m)[k][l])
           /\ \A b \in Elements(Taken(n, m)[k][l]) : Outward(toward, k, l, b)'
  BY <1>1, TakenOutward
<1>3. CASE net' = Taken(n, m)
  BY <1>2, <1>3 DEF OutwardInOrder
<1>4. CASE net' = [Taken(n, m) EXCEPT ![n] = Sent(n, met[n] \ {m}, adv)]
  <2>1. m # n /\ Taken(n, m) \in [Nodes -> [Nodes -> Seq(Advertisements)]]
    <3>1. m \in conns[n] /\ conns[n] \subseteq manifest[n]
      BY <1>1 DEF Arrives, TypeInv, LinksType
    <3> QED
      BY <1>1, <3>1, TakenType DEF PeersFit
  <2>2. \A l \in Nodes : Taken(n, m)[n][l] = net[n][l]
    BY <2>1 DEF Taken, TypeInv, NetType
  <2>3. \A k \in Nodes \ {n} : \A l \in Nodes : net'[k][l] = Taken(n, m)[k][l]
    BY <1>4, <2>1
  <2>4. \A l \in Nodes : net'[n][l] = IF l \in met[n] \ {m} THEN Append(net[n][l], adv)
                                                              ELSE net[n][l]
    BY <1>4, <2>1 DEF Sent
  <2>5. ASSUME NEW l \in met[n] \ {m}
        PROVE  Ordered(net'[n][l]) /\ \A b \in Elements(net'[n][l]) : Outward(toward, n, l, b)'
    <3>1. l \in Nodes /\ l # n /\ {n, l} \in scenario.links
      <4>1. l \in Nodes /\ l \in manifest[n]
        BY DEF TypeInv, LinksType
      <4> QED
        BY <4>1 DEF PeersFit
    <3>2. adv.origin # n /\ toward[n][adv.origin] = m /\ adv.origin \in Nodes
      BY <1>1, <1>2 DEF Outward, Advertisements
    <3>3. PICK o \in Nodes : o = adv.origin
      BY <3>2
    <3>4. adv.origin # l /\ toward[l][adv.origin] = n
      <4>1. o # n /\ toward[n][o] # l
        BY <3>2, <3>3
      <4>2. \A k \in Nodes : k # n /\ {n, k} \in scenario.links /\ toward[n][o] # k
              => o # k /\ toward[k][o] = n
        BY <4>1, GuidesOn
      <4> QED
        BY <3>1, <3>2, <3>3, <4>2
    <3>5. Id(adv) \in seen'[n] /\ seen'[l] = seen[l]
      BY <1>1, <3>1 DEF See, HistoryType
    <3>6. \A id \in seen[n] : id[1] = adv.origin => id[3] < adv.sequence
      BY <1>2 DEF Outward
    <3>7. \A id \in seen[l] : id[1] = adv.origin => id[3] < adv.sequence
      BY <3>1, <3>2, <3>4, <3>6 DEF SeenOutward, SeenBefore
    <3>8. Outward(toward, n, l, adv)'
      BY <3>2, <3>4, <3>5, <3>7 DEF Outward, Id
    <3>9. \A b \in Elements(net[n][l]) : b.origin = adv.origin => b.sequence < adv.sequence
      <4> SUFFICES ASSUME NEW b \in Elements(net[n][l]), b.origin = adv.origin
                   PROVE  b.sequence < adv.sequence
        OBVIOUS
      <4>1. Id(b) \in seen[n] /\ Id(b)[1] = b.origin /\ Id(b)[3] = b.sequence
        BY <3>1, <3>2 DEF OutwardInOrder, Outward, Id
      <4> QED
        BY <3>6, <4>1
    <3>10. net[n][l] \in Seq(Advertisements) /\ Ordered(net[n][l])
      BY <3>1, InBuffers DEF OutwardInOrder
    <3>11. Ordered(net'[n][l])
      BY <2>4, <3>1, <3>9, <3>10, OrderedAppend
    <3>12. Elements(net'[n][l]) \subseteq Elements(net[n][l]) \union {adv}
      BY <2>4, <3>1, <3>10, ElementsOf
    <3> QED
      BY <1>2, <2>2, <3>1, <3>8, <3>11, <3>12
  <2>6. ASSUME NEW k \in Nodes, NEW l \in Nodes
        PROVE  Ordered(net'[k][l]) /\ \A b \in Elements(net'[k][l]) : Outward(toward, k, l, b)'
    <3>1. CASE k = n /\ l \in met[n] \ {m}
      BY <2>5, <3>1
    <3>2. CASE ~(k = n /\ l \in met[n] \ {m})
      <4>1. net'[k][l] = Taken(n, m)[k][l]
        BY <2>2, <2>3, <2>4, <3>2
      <4> QED
        BY <1>2, <4>1
    <3> QED
      BY <3>1, <3>2
  <2> QED
    BY <1>2, <2>6 DEF OutwardInOrder
<1> QED
  BY <1>2, <1>3, <1>4 DEF Accept

LEMMA ForestStep ==
  ASSUME TypeInv, TypeInv', HistoryType, PeersFit, InForest, [Next]_vars
  PROVE  InForest'
<1> SUFFICES ASSUME NEW toward \in [Nodes -> [Nodes -> Nodes]],
                    faults' = 0, Guides(toward, scenario'.links)
             PROVE  OutwardInOrder(toward)' /\ SeenOutward(toward)'
  BY DEF InForest, Guides
<1>1. faults = 0 /\ Guides(toward, scenario.links)
  BY WithoutFailure, BoundsStep DEF Guides
<1>2. OutwardInOrder(toward) /\ SeenOutward(toward)
  BY <1>1 DEF InForest
<1>3. CASE net' = net /\ seen' = seen /\ seq' = seq
  BY <1>2, <1>3 DEF OutwardInOrder, SeenOutward, Outward, SeenBefore, Ordered, Elements, Id
<1>4. ASSUME NEW n \in Nodes, Check(n)
      PROVE  OutwardInOrder(toward)' /\ SeenOutward(toward)'
  <2>1. ASSUME NEW g, SendRoutes(n, g)
        PROVE  OutwardInOrder(toward)' /\ SeenOutward(toward)'
    BY <1>1, <1>2, <2>1, SendOutward
  <2>2. ASSUME NEW g, SendNothing(n, g)
        PROVE  OutwardInOrder(toward)' /\ SeenOutward(toward)'
    BY <1>3, <2>2 DEF SendNothing, Rechecked, views
  <2> QED
    BY <1>4, <2>1, <2>2 DEF Check
<1>5. ASSUME NEW n \in Nodes, NEW m \in Nodes, Handle(n, m)
      PROVE  OutwardInOrder(toward)' /\ SeenOutward(toward)'
  <2>1. PICK adv \in OnTheWay(m, n) :
          \/ Ignore(n, m, adv) \/ Reject(n, m, adv)
          \/ \E g \in Recalculated(n, Recorded(n, adv)) : Accept(n, m, adv, g)
    BY <1>5 DEF Handle
  <2>2. CASE Ignore(n, m, adv) \/ Reject(n, m, adv)
    <3>1. Arrives(n, m, adv) /\ net' = Taken(n, m) /\ (seen' = seen \/ See(n, adv))
      BY <2>2 DEF Ignore, Reject, views
    <3> QED
      BY <1>2, <3>1, TakenOutward DEF OutwardInOrder
  <2>3. ASSUME NEW g, Accept(n, m, adv, g)
        PROVE  OutwardInOrder(toward)' /\ SeenOutward(toward)'
    BY <1>1, <1>2, <2>3, RelayOutward
  <2> QED
    BY <2>1, <2>2, <2>3
<1>6. ASSUME NEW n \in Nodes, NEW m \in Nodes, Up(n, m) \/ Register(n, m) \/ Unregister(n, m)
      PROVE  net' = net /\ seen' = seen /\ seq' = seq
  BY <1>6 DEF Up, Register, Unregister, views, lives
<1>7. CASE UNCHANGED vars
  BY <1>3, <1>7 DEF vars, views, lives
<1> QED
  BY <1>3, <1>4, <1>5, <1>6, <1>7, WithoutFailure

LEMMA NextMesh == MeshInv /\ [Next]_vars => MeshInv'
<1> SUFFICES ASSUME MeshInv, [Next]_vars PROVE MeshInv'
  OBVIOUS
<1>1. TypeInv /\ TypeInv' /\ HistoryType /\ HistoryType'
  BY NextType, HistoryStep DEF MeshInv
<1> QED
  BY <1>1, PeersStep, StatementsStep, FirstLifeStep, KnownStep, ForestStep DEF MeshInv

(* In a mesh without a cycle, while nothing fails, each advertisement comes*)
(* to a node at most once, never to its origin, and never after a later    *)
(* one, however its relays, new connections and timers interleave.         *)
OnceAndInTime ==
  faults = 0 /\ IsForest(scenario.links) =>
    \A n, m \in Nodes : \A adv \in OnTheWay(m, n) :
      adv.origin # n /\ Id(adv) \notin seen[n] /\ ~Stale(n, adv)

LEMMA NothingComesLate == MeshInv => OnceAndInTime
<1> SUFFICES ASSUME MeshInv, faults = 0, IsForest(scenario.links),
                    NEW n \in Nodes, NEW m \in Nodes, NEW adv \in OnTheWay(m, n)
             PROVE  adv.origin # n /\ Id(adv) \notin seen[n] /\ ~Stale(n, adv)
  BY DEF OnceAndInTime
<1>1. PICK toward \in [Nodes -> [Nodes -> Nodes]] : Guides(toward, scenario.links)
  BY DEF IsForest
<1>2. adv \in Elements(net[m][n]) /\ adv \in Advertisements
  BY InBuffers DEF OnTheWay, Elements, MeshInv
<1>3. Outward(toward, m, n, adv)
  BY <1>1, <1>2 DEF MeshInv, InForest, OutwardInOrder
<1>4. \A id \in seen[n] : id[1] = adv.origin => id[3] < adv.sequence
  BY <1>3 DEF Outward
<1>5. adv.sequence \in Nat \ {0} /\ adv.epoch = 1
  <2>1. Says(adv.origin, adv) \in Statements
    BY StatementsFrom
  <2> QED
    BY <1>2, <2>1 DEF Says, MeshInv, StatementsFit, Advertisements
<1>6. Id(adv) \notin seen[n]
  <2>1. Id(adv)[1] = adv.origin /\ Id(adv)[3] = adv.sequence
    BY DEF Id
  <2>2. ~(adv.sequence < adv.sequence)
    BY <1>5
  <2> QED
    BY <1>4, <2>1, <2>2
<1>7. ASSUME adv.origin \in DOMAIN known[n]
      PROVE  ~(known[n][adv.origin].epoch > adv.epoch)
             /\ ~(known[n][adv.origin].sequence >= adv.sequence)
  <2> DEFINE old == known[n][adv.origin]
             said == Says(adv.origin, old)
  <2>1. said \in Statements /\ old \in Reports
    BY <1>7, StatementsFrom, TableType DEF MeshInv, TypeInv, KnownType
  <2>2. old.epoch \in {0, 1} /\ old.sequence \in Nat
    BY <2>1 DEF Says, Reports, MeshInv, StatementsFit
  <2>3. old.sequence = 0 \/ old.sequence < adv.sequence
    <3>1. old.sequence = 0 \/ Id(said) \in seen[n]
      BY <1>7 DEF MeshInv, KnownIsSeen
    <3>2. Id(said)[1] = adv.origin /\ Id(said)[3] = old.sequence
      BY DEF Id, Says
    <3> QED
      BY <1>4, <3>1, <3>2
  <2> QED
    BY <1>5, <2>2, <2>3
<1> QED
  BY <1>3, <1>6, <1>7 DEF Outward, Stale

(* The theorem of that, for any number of nodes and connections.  In a     *)
(* cycle an advertisement overtakes an earlier one by a shorter way, and   *)
(* handle_route_advertisement finds the earlier one stale.                 *)
THEOREM AdvertisementsAreInTime == Spec => []OnceAndInTime
BY InitMesh, NextMesh, NothingComesLate, PTL DEF Spec

-----------------------------------------------------------------------------

(* Where HandlersSurvive is meant to hold.                                 *)
InSmallForest == FewNodes /\ IsForest(scenario.links)
SmallForestSurvives == InSmallForest => HandlersSurvive

(* Who takes up an advertisement has the connection it came by, and so     *)
(* reaches the other two.                                                  *)
LEMMA AcceptDoesNotRaise ==
  ASSUME MeshInv, FewNodes, NEW n \in Nodes, NEW m \in Nodes, NEW adv, Arrives(n, m, adv),
         IsNews(n, m, adv), NEW g \in Recalculated(n, Recorded(n, adv))
  PROVE  ~Raises(n, g)
<1>1. TypeInv /\ PeersFit /\ StatementsFit
  BY DEF MeshInv
<1>2. adv \in Advertisements /\ adv.origin # n /\ Says(adv.origin, adv) \in Statements
  <2>1. adv \in OnTheWay(m, n)
    <3>1. net[m][n] \in Seq(Advertisements) /\ net[m][n] # <<>> /\ adv = Head(net[m][n])
      BY <1>1, InBuffers DEF Arrives
    <3> QED
      BY <3>1, ElementsOf DEF OnTheWay, Elements
  <2> QED
    BY <1>1, <2>1, TakenType, StatementsFrom DEF IsNews
<1>3. Recorded(n, adv) \in Tables
  BY <1>1, <1>2, RecordedType
<1>4. ASSUME NEW o \in DOMAIN Recorded(n, adv) PROVE Straight(Recorded(n, adv)[o].connections)
  <2>1. CASE o = adv.origin
    BY <1>1, <1>2, <2>1 DEF Recorded, Report, Says, StatementsFit
  <2>2. CASE o # adv.origin /\ o \in DOMAIN known[n]
    <3>1. Says(o, known[n][o]) \in Statements
      BY <2>2, StatementsFrom
    <3> QED
      BY <1>1, <2>2, <3>1 DEF Recorded, View, Says, StatementsFit
  <2>3. CASE o # adv.origin /\ o \notin DOMAIN known[n]
    BY <2>3 DEF Recorded, View, Unheard, Straight
  <2> QED
    BY <2>1, <2>2, <2>3
<1>5. Straight(g) /\ {n, m} \in DOMAIN g /\ g \in Graphs
  BY <1>1, <1>3, <1>4, RecalculatedStraight, RecalculatedType DEF Arrives
<1>6. n # m
  BY <1>1 DEF Arrives, TypeInv, LinksType, PeersFit
<1> QED
  BY <1>5, <1>6, NobodyIsCutOff

LEMMA SurviveStep == MeshInv /\ SmallForestSurvives /\ [Next]_vars => SmallForestSurvives'
<1> SUFFICES ASSUME MeshInv, SmallForestSurvives, [Next]_vars, faults' = 0, InSmallForest'
             PROVE  \A n \in Nodes : deaf'[n] = {}
  BY DEF SmallForestSurvives, HandlersSurvive
<1>1. HistoryType /\ TypeInv /\ faults = 0 /\ InSmallForest
  BY WithoutFailure, BoundsStep DEF MeshInv, InSmallForest
<1>2. deaf \in [Nodes -> SUBSET Nodes] /\ \A n \in Nodes : deaf[n] = {}
  BY <1>1 DEF TypeInv, TasksType, SmallForestSurvives, HandlersSurvive
<1>3. CASE deaf' = deaf
  BY <1>2, <1>3
<1>4. ASSUME NEW n \in Nodes, Check(n) PROVE deaf' = deaf
  BY <1>4 DEF Check, SendRoutes, SendNothing, Rechecked
<1>5. ASSUME NEW n \in Nodes, NEW m \in Nodes, Up(n, m) \/ Unregister(n, m) PROVE deaf' = deaf
  BY <1>5 DEF Up, Unregister, tasks
<1>6. ASSUME NEW n \in Nodes, NEW m \in Nodes, Register(n, m)
      PROVE  \A k \in Nodes : deaf'[k] = {}
  BY <1>2, <1>6 DEF Register
<1>7. ASSUME NEW n \in Nodes, NEW m \in Nodes, Handle(n, m) PROVE deaf' = deaf
  <2>1. PICK adv \in OnTheWay(m, n) :
          \/ Ignore(n, m, adv) \/ Reject(n, m, adv)
          \/ \E g \in Recalculated(n, Recorded(n, adv)) : Accept(n, m, adv, g)
    BY <1>7 DEF Handle
  <2>2. ~Reject(n, m, adv)
    BY <1>1, NothingComesLate DEF Reject, OnceAndInTime, InSmallForest
  <2>3. ASSUME NEW g \in Recalculated(n, Recorded(n, adv)), Accept(n, m, adv, g)
        PROVE  deaf' = deaf
    <3>1. ~Raises(n, g)
      BY <1>1, <2>3, AcceptDoesNotRaise DEF Accept, InSmallForest
    <3> QED
      BY <2>3, <3>1 DEF Accept
  <2> QED
    BY <2>1, <2>2, <2>3 DEF Ignore, tasks
<1>8. CASE UNCHANGED vars
  BY <1>3, <1>8 DEF vars, tasks
<1> QED
  BY <1>1, <1>3, <1>4, <1>5, <1>6, <1>7, <1>8, WithoutFailure

(* In a mesh without a cycle and of at most three nodes no handler ends    *)
(* while nothing fails: no advertisement comes late, and no node is cut    *)
(* off in what its neighbour tells it.                                     *)
THEOREM HandlersStay == Spec => [](InSmallForest => HandlersSurvive)
<1>1. Init => SmallForestSurvives
  BY DEF Init, SmallForestSurvives, HandlersSurvive
<1>2. Spec => []SmallForestSurvives
  BY <1>1, InitMesh, NextMesh, SurviveStep, PTL DEF Spec
<1> QED
  BY <1>2 DEF SmallForestSurvives

-----------------------------------------------------------------------------
(* EveryoneKnowsTheMesh: what was advertised, was learnt.                  *)

(* Without failures connections are kept, and all names of peers are names *)
(* of connections.                                                         *)
PeersStay ==
  /\ met = conns /\ manifest = conns
  /\ \A n \in Nodes : \A m \in conns[n] : {n, m} \in link

(* What is said names connections of its origin at cost 1, and some.       *)
SaysConnections ==
  \A s \in Statements :
    /\ \A p \in DOMAIN s.connections :
         p \in link /\ s.origin \in p /\ s.connections[p] = Near
    /\ s.sequence > 0 => DOMAIN s.connections # {}

Beside(n) == {{n, m} : m \in conns[n]}
Claims(report) == UNION {DOMAIN report[o].connections : o \in DOMAIN report}

(* A node's edges are its connections and what it was told; a connection   *)
(* that is not among them yet has the timer set.                           *)
EdgesAreKnown ==
  \A n \in Nodes :
    /\ \A p \in DOMAIN edges[n] : edges[n][p] = Near
    /\ Claims(known[n]) \subseteq DOMAIN edges[n]
    /\ DOMAIN edges[n] \subseteq Beside(n) \union Claims(known[n])
    /\ timer[n] = "off" => Beside(n) \subseteq DOMAIN edges[n]

(* Only a node with a connection has sent, is to send or has been told.    *)
OnlyPeersTalk ==
  \A n \in Nodes : timer[n] # "off" \/ seq[n] > 0 \/ DOMAIN known[n] # {} => conns[n] # {}

Tidy == PeersStay /\ SaysConnections /\ EdgesAreKnown /\ OnlyPeersTalk

(* The states the invariant is about.                                      *)
Calm == faults = 0 /\ InSmallForest
CalmIsTidy == Calm => Tidy

-----------------------------------------------------------------------------

LEMMA CalmBefore ==
  ASSUME MeshInv, [Next]_vars, Calm'
  PROVE  /\ Calm /\ scenario' = scenario
         /\ \/ UNCHANGED vars
            \/ \E n \in Nodes : Check(n)
            \/ \E n, m \in Nodes : Up(n, m) \/ Register(n, m) \/ Unregister(n, m) \/ Handle(n, m)
BY WithoutFailure, BoundsStep DEF MeshInv, Calm, InSmallForest

(* Without failures and late news, handlers take up what comes.            *)
LEMMA HandleAccepts ==
  ASSUME MeshInv, SmallForestSurvives, Calm, NEW n \in Nodes, NEW m \in Nodes, Handle(n, m)
  PROVE  \E adv \in Advertisements : \E g \in Recalculated(n, Recorded(n, adv)) :
           Accept(n, m, adv, g) /\ ~Raises(n, g)
<1>1. PICK adv \in OnTheWay(m, n) :
        \/ Ignore(n, m, adv) \/ Reject(n, m, adv)
        \/ \E g \in Recalculated(n, Recorded(n, adv)) : Accept(n, m, adv, g)
  BY DEF Handle
<1>2. Arrives(n, m, adv) /\ adv \in Advertisements
  BY <1>1, TakenType DEF Ignore, Reject, Accept, MeshInv
<1>3. adv.origin # n /\ Id(adv) \notin seen[n] /\ ~Stale(n, adv)
  BY NothingComesLate DEF OnceAndInTime, Calm, InSmallForest
<1>4. IsNews(n, m, adv)
  BY <1>3 DEF IsNews, SmallForestSurvives, HandlersSurvive, Calm
<1>5. PICK g \in Recalculated(n, Recorded(n, adv)) : Accept(n, m, adv, g)
  BY <1>1, <1>3, <1>4 DEF Ignore, Reject
<1>6. ~Raises(n, g)
  BY <1>2, <1>4, AcceptDoesNotRaise DEF Calm, InSmallForest
<1> QED
  BY <1>2, <1>5, <1>6

(* Where peers stay, what is recalculated is what is connected and told.   *)
LEMMA RecalculatedIs ==
  ASSUME TypeInv, manifest = conns, NEW n \in Nodes, NEW report,
         \A o \in DOMAIN report : \A p \in DOMAIN report[o].connections :
           report[o].connections[p] = Near,
         NEW g \in Recalculated(n, report)
  PROVE  /\ DOMAIN g = Beside(n) \union Claims(report)
         /\ \A p \in DOMAIN g : g[p] = Near
<1> DEFINE near == {{n, m} : m \in conns[n]}
           own == near \union {{n, m} : m \in manifest[n]}
           claimed == UNION {DOMAIN report[o].connections : o \in DOMAIN report}
           Told(p) == {o \in DOMAIN report : p \in DOMAIN report[o].connections}
           Costs(p) == IF p \in near THEN {Near}
                       ELSE IF p \in own THEN {Far}
                       ELSE {report[o].connections[p] : o \in Told(p)}
<1>1. g \in [own \union claimed -> {Near, Far}] /\ \A p \in DOMAIN g : g[p] \in Costs(p)
  BY DEF Recalculated
<1>2. own = near
  OBVIOUS
<1>3. \A p \in own \union claimed : Costs(p) \subseteq {Near}
  BY <1>2
<1>4. DOMAIN g = near \union claimed
  BY <1>1, <1>2
<1> HIDE DEF Costs
<1>5. \A p \in DOMAIN g : g[p] = Near
  BY <1>1, <1>3
<1> QED
  BY <1>4, <1>5 DEF Beside, Claims

(* What a node has recorded is what came and what it knew.                 *)
LEMMA RecordedIs ==
  ASSUME NEW n \in Nodes, NEW adv, NEW report, report = Recorded(n, adv)
  PROVE  adv.origin \in DOMAIN report /\ report[adv.origin].connections = adv.connections
BY DEF Recorded, Report

LEMMA RecordedNames ==
  ASSUME NEW n \in Nodes, NEW adv, NEW report, report = Recorded(n, adv)
  PROVE  DOMAIN report \subseteq DOMAIN known[n] \union adv.names \union {adv.origin}
BY DEF Recorded, Named

LEMMA RecordedOthers ==
  ASSUME NEW n \in Nodes, NEW adv, NEW report, report = Recorded(n, adv),
         NEW o \in DOMAIN report \ {adv.origin}
  PROVE  \/ o \in DOMAIN known[n] /\ report[o].connections = known[n][o].connections
         \/ o \notin DOMAIN known[n] /\ report[o].connections = <<>>
BY DEF Recorded, View, Unheard

(* Only who was connected to the origin alone is forgotten.                *)
LEMMA RecordedKeeps ==
  ASSUME NEW n \in Nodes, NEW adv, NEW o \in DOMAIN known[n] \ {n},
         {o, adv.origin} \notin DOMAIN known[n][o].connections
  PROVE  o \in DOMAIN Recorded(n, adv)
BY DEF Recorded, Named, Orphans, View

(* A node with the timer set is not cut off in what it recalculates.       *)
LEMMA CheckDoesNotRaise ==
  ASSUME MeshInv, FewNodes, OnlyPeersTalk, NEW n \in Nodes, timer[n] # "off",
         NEW g \in Recalculated(n, known[n])
  PROVE  ~Raises(n, g)
<1>1. TypeInv /\ PeersFit /\ StatementsFit /\ known[n] \in Tables
  BY DEF MeshInv, TypeInv, KnownType
<1>2. ASSUME NEW o \in DOMAIN known[n] PROVE Straight(known[n][o].connections)
  <2>1. Says(o, known[n][o]) \in Statements
    BY StatementsFrom
  <2> QED
    BY <1>1, <2>1 DEF StatementsFit, Says
<1>3. Straight(g) /\ (\A m \in conns[n] : {n, m} \in DOMAIN g) /\ g \in Graphs
  BY <1>1, <1>2, RecalculatedStraight, RecalculatedType
<1>4. PICK m \in conns[n] : TRUE
  BY DEF OnlyPeersTalk
<1>5. m \in Nodes /\ m # n
  BY <1>1 DEF TypeInv, LinksType, PeersFit
<1> QED
  BY <1>3, <1>5, NobodyIsCutOff

(* The steps of a calm mesh: connections come, timers run out, nodes take  *)
(* up what comes.                                                          *)
Checks(n, g) ==
  /\ g \in Recalculated(n, known[n]) /\ g \in Graphs
  /\ Rechecked(n, g)
  /\ \/ SendRoutes(n, g)
     \/ ~IsDue(n, g) /\ UNCHANGED <<seq, net>>
Takes(n, m, adv, g) ==
  /\ g \in Recalculated(n, Recorded(n, adv)) /\ g \in Graphs
  /\ adv \in Advertisements /\ Arrives(n, m, adv) /\ adv.origin # n
  /\ known' = [known EXCEPT ![n] = Recorded(n, adv)]
  /\ IF IsFirst(n, adv) THEN Soon(n, TRUE) ELSE UNCHANGED timer
  /\ edges' = [edges EXCEPT ![n] = g]
  /\ net' = [Taken(n, m) EXCEPT ![n] = Sent(n, conns[n] \ {m}, adv)]

LEMMA CalmSteps ==
  ASSUME MeshInv, SmallForestSurvives, CalmIsTidy, [Next]_vars, Calm'
  PROVE  /\ Calm /\ Tidy /\ scenario' = scenario
         /\ \/ UNCHANGED vars
            \/ \E n, m \in Nodes : Up(n, m) \/ Register(n, m)
            \/ \E n \in Nodes : \E g : Checks(n, g)
            \/ \E n, m \in Nodes : \E adv, g : Takes(n, m, adv, g)
<1>1. Calm /\ Tidy /\ scenario' = scenario
  BY CalmBefore DEF CalmIsTidy
<1>2. ASSUME NEW n \in Nodes, Check(n) PROVE \E g : Checks(n, g)
  <2>1. PICK g \in Recalculated(n, known[n]) : SendRoutes(n, g) \/ SendNothing(n, g)
    BY <1>2 DEF Check
  <2>2. Rechecked(n, g) /\ timer[n] # "off"
    BY <2>1 DEF SendRoutes, SendNothing, Rechecked
  <2>3. ~Raises(n, g)
    BY <1>1, <2>2, CheckDoesNotRaise DEF Calm, InSmallForest, Tidy
  <2>4. g \in Graphs
    BY RecalculatedType DEF MeshInv, TypeInv, KnownType
  <2> QED
    BY <2>1, <2>2, <2>3, <2>4 DEF SendNothing, Checks
<1>3. ASSUME NEW n \in Nodes, NEW m \in Nodes PROVE ~Unregister(n, m)
  BY <1>1 DEF Unregister, Tidy, PeersStay
<1>4. ASSUME NEW n \in Nodes, NEW m \in Nodes, Handle(n, m) PROVE \E adv, g : Takes(n, m, adv, g)
  <2>1. PICK adv \in Advertisements : \E g \in Recalculated(n, Recorded(n, adv)) :
               Accept(n, m, adv, g) /\ ~Raises(n, g)
    BY <1>1, <1>4, HandleAccepts
  <2>2. PICK g \in Recalculated(n, Recorded(n, adv)) : Accept(n, m, adv, g) /\ ~Raises(n, g)
    BY <2>1
  <2>3. adv.origin # n /\ Arrives(n, m, adv)
    BY <2>2 DEF Accept, IsNews
  <2>4. g \in Graphs
    BY <2>3, RecordedType, RecalculatedType DEF MeshInv
  <2>5. met = conns
    BY <1>1 DEF Tidy, PeersStay
  <2> QED
    BY <2>2, <2>3, <2>4, <2>5 DEF Accept, Takes
<1> QED
  BY <1>1, <1>2, <1>3, <1>4, CalmBefore

(* What each of these steps leaves as it was.                              *)
LEMMA UpEffect ==
  ASSUME NEW n \in Nodes, NEW m \in Nodes, Up(n, m)
  PROVE  /\ link' = link \union {{n, m}}
         /\ UNCHANGED <<conns, met, manifest, seq, known, edges, timer, net>>
BY DEF Up, lives, views, tasks

LEMMA RegisterEffect ==
  ASSUME TypeInv, PeersStay, NEW n \in Nodes, NEW m \in Nodes, Register(n, m)
  PROVE  /\ {n, m} \in link /\ m \notin conns[n]
         /\ conns'[n] = conns[n] \union {m} /\ met' = conns' /\ manifest' = conns'
         /\ timer'[n] = IF timer[n] = "off" THEN "plain" ELSE timer[n]
         /\ \A k \in Nodes \ {n} : conns'[k] = conns[k] /\ timer'[k] = timer[k]
         /\ UNCHANGED <<link, seq, known, edges, net>>
<1>1. timer' = [timer EXCEPT ![n] = IF @ # "off" THEN @ ELSE "plain"]
  BY DEF Register, Soon
<1>2. timer \in [Nodes -> {"off", "plain", "forced"}] /\ conns \in [Nodes -> SUBSET Nodes]
  BY DEF TypeInv, TasksType, LinksType
<1>3. conns' = [conns EXCEPT ![n] = @ \union {m}]
  BY DEF Register
<1> QED
  BY <1>1, <1>2, <1>3 DEF Register, PeersStay, lives, views

LEMMA ChecksEffect ==
  ASSUME TypeInv, NEW n \in Nodes, NEW g, Checks(n, g)
  PROVE  /\ g \in Recalculated(n, known[n])
         /\ timer[n] # "off" /\ timer'[n] = "off" /\ edges'[n] = g
         /\ \A k \in Nodes \ {n} :
              timer'[k] = timer[k] /\ edges'[k] = edges[k] /\ seq'[k] = seq[k] /\ net'[k] = net[k]
         /\ UNCHANGED <<link, conns, met, manifest, known>>
         /\ \/ UNCHANGED <<seq, net>> /\ ~IsDue(n, g)
            \/ /\ seq'[n] = seq[n] + 1
               /\ \A k \in Nodes :
                    net'[n][k] = IF k \in conns[n] THEN Append(net[n][k], Advertisement(n, g))
                                                   ELSE net[n][k]
<1>1. /\ timer \in [Nodes -> {"off", "plain", "forced"}] /\ edges \in [Nodes -> Graphs]
      /\ seq \in [Nodes -> Nat] /\ net \in [Nodes -> [Nodes -> Seq(Advertisements)]]
  BY DEF TypeInv, TasksType, EdgesType, LivesType, NetType
<1>2. /\ timer[n] # "off" /\ timer' = [timer EXCEPT ![n] = "off"]
      /\ edges' = [edges EXCEPT ![n] = g]
      /\ UNCHANGED <<link, conns, met, manifest, known>>
  BY DEF Checks, Rechecked, links, views
<1>3. CASE UNCHANGED <<seq, net>> /\ ~IsDue(n, g)
  BY <1>1, <1>2, <1>3 DEF Checks
<1>4. CASE SendRoutes(n, g)
  <2>1. /\ seq' = [seq EXCEPT ![n] = seq[n] + 1]
        /\ net' = [net EXCEPT ![n] = Sent(n, conns[n], Advertisement(n, g))]
    BY <1>4 DEF SendRoutes, NextSequence
  <2>2. \A k \in Nodes : Sent(n, conns[n], Advertisement(n, g))[k] =
               IF k \in conns[n] THEN Append(net[n][k], Advertisement(n, g)) ELSE net[n][k]
    BY DEF Sent
  <2> QED
    BY <1>1, <1>2, <2>1, <2>2 DEF Checks
<1> QED
  BY <1>3, <1>4 DEF Checks

LEMMA TakesEffect ==
  ASSUME TypeInv, PeersFit, NEW n \in Nodes, NEW m \in Nodes, NEW adv, NEW g,
         Takes(n, m, adv, g)
  PROVE  /\ m # n /\ m \in conns[n] /\ n \in conns[m]
         /\ adv \in Advertisements /\ adv.origin # n /\ adv \in Elements(net[m][n])
         /\ net[m][n] # <<>> /\ adv = Head(net[m][n]) /\ Says(adv.origin, adv) \in Statements
         /\ known'[n] = Recorded(n, adv) /\ edges'[n] = g
         /\ timer'[n] = IF IsFirst(n, adv) /\ timer[n] = "off" THEN "forced" ELSE timer[n]
         /\ \A k \in Nodes \ {n} :
              known'[k] = known[k] /\ edges'[k] = edges[k] /\ timer'[k] = timer[k]
         /\ net'[m][n] = Tail(net[m][n])
         /\ \A k \in Nodes :
              net'[n][k] = IF k \in conns[n] \ {m} THEN Append(net[n][k], adv) ELSE net[n][k]
         /\ \A k, l \in Nodes : k # n /\ <<k, l>> # <<m, n>> => net'[k][l] = net[k][l]
         /\ UNCHANGED <<link, conns, met, manifest, seq>>
<1>1. Arrives(n, m, adv) /\ adv \in Advertisements /\ adv.origin # n
  BY DEF Takes
<1>2. timer'[n] = (IF IsFirst(n, adv) /\ timer[n] = "off" THEN "forced" ELSE timer[n])
      /\ \A k \in Nodes \ {n} : timer'[k] = timer[k]
  <2>1. timer \in [Nodes -> {"off", "plain", "forced"}]
    BY DEF TypeInv, TasksType
  <2>2. CASE IsFirst(n, adv)
    <3>1. timer' = [timer EXCEPT ![n] = IF @ # "off" THEN @ ELSE "forced"]
      BY <2>2 DEF Takes, Soon
    <3> QED
      BY <2>1, <2>2, <3>1
  <2>3. CASE ~IsFirst(n, adv)
    BY <2>3 DEF Takes
  <2> QED
    BY <2>2, <2>3
<1>3. adv \in Elements(net[m][n]) /\ net[m][n] # <<>> /\ adv = Head(net[m][n])
  BY <1>1, InBuffers, ElementsOf DEF Arrives
<1>4. Says(adv.origin, adv) \in Statements
  BY <1>3, StatementsFrom
<1>5. m # n
  BY <1>1 DEF Arrives, TypeInv, LinksType, PeersFit
<1>6. /\ known'[n] = Recorded(n, adv) /\ edges'[n] = g
      /\ \A k \in Nodes \ {n} : known'[k] = known[k] /\ edges'[k] = edges[k]
  <2>1. known \in [Nodes -> Tables] /\ edges \in [Nodes -> Graphs]
    BY DEF TypeInv, KnownType, EdgesType
  <2> QED
    BY <2>1 DEF Takes
<1>7. /\ net'[m][n] = Tail(net[m][n])
      /\ \A k \in Nodes :
           net'[n][k] = IF k \in conns[n] \ {m} THEN Append(net[n][k], adv) ELSE net[n][k]
      /\ \A k, l \in Nodes : k # n /\ <<k, l>> # <<m, n>> => net'[k][l] = net[k][l]
  <2>1. net \in [Nodes -> [Nodes -> Seq(Advertisements)]]
    BY DEF TypeInv, NetType
  <2>2. net' = [Taken(n, m) EXCEPT ![n] = Sent(n, conns[n] \ {m}, adv)]
    BY DEF Takes
  <2>3. /\ Taken(n, m) \in [Nodes -> [Nodes -> Seq(Advertisements)]]
        /\ Taken(n, m)[m][n] = Tail(net[m][n])
        /\ \A k, l \in Nodes : k # n /\ <<k, l>> # <<m, n>> => Taken(n, m)[k][l] = net[k][l]
    BY <1>1, <2>1, TakenType DEF Taken
  <2>4. \A k \in Nodes : Sent(n, conns[n] \ {m}, adv)[k] =
               IF k \in conns[n] \ {m} THEN Append(net[n][k], adv) ELSE net[n][k]
    BY DEF Sent
  <2>5. net'[n] = Sent(n, conns[n] \ {m}, adv) /\ \A k \in Nodes \ {n} : net'[k] = Taken(n, m)[k]
    BY <2>2, <2>3
  <2>6. net'[m][n] = Tail(net[m][n])
    BY <1>5, <2>3, <2>5
  <2>7. \A k, l \in Nodes : k # n /\ <<k, l>> # <<m, n>> => net'[k][l] = net[k][l]
    BY <2>3, <2>5
  <2> QED
    BY <2>4, <2>5, <2>6, <2>7
<1> QED
  BY <1>1, <1>2, <1>3, <1>4, <1>5, <1>6, <1>7 DEF Takes, Arrives, links, lives

-----------------------------------------------------------------------------

LEMMA PeersStayStep ==
  ASSUME MeshInv, SmallForestSurvives, CalmIsTidy, [Next]_vars, Calm'
  PROVE  PeersStay' /\ link \subseteq link' /\ \A n \in Nodes : conns[n] \subseteq conns'[n]
<1>1. PeersStay /\ TypeInv
  BY CalmSteps DEF Tidy, MeshInv
<1>2. ASSUME UNCHANGED <<conns, met, manifest>>, link \subseteq link'
      PROVE  PeersStay' /\ \A n \in Nodes : conns[n] \subseteq conns'[n]
  BY <1>1, <1>2 DEF PeersStay
<1>3. ASSUME NEW n \in Nodes, NEW m \in Nodes, Register(n, m)
      PROVE  PeersStay' /\ link \subseteq link' /\ \A k \in Nodes : conns[k] \subseteq conns'[k]
  <2>1. /\ {n, m} \in link /\ conns'[n] = conns[n] \union {m}
        /\ \A k \in Nodes \ {n} : conns'[k] = conns[k]
        /\ met' = conns' /\ manifest' = conns' /\ link' = link
    BY <1>1, <1>3, RegisterEffect
  <2> QED
    BY <1>1, <2>1 DEF PeersStay
<1>4. CASE UNCHANGED vars
  BY <1>2, <1>4 DEF vars, links
<1> QED
  BY <1>1, <1>2, <1>3, <1>4, CalmSteps, UpEffect, ChecksEffect, TakesEffect DEF MeshInv

(* What a node that checks its routes recalculates.                        *)
LEMMA RecheckedIs ==
  ASSUME TypeInv, PeersStay, SaysConnections, NEW n \in Nodes,
         NEW g \in Recalculated(n, known[n])
  PROVE  /\ DOMAIN g = Beside(n) \union Claims(known[n])
         /\ \A p \in DOMAIN g : p \in link /\ g[p] = Near
<1>1. ASSUME NEW o \in DOMAIN known[n], NEW p \in DOMAIN known[n][o].connections
      PROVE  p \in link /\ known[n][o].connections[p] = Near
  <2>1. Says(o, known[n][o]) \in Statements
    BY StatementsFrom
  <2> QED
    BY <1>1, <2>1 DEF SaysConnections, Says
<1>2. DOMAIN g = Beside(n) \union Claims(known[n]) /\ \A p \in DOMAIN g : g[p] = Near
  <2>1. manifest = conns
    BY DEF PeersStay
  <2>2. \A o \in DOMAIN known[n] : \A p \in DOMAIN known[n][o].connections :
          known[n][o].connections[p] = Near
    BY <1>1
  <2> QED
    BY <2>1, <2>2, RecalculatedIs
<1>3. \A p \in DOMAIN g : p \in link
  BY <1>1, <1>2 DEF Beside, Claims, PeersStay
<1> QED
  BY <1>2, <1>3

(* What an advertisement says is connected and at cost 1.                  *)
LEMMA AdvertisesConnections ==
  ASSUME TypeInv, PeersStay, SaysConnections, NEW n \in Nodes,
         NEW g \in Recalculated(n, known[n]), NEW adv, adv = Advertisement(n, g)
  PROVE  /\ adv.origin = n /\ adv.sequence = seq[n] + 1 /\ adv.names = DOMAIN known[n]
         /\ Beside(n) \subseteq DOMAIN adv.connections
         /\ \A p \in DOMAIN adv.connections : p \in link /\ n \in p /\ adv.connections[p] = Near
<1>1. /\ DOMAIN g = Beside(n) \union Claims(known[n])
      /\ \A p \in DOMAIN g : p \in link /\ g[p] = Near
  BY RecheckedIs
<1>2. /\ adv.connections = [p \in {q \in DOMAIN g : n \in q} |-> g[p]]
      /\ adv.origin = n /\ adv.sequence = seq[n] + 1 /\ adv.names = DOMAIN known[n]
  BY DEF Advertisement
<1>3. \A p \in Beside(n) : n \in p
  BY DEF Beside
<1> QED
  BY <1>1, <1>2, <1>3

LEMMA SaysConnectionsStep ==
  ASSUME MeshInv, SmallForestSurvives, CalmIsTidy, [Next]_vars, Calm'
  PROVE  SaysConnections'
<1>1. Tidy /\ TypeInv /\ link \subseteq link'
  BY CalmSteps, PeersStayStep DEF MeshInv
<1> DEFINE Fits(s) == /\ \A p \in DOMAIN s.connections :
                           p \in link /\ s.origin \in p /\ s.connections[p] = Near
                      /\ s.sequence > 0 => DOMAIN s.connections # {}
<1>2. \A s \in Statements : Fits(s)
  BY <1>1 DEF Tidy, SaysConnections
<1>3. \A s \in Unsaid : Fits(s)
  BY DEF Unsaid, Says, Unheard
<1>4. ASSUME NEW n \in Nodes, NEW g \in Recalculated(n, known[n]), Check(n)
      PROVE  Fits(Says(n, Advertisement(n, g)))
  <2>1. PICK adv : adv = Advertisement(n, g)
    OBVIOUS
  <2>2. timer[n] # "off"
    BY <1>4 DEF Check, SendRoutes, SendNothing, Rechecked
  <2>3. PICK m : m \in conns[n]
    BY <1>1, <2>2 DEF Tidy, OnlyPeersTalk
  <2>4. {n, m} \in Beside(n) /\ PeersStay /\ SaysConnections
    BY <1>1, <2>3 DEF Beside, Tidy
  <2>5. /\ Beside(n) \subseteq DOMAIN adv.connections
        /\ \A p \in DOMAIN adv.connections : p \in link /\ n \in p /\ adv.connections[p] = Near
    <3>1. TypeInv
      BY <1>1
    <3> HIDE DEF Fits
    <3> QED
      BY <2>1, <2>4, <3>1, AdvertisesConnections
  <2>6. Says(n, adv).connections = adv.connections /\ Says(n, adv).origin = n
    BY DEF Says
  <2> QED
    BY <2>1, <2>4, <2>5, <2>6
<1>5. \A s \in Statements' : Fits(s)
  BY <1>1, <1>2, <1>3, <1>4, WhatIsSaid
<1> QED
  BY <1>1, <1>5 DEF SaysConnections

LEMMA OnlyPeersTalkStep ==
  ASSUME MeshInv, SmallForestSurvives, CalmIsTidy, [Next]_vars, Calm'
  PROVE  OnlyPeersTalk'
<1>1. OnlyPeersTalk /\ PeersStay /\ TypeInv /\ \A n \in Nodes : conns[n] \subseteq conns'[n]
  BY CalmSteps, PeersStayStep DEF MeshInv, Tidy
<1>2. ASSUME UNCHANGED <<timer, seq, known>> PROVE OnlyPeersTalk'
  BY <1>1, <1>2 DEF OnlyPeersTalk
<1>3. ASSUME NEW n \in Nodes, NEW m \in Nodes, Register(n, m) PROVE OnlyPeersTalk'
  <2>1. /\ m \in conns'[n] /\ UNCHANGED <<seq, known>>
        /\ \A k \in Nodes \ {n} : timer'[k] = timer[k]
    <3>1. conns'[n] = conns[n] \union {m}
      BY <1>1, <1>3, RegisterEffect
    <3>2. UNCHANGED <<seq, known>> /\ \A k \in Nodes \ {n} : timer'[k] = timer[k]
      BY <1>1, <1>3, RegisterEffect
    <3> QED
      BY <3>1, <3>2
  <2> QED
    BY <1>1, <2>1 DEF OnlyPeersTalk
<1>4. ASSUME NEW n \in Nodes, NEW g, Checks(n, g) PROVE OnlyPeersTalk'
  <2>1. /\ timer[n] # "off" /\ known' = known
        /\ \A k \in Nodes \ {n} : timer'[k] = timer[k] /\ seq'[k] = seq[k]
    BY <1>1, <1>4, ChecksEffect
  <2> QED
    BY <1>1, <2>1 DEF OnlyPeersTalk
<1>5. ASSUME NEW n \in Nodes, NEW m \in Nodes, NEW adv, NEW g, Takes(n, m, adv, g)
      PROVE  OnlyPeersTalk'
  <2>1. /\ m \in conns[n] /\ seq' = seq
        /\ \A k \in Nodes \ {n} : timer'[k] = timer[k] /\ known'[k] = known[k]
    BY <1>1, <1>5, TakesEffect DEF MeshInv
  <2> QED
    BY <1>1, <2>1 DEF OnlyPeersTalk
<1> QED
  BY <1>2, <1>3, <1>4, <1>5, CalmSteps, UpEffect DEF vars, tasks, lives, views

(* What a node has recorded says connections at cost 1.                    *)
LEMMA RecordedSays ==
  ASSUME SaysConnections, NEW n \in Nodes, NEW adv, Says(adv.origin, adv) \in Statements,
         NEW report, report = Recorded(n, adv)
  PROVE  \A o \in DOMAIN report : \A p \in DOMAIN report[o].connections :
           report[o].connections[p] = Near
<1> SUFFICES ASSUME NEW o \in DOMAIN report, NEW p \in DOMAIN report[o].connections
             PROVE  report[o].connections[p] = Near
  OBVIOUS
<1>1. \/ o = adv.origin /\ report[o].connections = adv.connections
      \/ o \in DOMAIN known[n] /\ report[o].connections = known[n][o].connections
  <2>1. report[adv.origin].connections = adv.connections
    BY RecordedIs
  <2>2. report[o].connections # <<>>
    OBVIOUS
  <2> QED
    BY <2>1, <2>2, RecordedOthers
<1>2. o \in DOMAIN known[n] => Says(o, known[n][o]) \in Statements
  BY StatementsFrom
<1> QED
  BY <1>1, <1>2 DEF SaysConnections, Says

LEMMA EdgesAreKnownStep ==
  ASSUME MeshInv, SmallForestSurvives, CalmIsTidy, [Next]_vars, Calm'
  PROVE  EdgesAreKnown'
<1>1. Tidy /\ TypeInv
  BY CalmSteps DEF MeshInv
<1>2. EdgesAreKnown /\ PeersStay /\ SaysConnections
  BY <1>1 DEF Tidy
<1> DEFINE Are(n) ==
             /\ \A p \in DOMAIN edges[n] : edges[n][p] = Near
             /\ Claims(known[n]) \subseteq DOMAIN edges[n]
             /\ DOMAIN edges[n] \subseteq Beside(n) \union Claims(known[n])
             /\ timer[n] = "off" => Beside(n) \subseteq DOMAIN edges[n]
<1>3. ASSUME NEW k \in Nodes, edges'[k] = edges[k], known'[k] = known[k], conns'[k] = conns[k],
             timer'[k] = timer[k]
      PROVE  Are(k)'
  <2>1. Are(k)
    BY <1>2 DEF EdgesAreKnown
  <2> QED
    BY <1>3, <2>1 DEF Beside
<1>4. ASSUME NEW n \in Nodes, NEW m \in Nodes, Register(n, m) PROVE EdgesAreKnown'
  <2>1. /\ conns'[n] = conns[n] \union {m} /\ timer'[n] # "off" /\ UNCHANGED <<edges, known>>
        /\ \A k \in Nodes \ {n} : conns'[k] = conns[k] /\ timer'[k] = timer[k]
    BY <1>1, <1>2, <1>4, RegisterEffect
  <2>2. Are(n)
    BY <1>2 DEF EdgesAreKnown
  <2>3. Beside(n) \subseteq Beside(n)'
    BY <2>1 DEF Beside
  <2>4. Are(n)'
    BY <2>1, <2>2, <2>3
  <2>5. \A k \in Nodes \ {n} : Are(k)'
    BY <1>3, <2>1
  <2> QED
    BY <2>4, <2>5 DEF EdgesAreKnown
<1>5. ASSUME NEW n \in Nodes, NEW g, Checks(n, g) PROVE EdgesAreKnown'
  <2>1. /\ g \in Recalculated(n, known[n]) /\ edges'[n] = g /\ UNCHANGED <<conns, known>>
        /\ \A k \in Nodes \ {n} : timer'[k] = timer[k] /\ edges'[k] = edges[k]
    BY <1>1, <1>5, ChecksEffect
  <2>2. DOMAIN g = Beside(n) \union Claims(known[n]) /\ \A p \in DOMAIN g : g[p] = Near
    BY <1>1, <1>2, <2>1, RecheckedIs
  <2>3. Are(n)'
    BY <2>1, <2>2 DEF Beside
  <2> QED
    BY <1>3, <2>1, <2>3 DEF EdgesAreKnown
<1>6. ASSUME NEW n \in Nodes, NEW m \in Nodes, NEW adv, NEW g, Takes(n, m, adv, g)
      PROVE  EdgesAreKnown'
  <2>1. PICK report : report = Recorded(n, adv)
    OBVIOUS
  <2>2. /\ known'[n] = report /\ edges'[n] = g /\ conns' = conns
        /\ \A k \in Nodes \ {n} :
             known'[k] = known[k] /\ edges'[k] = edges[k] /\ timer'[k] = timer[k]
        /\ Says(adv.origin, adv) \in Statements
    BY <1>1, <1>6, <2>1, TakesEffect DEF MeshInv
  <2>4. \A o \in DOMAIN report : \A p \in DOMAIN report[o].connections :
          report[o].connections[p] = Near
    BY <1>2, <2>1, <2>2, RecordedSays
  <2>5. manifest = conns /\ g \in Recalculated(n, report)
    BY <1>2, <1>6, <2>1 DEF PeersStay, Takes
  <2>6. DOMAIN g = Beside(n) \union Claims(report) /\ \A p \in DOMAIN g : g[p] = Near
    BY <1>1, <2>4, <2>5, RecalculatedIs
  <2>7. Are(n)'
    BY <2>2, <2>6 DEF Beside
  <2> QED
    BY <1>3, <2>2, <2>7 DEF EdgesAreKnown
<1>7. ASSUME UNCHANGED <<conns, known, edges, timer>> PROVE EdgesAreKnown'
  BY <1>3, <1>7 DEF EdgesAreKnown
<1> QED
  BY <1>4, <1>5, <1>6, <1>7, CalmSteps, UpEffect DEF vars, tasks, views, links

LEMMA TidyStep ==
  MeshInv /\ SmallForestSurvives /\ CalmIsTidy /\ [Next]_vars => CalmIsTidy'
BY PeersStayStep, SaysConnectionsStep, EdgesAreKnownStep, OnlyPeersTalkStep DEF CalmIsTidy, Tidy

-----------------------------------------------------------------------------
(* What a node learns of the connection beyond its neighbour.              *)

Path(a, b, c) ==
  /\ a # b /\ b # c /\ a # c
  /\ {a, b} \in scenario.links /\ {b, c} \in scenario.links

(* In a path are all nodes; its ends have no connection.                   *)
LEMMA PathFacts ==
  ASSUME MeshInv, Calm, Tidy, NEW a \in Nodes, NEW b \in Nodes, NEW c \in Nodes, Path(a, b, c)
  PROVE  /\ Path(c, b, a) /\ a # b /\ b # c /\ a # c
         /\ \A n \in Nodes : n \in {a, b, c}
         /\ {a, c} \notin link
         /\ conns[a] \subseteq {b} /\ conns[c] \subseteq {b} /\ conns[b] \subseteq {a, c}
<1>1. Path(c, b, a) /\ a # b /\ b # c /\ a # c
  <2>1. {b, a} = {a, b} /\ {c, b} = {b, c}
    OBVIOUS
  <2> QED
    BY <2>1 DEF Path
<1>2. \A n \in Nodes : n \in {a, b, c}
  BY <1>1, NoFourth DEF Calm, InSmallForest
<1>3. {a, c} \notin scenario.links
  <2> SUFFICES ASSUME {a, c} \in scenario.links PROVE FALSE
    OBVIOUS
  <2>1. PICK toward \in [Nodes -> [Nodes -> Nodes]] : Guides(toward, scenario.links)
    BY DEF Calm, InSmallForest, IsForest
  <2>2. b \in Nodes \ {a, c}
    BY <1>1
  <2>3. toward[a][b] = c \/ toward[c][b] = a
    BY <1>1, <2>1, <2>2 DEF Guides
  <2>4. toward[a][b] = b /\ toward[c][b] = b
    BY <1>1, <2>1 DEF Guides, Path
  <2> QED
    BY <1>1, <2>3, <2>4
<1>4. \A n \in Nodes : \A m \in conns[n] : m \in Nodes /\ m # n /\ {n, m} \in scenario.links
  <2>1. PeersFit /\ faults = 0 /\ met = conns /\ manifest = conns
    BY DEF MeshInv, Calm, Tidy, PeersStay
  <2>2. conns \in [Nodes -> SUBSET Nodes]
    BY DEF MeshInv, TypeInv, LinksType
  <2> QED
    BY <2>1, <2>2 DEF PeersFit
<1>5. {a, c} \notin link
  BY <1>3 DEF MeshInv, TypeInv, LinksType
<1>6. {c, a} \notin scenario.links
  <2>1. {c, a} = {a, c}
    OBVIOUS
  <2> QED
    BY <1>3, <2>1
<1>7. \A m \in conns[a] : m = b
  BY <1>2, <1>3, <1>4
<1>8. \A m \in conns[c] : m = b
  BY <1>2, <1>3, <1>4, <1>6
<1>9. \A m \in conns[b] : m = a \/ m = c
  BY <1>2, <1>4
<1> QED
  BY <1>1, <1>2, <1>5, <1>7, <1>8, <1>9

(* From an end comes what the end itself says: its one connection.  To an  *)
(* end comes what the other two say.                                       *)
LEMMA WhatEndsSay ==
  ASSUME MeshInv, Calm, Tidy, NEW a \in Nodes, NEW b \in Nodes, NEW c \in Nodes, Path(a, b, c)
  PROVE  /\ \A adv \in Elements(net[a][b]) : adv.origin = a /\ {a, b} \in DOMAIN adv.connections
         /\ \A s \in Statements : s.origin = a => DOMAIN s.connections \subseteq {{a, b}}
<1>1. a # b /\ b # c /\ a # c /\ {a, c} \notin link /\ \A n \in Nodes : n \in {a, b, c}
  BY PathFacts
<1>2. TypeInv /\ PeersFit /\ SaysConnections
  BY DEF MeshInv, Tidy
<1>3. PICK toward \in [Nodes -> [Nodes -> Nodes]] : Guides(toward, scenario.links)
  BY DEF Calm, InSmallForest, IsForest
<1>4. OutwardInOrder(toward)
  BY <1>3 DEF MeshInv, InForest, Calm
<1>5. toward[b][c] = c
  BY <1>1, <1>3 DEF Guides, Path
<1>6. ASSUME NEW s \in Statements, s.origin = a
      PROVE  DOMAIN s.connections \subseteq {{a, b}}
  <2> SUFFICES ASSUME NEW p \in DOMAIN s.connections PROVE p = {a, b}
    OBVIOUS
  <2>1. p \in link /\ a \in p
    BY <1>2, <1>6 DEF SaysConnections
  <2>2. PICK x \in Nodes, y \in Nodes : p = {x, y}
    <3>1. s.connections \in Graphs
      BY <1>2, StatementType
    <3> QED
      BY <3>1, GraphType DEF IsGraph
  <2>3. p # {a} /\ p # {a, c}
    BY <1>1, <1>2, <2>1 DEF PeersFit
  <2> QED
    BY <1>1, <2>1, <2>2, <2>3
<1>7. ASSUME NEW adv \in Elements(net[a][b])
      PROVE  adv.origin = a /\ {a, b} \in DOMAIN adv.connections
  <2>1. adv \in Advertisements /\ Says(adv.origin, adv) \in Statements
    BY <1>2, InBuffers, StatementsFrom
  <2>2. adv.origin = a
    <3>1. Outward(toward, a, b, adv)
      BY <1>4 DEF OutwardInOrder
    <3>2. adv.origin \in Nodes
      BY <2>1 DEF Advertisements
    <3> QED
      BY <1>1, <1>5, <3>1, <3>2 DEF Outward
  <2>3. DOMAIN adv.connections # {}
    <3>1. Says(adv.origin, adv).sequence > 0
      BY <2>1 DEF Says, Advertisements
    <3> QED
      BY <1>2, <2>1, <3>1 DEF SaysConnections, Says
  <2>4. DOMAIN adv.connections \subseteq {{a, b}}
    BY <1>6, <2>1, <2>2 DEF Says
  <2> QED
    BY <2>2, <2>3, <2>4
<1> QED
  BY <1>6, <1>7

(* What the timer is set for before the first advertisement and when       *)
(* somebody was heard of for the first time.                               *)
Will(a) == timer[a] # "off" /\ (timer[a] = "forced" \/ seq[a] = 0)

(* What the steps do in a path: an end registers with its neighbour, the   *)
(* middle b with m, n checks its routes, an end takes what its neighbour   *)
(* sends, the middle what an end says, and passes it to the other end.     *)
EndRegisters(a, b) ==
  /\ timer'[a] = "plain" /\ seq[a] = 0
  /\ \A n \in Nodes \ {a} : conns'[n] = conns[n] /\ timer'[n] = timer[n]
  /\ UNCHANGED <<seq, known, edges, net>>

MiddleRegisters(b, m) ==
  /\ m \notin conns[b] /\ conns'[b] = conns[b] \union {m} /\ timer'[b] # "off"
  /\ \A n \in Nodes \ {b} : conns'[n] = conns[n] /\ timer'[n] = timer[n]
  /\ UNCHANGED <<seq, known, edges, net>>

SaysOwn(n, adv) ==
  /\ adv.origin = n /\ adv.names = DOMAIN known[n]
  /\ Beside(n) \subseteq DOMAIN adv.connections
  /\ DOMAIN adv.connections \subseteq Beside(n) \union Claims(known[n])
Rechecks(n) ==
  /\ timer[n] # "off" /\ timer'[n] = "off"
  /\ \A k \in Nodes \ {n} :
       timer'[k] = timer[k] /\ edges'[k] = edges[k] /\ seq'[k] = seq[k] /\ net'[k] = net[k]
  /\ UNCHANGED <<conns, known>>
  /\ \/ UNCHANGED <<seq, net>> /\ ~Will(n) /\ Beside(n) \subseteq DOMAIN edges[n]
     \/ \E adv :
          /\ SaysOwn(n, adv)
          /\ \A k \in Nodes :
               net'[n][k] = IF k \in conns[n] THEN Append(net[n][k], adv) ELSE net[n][k]

MiddleTakes(a, b, c, adv) ==
  /\ a \in conns[b] /\ b \in conns[a]
  /\ adv.origin = a /\ {a, b} \in DOMAIN adv.connections
  /\ adv \in Elements(net[a][b]) /\ net[a][b] # <<>>
  /\ net'[a][b] = Tail(net[a][b]) /\ net'[c][b] = net[c][b] /\ net'[b][a] = net[b][a]
  /\ net'[b][c] = IF c \in conns[b] THEN Append(net[b][c], adv) ELSE net[b][c]
  /\ UNCHANGED <<conns, seq>> /\ known'[a] = known[a] /\ known'[c] = known[c]
  /\ timer'[a] = timer[a] /\ timer'[c] = timer[c]
  /\ a \in DOMAIN known'[b] /\ known'[b][a].connections = adv.connections
  /\ DOMAIN known[b] \subseteq DOMAIN known'[b]
  /\ c \in DOMAIN known[b] => known'[b][c].connections = known[b][c].connections
  /\ c \in DOMAIN known'[b] => c \in DOMAIN known[b] \union adv.names

EndTakes(a, b, c, adv) ==
  /\ a \in conns[b] /\ b \in conns[a]
  /\ adv \in Elements(net[b][a]) /\ net[b][a] # <<>> /\ adv = Head(net[b][a])
  /\ net'[b][a] = Tail(net[b][a]) /\ net'[a][b] = net[a][b]
  /\ net'[b][c] = net[b][c] /\ net'[c][b] = net[c][b]
  /\ UNCHANGED <<conns, seq>> /\ known'[b] = known[b] /\ known'[c] = known[c]
  /\ timer'[b] = timer[b] /\ timer'[c] = timer[c] /\ edges'[b] = edges[b]
  /\ timer'[a] = IF adv.origin \notin DOMAIN known[a] /\ timer[a] = "off" THEN "forced"
                                                                         ELSE timer[a]
  /\ DOMAIN known'[a] \subseteq DOMAIN known[a] \union adv.names \union {adv.origin}
  /\ DOMAIN adv.connections \subseteq Claims(known'[a])
  /\ Claims(known'[a]) \subseteq Claims(known[a]) \union DOMAIN adv.connections

LEMMA EndRegistersStep ==
  ASSUME MeshInv, Calm, Tidy, NEW a \in Nodes, NEW b \in Nodes, NEW c \in Nodes, Path(a, b, c),
         Register(a, b)
  PROVE  EndRegisters(a, b)
<1>1. TypeInv /\ PeersStay /\ conns[a] \subseteq {b}
  BY PathFacts DEF MeshInv, Tidy
<1>2. /\ b \notin conns[a] /\ timer'[a] = IF timer[a] = "off" THEN "plain" ELSE timer[a]
      /\ \A n \in Nodes \ {a} : conns'[n] = conns[n] /\ timer'[n] = timer[n]
      /\ UNCHANGED <<seq, known, edges, net>>
  BY <1>1, RegisterEffect
<1>3. conns[a] = {}
  BY <1>1, <1>2
<1>4. timer[a] = "off" /\ seq[a] = 0
  <2>1. seq[a] \in Nat
    BY <1>1 DEF TypeInv, LivesType
  <2> QED
    BY <1>3, <2>1 DEF Tidy, OnlyPeersTalk
<1> QED
  BY <1>2, <1>4 DEF EndRegisters

LEMMA MiddleRegistersStep ==
  ASSUME TypeInv, PeersStay, NEW b \in Nodes, NEW m \in Nodes, Register(b, m)
  PROVE  MiddleRegisters(b, m)
BY RegisterEffect DEF MiddleRegisters

LEMMA RechecksStep ==
  ASSUME MeshInv, Calm, Tidy, NEW n \in Nodes, NEW g, Checks(n, g)
  PROVE  Rechecks(n)
<1>1. TypeInv /\ PeersStay /\ SaysConnections
  BY DEF MeshInv, Tidy
<1>2. PICK adv : adv = Advertisement(n, g)
  OBVIOUS
<1>3. /\ g \in Recalculated(n, known[n])
      /\ timer[n] # "off" /\ timer'[n] = "off"
      /\ \A k \in Nodes \ {n} :
           timer'[k] = timer[k] /\ edges'[k] = edges[k] /\ seq'[k] = seq[k] /\ net'[k] = net[k]
      /\ UNCHANGED <<conns, known>>
      /\ \/ UNCHANGED <<seq, net>> /\ ~IsDue(n, g)
         \/ /\ seq'[n] = seq[n] + 1
            /\ \A k \in Nodes :
                 net'[n][k] = IF k \in conns[n] THEN Append(net[n][k], adv) ELSE net[n][k]
  BY <1>1, <1>2, ChecksEffect
<1>4. DOMAIN g = Beside(n) \union Claims(known[n])
  BY <1>1, <1>3, RecheckedIs
<1>5. ASSUME ~IsDue(n, g) PROVE ~Will(n) /\ Beside(n) \subseteq DOMAIN edges[n]
  BY <1>4, <1>5 DEF IsDue, Will
<1>6. /\ adv.origin = n /\ adv.names = DOMAIN known[n]
      /\ Beside(n) \subseteq DOMAIN adv.connections
  BY <1>1, <1>2, <1>3, AdvertisesConnections
<1>7. DOMAIN adv.connections \subseteq Beside(n) \union Claims(known[n])
  <2>1. adv.connections = [p \in {q \in DOMAIN g : n \in q} |-> g[p]]
    BY <1>2 DEF Advertisement
  <2> QED
    BY <1>4, <2>1
<1> QED
  BY <1>3, <1>5, <1>6, <1>7 DEF Rechecks, SaysOwn

LEMMA MiddleTakesStep ==
  ASSUME MeshInv, Calm, Tidy, NEW a \in Nodes, NEW b \in Nodes, NEW c \in Nodes, Path(a, b, c),
         NEW adv, NEW g, Takes(b, a, adv, g)
  PROVE  MiddleTakes(a, b, c, adv)
<1>1. /\ a # b /\ b # c /\ a # c /\ {a, c} \notin link /\ \A n \in Nodes : n \in {a, b, c}
      /\ TypeInv /\ PeersFit /\ SaysConnections
  BY PathFacts DEF MeshInv, Tidy
<1>2. PICK report : report = Recorded(b, adv)
  OBVIOUS
<1>3. /\ a \in conns[b] /\ b \in conns[a] /\ adv \in Elements(net[a][b]) /\ net[a][b] # <<>>
      /\ known'[b] = report /\ UNCHANGED <<conns, seq>>
      /\ \A k \in Nodes \ {b} : known'[k] = known[k] /\ timer'[k] = timer[k]
      /\ net'[a][b] = Tail(net[a][b])
      /\ \A k \in Nodes :
           net'[b][k] = IF k \in conns[b] \ {a} THEN Append(net[b][k], adv) ELSE net[b][k]
      /\ \A k, l \in Nodes : k # b /\ <<k, l>> # <<a, b>> => net'[k][l] = net[k][l]
  BY <1>1, <1>2, TakesEffect
<1>4. adv.origin = a /\ {a, b} \in DOMAIN adv.connections
  BY <1>3, WhatEndsSay
<1>5. /\ net'[c][b] = net[c][b] /\ net'[b][a] = net[b][a]
      /\ net'[b][c] = IF c \in conns[b] THEN Append(net[b][c], adv) ELSE net[b][c]
  BY <1>1, <1>3
<1>6. /\ a \in DOMAIN report /\ report[a].connections = adv.connections
      /\ DOMAIN report \subseteq DOMAIN known[b] \union adv.names \union {a}
  <2>1. a \in DOMAIN report /\ report[a].connections = adv.connections
    <3>1. adv.origin \in DOMAIN report /\ report[adv.origin].connections = adv.connections
      BY <1>2, RecordedIs
    <3> QED
      BY <1>4, <3>1
  <2>2. DOMAIN report \subseteq DOMAIN known[b] \union adv.names \union {a}
    BY <1>2, <1>4, RecordedNames
  <2> QED
    BY <2>1, <2>2
<1>7. c \in DOMAIN known[b] => c \in DOMAIN report
  <2> SUFFICES ASSUME c \in DOMAIN known[b] PROVE c \in DOMAIN report
    OBVIOUS
  <2>1. Says(c, known[b][c]) \in Statements
    BY StatementsFrom
  <2>2. \A p \in DOMAIN known[b][c].connections : p \in link
    BY <1>1, <2>1 DEF SaysConnections, Says
  <2>3. {c, adv.origin} \notin DOMAIN known[b][c].connections
    <3>1. {c, a} = {a, c}
      OBVIOUS
    <3> QED
      BY <1>1, <1>4, <2>2, <3>1
  <2> QED
    BY <1>1, <1>2, <2>3, RecordedKeeps
<1>8. DOMAIN known[b] \subseteq {a, c}
  BY <1>1, TableType DEF TypeInv, KnownType
<1>9. DOMAIN known[b] \subseteq DOMAIN report
  BY <1>1, <1>6, <1>7, <1>8
<1>10. c \in DOMAIN known[b] => report[c].connections = known[b][c].connections
  <2> SUFFICES ASSUME c \in DOMAIN known[b]
               PROVE  report[c].connections = known[b][c].connections
    OBVIOUS
  <2>1. c \in DOMAIN report \ {adv.origin}
    BY <1>1, <1>4, <1>9
  <2> QED
    BY <1>2, <2>1, RecordedOthers
<1>11. c \in DOMAIN report => c \in DOMAIN known[b] \union adv.names
  BY <1>1, <1>6
<1> QED
  BY <1>1, <1>3, <1>4, <1>5, <1>6, <1>9, <1>10, <1>11 DEF MiddleTakes

LEMMA EndTakesStep ==
  ASSUME MeshInv, Calm, Tidy, NEW a \in Nodes, NEW b \in Nodes, NEW c \in Nodes, Path(a, b, c),
         NEW adv, NEW g, Takes(a, b, adv, g)
  PROVE  EndTakes(a, b, c, adv)
<1>1. /\ a # b /\ b # c /\ a # c /\ conns[a] \subseteq {b}
      /\ TypeInv /\ PeersFit
  BY PathFacts DEF MeshInv
<1>2. PICK report : report = Recorded(a, adv)
  OBVIOUS
<1>3. /\ a \in conns[b] /\ b \in conns[a] /\ adv \in Elements(net[b][a]) /\ net[b][a] # <<>>
      /\ adv = Head(net[b][a]) /\ known'[a] = report /\ UNCHANGED <<conns, seq>>
      /\ timer'[a] = IF IsFirst(a, adv) /\ timer[a] = "off" THEN "forced" ELSE timer[a]
      /\ \A k \in Nodes \ {a} :
           known'[k] = known[k] /\ timer'[k] = timer[k] /\ edges'[k] = edges[k]
      /\ net'[b][a] = Tail(net[b][a])
      /\ \A k \in Nodes :
           net'[a][k] = IF k \in conns[a] \ {b} THEN Append(net[a][k], adv) ELSE net[a][k]
      /\ \A k, l \in Nodes : k # a /\ <<k, l>> # <<b, a>> => net'[k][l] = net[k][l]
  BY <1>1, <1>2, TakesEffect
<1>4. net'[a][b] = net[a][b] /\ net'[b][c] = net[b][c] /\ net'[c][b] = net[c][b]
  BY <1>1, <1>3
<1>5. /\ adv.origin \in DOMAIN report /\ report[adv.origin].connections = adv.connections
      /\ DOMAIN report \subseteq DOMAIN known[a] \union adv.names \union {adv.origin}
  <2>1. adv.origin \in DOMAIN report /\ report[adv.origin].connections = adv.connections
    BY <1>2, RecordedIs
  <2>2. DOMAIN report \subseteq DOMAIN known[a] \union adv.names \union {adv.origin}
    BY <1>2, RecordedNames
  <2> QED
    BY <2>1, <2>2
<1>6. DOMAIN adv.connections \subseteq Claims(report)
  BY <1>5 DEF Claims
<1>7. ASSUME NEW o \in DOMAIN report
      PROVE  DOMAIN report[o].connections \subseteq Claims(known[a]) \union DOMAIN adv.connections
  <2>1. CASE o = adv.origin
    BY <1>5, <2>1
  <2>2. CASE o # adv.origin
    <3>1. \/ o \in DOMAIN known[a] /\ report[o].connections = known[a][o].connections
          \/ report[o].connections = <<>>
      BY <1>2, <2>2, RecordedOthers
    <3> QED
      BY <3>1 DEF Claims
  <2> QED
    BY <2>1, <2>2
<1>8. Claims(report) \subseteq Claims(known[a]) \union DOMAIN adv.connections
  BY <1>7 DEF Claims
<1> QED
  BY <1>1, <1>3, <1>4, <1>5, <1>6, <1>8 DEF IsFirst, EndTakes

-----------------------------------------------------------------------------

Mentions(adv, p) == p \in DOMAIN adv.connections

(* A timer that is not forced waits for the first advertisement of an end. *)
PlainIsFirst(a) == timer[a] = "plain" => seq[a] = 0

(* What an end with a connection has to say is to come or was heard.       *)
EndTells(a, b) ==
  b \in conns[a] =>
    (timer[a] # "off" /\ seq[a] = 0) \/ net[a][b] # <<>> \/ a \in DOMAIN known[b]

(* The middle knows of an end only by its advertisement, which says their  *)
(* connection.                                                             *)
MiddleKnows(b, c) ==
  c \in DOMAIN known[b] => {b, c} \in DOMAIN known[b][c].connections /\ c \in conns[b]

(* The other end is a name for nobody before the middle knows of it.       *)
MiddleFirst(a, b, c) ==
  /\ \A v \in Elements(net[a][b]) : c \in v.names => c \in DOMAIN known[b]
  /\ c \in DOMAIN known[a] => c \in DOMAIN known[b]
  /\ \A v \in Elements(net[b][a]) : c \in v.names \union {v.origin} => c \in DOMAIN known[b]

(* Once it is told, a connection is in all that is said after.             *)
ToldEver(a, b, c) ==
  /\ \A i, j \in DOMAIN net[b][c] :
       i < j /\ Mentions(net[b][c][i], {a, b}) => Mentions(net[b][c][j], {a, b})
  /\ {a, b} \in Claims(known[c]) => \A v \in Elements(net[b][c]) : Mentions(v, {a, b})
  /\ {a, b} \in Claims(known[c]) \/ (\E v \in Elements(net[b][c]) : Mentions(v, {a, b}))
       => a \in conns[b]

(* The middle has a connection that its last advertisement lacks.          *)
Missing(b, c) == timer[b] # "off" /\ {b, c} \notin DOMAIN edges[b]

(* The first an end will hear of the other is what the other says; it then *)
(* sets the timer with force.                                              *)
HearsItself(s, i, c) ==
  /\ i \in DOMAIN s /\ s[i].origin = c
  /\ \A j \in DOMAIN s : j < i => c \notin s[j].names \union {s[j].origin}
Stirs(a, b, c) ==
  /\ c \notin DOMAIN known[a]
  /\ \E i \in DOMAIN net[b][a] : HearsItself(net[b][a], i, c)

(* In a path of connections an end learns of the one beyond the middle, or *)
(* something is still to happen that will tell it.                         *)
Learns(a, b, c) ==
  a \in conns[b] /\ c \in conns[b] /\ b \in conns[a] =>
    \/ {a, b} \in Claims(known[c])
    \/ \E v \in Elements(net[b][c]) : Mentions(v, {a, b})
    \/ net[a][b] # <<>>
    \/ Will(a)
    \/ Missing(b, c)
    \/ Stirs(a, b, c)

InPath(a, b, c) ==
  /\ PlainIsFirst(a) /\ EndTells(a, b) /\ MiddleKnows(b, c) /\ MiddleFirst(a, b, c)
  /\ ToldEver(a, b, c) /\ Learns(a, b, c)
CalmLearns == Calm => \A a, b, c \in Nodes : Path(a, b, c) => InPath(a, b, c)

LEMMA InitLearns == Init => CalmIsTidy /\ CalmLearns
<1> SUFFICES ASSUME Init PROVE Tidy /\ \A a, b, c \in Nodes : InPath(a, b, c)
  BY DEF CalmIsTidy, CalmLearns
<1>1. Statements = {}
  BY DEF Init, Statements, Known, UnderWay, OnTheWay
<1>2. Tidy
  BY <1>1 DEF Init, Tidy, PeersStay, SaysConnections, EdgesAreKnown, OnlyPeersTalk, Claims, Beside
<1>3. ASSUME NEW a \in Nodes, NEW b \in Nodes, NEW c \in Nodes PROVE InPath(a, b, c)
  <2>1. /\ conns[a] = {} /\ conns[b] = {} /\ known[a] = <<>> /\ known[b] = <<>> /\ known[c] = <<>>
        /\ timer[a] = "off" /\ net[a][b] = <<>> /\ net[b][a] = <<>> /\ net[b][c] = <<>>
    BY DEF Init
  <2>2. Elements(<<>>) = {} /\ Claims(<<>>) = {}
    BY DEF Elements, Claims
  <2> QED
    BY <2>1, <2>2 DEF InPath, PlainIsFirst, EndTells, MiddleKnows, MiddleFirst, ToldEver, Learns
<1> QED
  BY <1>2, <1>3

(* The steps in a path.                                                    *)
LEMMA PathSteps ==
  ASSUME MeshInv, SmallForestSurvives, CalmIsTidy, CalmLearns, [Next]_vars, Calm',
         NEW a \in Nodes, NEW b \in Nodes, NEW c \in Nodes, Path(a, b, c)'
  PROVE  /\ Calm /\ Tidy /\ TypeInv /\ Path(a, b, c) /\ Path(c, b, a)
         /\ a # b /\ b # c /\ a # c
         /\ InPath(a, b, c) /\ InPath(c, b, a)
         /\ \/ UNCHANGED <<conns, seq, known, edges, timer, net>>
            \/ EndRegisters(a, b) \/ EndRegisters(c, b)
            \/ MiddleRegisters(b, a) \/ MiddleRegisters(b, c)
            \/ \E n \in {a, b, c} : Rechecks(n)
            \/ \E adv : EndTakes(a, b, c, adv) \/ EndTakes(c, b, a, adv)
                       \/ MiddleTakes(a, b, c, adv) \/ MiddleTakes(c, b, a, adv)
<1>1. Calm /\ Tidy /\ TypeInv /\ PeersFit /\ PeersStay /\ scenario' = scenario
  BY CalmSteps DEF MeshInv, Tidy
<1>2. Path(a, b, c)
  BY <1>1 DEF Path
<1>3. /\ Path(c, b, a) /\ a # b /\ b # c /\ a # c /\ {a, c} \notin link
      /\ \A n \in Nodes : n \in {a, b, c}
  BY <1>1, <1>2, PathFacts
<1>4. InPath(a, b, c) /\ InPath(c, b, a)
  BY <1>1, <1>2, <1>3 DEF CalmLearns
<1>5. ASSUME NEW n \in Nodes, NEW m \in Nodes, {n, m} \in link
      PROVE  (n = a /\ m = b) \/ (n = b /\ m = a) \/ (n = b /\ m = c) \/ (n = c /\ m = b)
  <2>1. n # m
    BY <1>1, <1>5 DEF PeersFit
  <2>2. {c, a} = {a, c}
    OBVIOUS
  <2> QED
    BY <1>3, <1>5, <2>1, <2>2
<1>6. ASSUME NEW n \in Nodes, NEW m \in Nodes, Register(n, m)
      PROVE  \/ EndRegisters(a, b) \/ EndRegisters(c, b)
             \/ MiddleRegisters(b, a) \/ MiddleRegisters(b, c)
  <2>1. {n, m} \in link
    BY <1>6 DEF Register
  <2>2. Register(a, b) \/ Register(b, a) \/ Register(b, c) \/ Register(c, b)
    BY <1>5, <1>6, <2>1
  <2>3. Register(a, b) => EndRegisters(a, b)
    BY <1>1, <1>2, EndRegistersStep
  <2>4. Register(c, b) => EndRegisters(c, b)
    BY <1>1, <1>3, EndRegistersStep
  <2>5. \A k \in Nodes : Register(b, k) => MiddleRegisters(b, k)
    BY <1>1, MiddleRegistersStep
  <2> QED
    BY <2>2, <2>3, <2>4, <2>5
<1>7. ASSUME NEW n \in Nodes, NEW m \in Nodes, NEW adv, NEW g, Takes(n, m, adv, g)
      PROVE  \/ EndTakes(a, b, c, adv) \/ EndTakes(c, b, a, adv)
             \/ MiddleTakes(a, b, c, adv) \/ MiddleTakes(c, b, a, adv)
  <2>1. {n, m} \in link
    BY <1>7 DEF Takes, Arrives
  <2>2. \/ Takes(a, b, adv, g) \/ Takes(b, a, adv, g)
        \/ Takes(b, c, adv, g) \/ Takes(c, b, adv, g)
    BY <1>5, <1>7, <2>1
  <2>3. Takes(a, b, adv, g) => EndTakes(a, b, c, adv)
    BY <1>1, <1>2, EndTakesStep
  <2>4. Takes(c, b, adv, g) => EndTakes(c, b, a, adv)
    BY <1>1, <1>3, EndTakesStep
  <2>5. Takes(b, a, adv, g) => MiddleTakes(a, b, c, adv)
    BY <1>1, <1>2, MiddleTakesStep
  <2>6. Takes(b, c, adv, g) => MiddleTakes(c, b, a, adv)
    BY <1>1, <1>3, MiddleTakesStep
  <2> QED
    BY <2>2, <2>3, <2>4, <2>5, <2>6
<1>8. ASSUME NEW n \in Nodes, NEW m \in Nodes, Up(n, m)
      PROVE  UNCHANGED <<conns, seq, known, edges, timer, net>>
  BY <1>8, UpEffect
<1>9. UNCHANGED vars => UNCHANGED <<conns, seq, known, edges, timer, net>>
  BY DEF vars, links, lives, views, tasks
<1>10. ASSUME NEW n \in Nodes, NEW g, Checks(n, g) PROVE n \in {a, b, c} /\ Rechecks(n)
  BY <1>1, <1>3, <1>10, RechecksStep
<1> QED
  BY <1>1, <1>2, <1>3, <1>4, <1>6, <1>7, <1>8, <1>9, <1>10, CalmSteps

(* What is known in the middle is not forgotten.                           *)
LEMMA MiddleRemembers ==
  ASSUME MeshInv, SmallForestSurvives, CalmIsTidy, CalmLearns, [Next]_vars, Calm',
         NEW a \in Nodes, NEW b \in Nodes, NEW c \in Nodes, Path(a, b, c)'
  PROVE  /\ \A n \in Nodes : conns[n] \subseteq conns'[n]
         /\ DOMAIN known[b] \subseteq DOMAIN known'[b]
<1>1. \A n \in Nodes : conns[n] \subseteq conns'[n]
  BY PeersStayStep
<1>2. EndRegisters(a, b) \/ EndRegisters(c, b) => UNCHANGED known
  BY DEF EndRegisters
<1>3. MiddleRegisters(b, a) \/ MiddleRegisters(b, c) => UNCHANGED known
  BY DEF MiddleRegisters
<1>4. ASSUME NEW n, Rechecks(n) PROVE UNCHANGED known
  BY <1>4 DEF Rechecks
<1>5. ASSUME NEW adv, EndTakes(a, b, c, adv) \/ EndTakes(c, b, a, adv) PROVE known'[b] = known[b]
  BY <1>5 DEF EndTakes
<1>6. ASSUME NEW adv, MiddleTakes(a, b, c, adv) \/ MiddleTakes(c, b, a, adv)
      PROVE  DOMAIN known[b] \subseteq DOMAIN known'[b]
  BY <1>6 DEF MiddleTakes
<1> QED
  BY <1>1, <1>2, <1>3, <1>4, <1>5, <1>6, PathSteps

LEMMA PlainIsFirstStep ==
  ASSUME MeshInv, SmallForestSurvives, CalmIsTidy, CalmLearns, [Next]_vars, Calm',
         NEW a \in Nodes, NEW b \in Nodes, NEW c \in Nodes, Path(a, b, c)'
  PROVE  PlainIsFirst(a)'
<1>1. PlainIsFirst(a) /\ a # b /\ b # c /\ a # c
  BY PathSteps DEF InPath
<1>2. ASSUME timer'[a] = timer[a], seq'[a] = seq[a] PROVE PlainIsFirst(a)'
  BY <1>1, <1>2 DEF PlainIsFirst
<1>3. CASE EndRegisters(a, b)
  BY <1>3 DEF EndRegisters, PlainIsFirst
<1>4. CASE EndRegisters(c, b)
  BY <1>1, <1>2, <1>4 DEF EndRegisters
<1>5. CASE MiddleRegisters(b, a) \/ MiddleRegisters(b, c)
  BY <1>1, <1>2, <1>5 DEF MiddleRegisters
<1>6. ASSUME NEW n \in Nodes, Rechecks(n) PROVE PlainIsFirst(a)'
  <2>1. CASE n = a
    BY <1>6, <2>1 DEF Rechecks, PlainIsFirst
  <2>2. CASE n # a
    BY <1>2, <1>6, <2>2 DEF Rechecks
  <2> QED
    BY <2>1, <2>2
<1>7. ASSUME NEW adv, EndTakes(a, b, c, adv) PROVE PlainIsFirst(a)'
  BY <1>1, <1>7 DEF EndTakes, PlainIsFirst
<1>8. ASSUME NEW adv, EndTakes(c, b, a, adv) PROVE PlainIsFirst(a)'
  BY <1>2, <1>8 DEF EndTakes
<1>9. ASSUME NEW adv, MiddleTakes(a, b, c, adv) \/ MiddleTakes(c, b, a, adv)
      PROVE  PlainIsFirst(a)'
  BY <1>2, <1>9 DEF MiddleTakes
<1> QED
  BY <1>2, <1>3, <1>4, <1>5, <1>6, <1>7, <1>8, <1>9, PathSteps

LEMMA EndTellsStep ==
  ASSUME MeshInv, SmallForestSurvives, CalmIsTidy, CalmLearns, [Next]_vars, Calm',
         NEW a \in Nodes, NEW b \in Nodes, NEW c \in Nodes, Path(a, b, c)'
  PROVE  EndTells(a, b)'
<1>1. EndTells(a, b) /\ a # b /\ b # c /\ a # c /\ TypeInv
  BY PathSteps DEF InPath
<1>2. DOMAIN known[b] \subseteq DOMAIN known'[b]
  BY MiddleRemembers
<1>3. ASSUME conns'[a] = conns[a], seq'[a] = seq[a], net'[a][b] = net[a][b],
             timer[a] # "off" => timer'[a] # "off"
      PROVE  EndTells(a, b)'
  BY <1>1, <1>2, <1>3 DEF EndTells
<1>4. CASE EndRegisters(a, b)
  BY <1>4 DEF EndRegisters, EndTells
<1>5. CASE EndRegisters(c, b)
  BY <1>1, <1>3, <1>5 DEF EndRegisters
<1>6. CASE MiddleRegisters(b, a) \/ MiddleRegisters(b, c)
  BY <1>1, <1>3, <1>6 DEF MiddleRegisters
<1>7. ASSUME NEW n \in Nodes, n # a, Rechecks(n) PROVE EndTells(a, b)'
  BY <1>3, <1>7 DEF Rechecks
<1>8. CASE Rechecks(a)
  <2>1. CASE UNCHANGED <<seq, net>> /\ ~Will(a)
    BY <1>1, <1>8, <2>1 DEF Rechecks, EndTells, Will
  <2>2. ASSUME NEW adv,
               \A k \in Nodes :
                 net'[a][k] = IF k \in conns[a] THEN Append(net[a][k], adv) ELSE net[a][k]
        PROVE  EndTells(a, b)'
    <3>1. net[a][b] \in Seq(Advertisements)
      BY <1>1, InBuffers
    <3>2. Append(net[a][b], adv) # <<>>
      BY <3>1
    <3>3. conns' = conns
      BY <1>8 DEF Rechecks
    <3> QED
      BY <2>2, <3>2, <3>3 DEF EndTells
  <2> QED
    BY <1>8, <2>1, <2>2 DEF Rechecks
<1>9. ASSUME NEW adv, EndTakes(a, b, c, adv) \/ EndTakes(c, b, a, adv) PROVE EndTells(a, b)'
  BY <1>1, <1>3, <1>9 DEF EndTakes
<1>10. ASSUME NEW adv, MiddleTakes(a, b, c, adv) PROVE EndTells(a, b)'
  BY <1>10 DEF MiddleTakes, EndTells
<1>11. ASSUME NEW adv, MiddleTakes(c, b, a, adv) PROVE EndTells(a, b)'
  BY <1>3, <1>11 DEF MiddleTakes
<1> QED
  BY <1>3, <1>4, <1>5, <1>6, <1>7, <1>8, <1>9, <1>10, <1>11, PathSteps

LEMMA MiddleKnowsStep ==
  ASSUME MeshInv, SmallForestSurvives, CalmIsTidy, CalmLearns, [Next]_vars, Calm',
         NEW a \in Nodes, NEW b \in Nodes, NEW c \in Nodes, Path(a, b, c)'
  PROVE  MiddleKnows(b, c)'
<1>1. MiddleKnows(b, c) /\ MiddleFirst(a, b, c)
  BY PathSteps DEF InPath
<1>2. conns[b] \subseteq conns'[b]
  BY MiddleRemembers
<1>3. ASSUME known'[b] = known[b] PROVE MiddleKnows(b, c)'
  BY <1>1, <1>2, <1>3 DEF MiddleKnows
<1>4. EndRegisters(a, b) \/ EndRegisters(c, b) => UNCHANGED known
  BY DEF EndRegisters
<1>5. MiddleRegisters(b, a) \/ MiddleRegisters(b, c) => UNCHANGED known
  BY DEF MiddleRegisters
<1>6. ASSUME NEW n, Rechecks(n) PROVE UNCHANGED known
  BY <1>6 DEF Rechecks
<1>7. ASSUME NEW adv, EndTakes(a, b, c, adv) \/ EndTakes(c, b, a, adv) PROVE known'[b] = known[b]
  BY <1>7 DEF EndTakes
<1>8. ASSUME NEW adv, MiddleTakes(c, b, a, adv) PROVE MiddleKnows(b, c)'
  <2>1. {c, b} = {b, c}
    OBVIOUS
  <2> QED
    BY <1>2, <1>8, <2>1 DEF MiddleTakes, MiddleKnows
<1>9. ASSUME NEW adv, MiddleTakes(a, b, c, adv) PROVE MiddleKnows(b, c)'
  <2>1. /\ adv \in Elements(net[a][b])
        /\ c \in DOMAIN known[b] => known'[b][c].connections = known[b][c].connections
        /\ c \in DOMAIN known'[b] => c \in DOMAIN known[b] \union adv.names
    BY <1>9 DEF MiddleTakes
  <2>2. c \in DOMAIN known'[b] => c \in DOMAIN known[b]
    BY <1>1, <2>1 DEF MiddleFirst
  <2> QED
    BY <1>1, <1>2, <2>1, <2>2 DEF MiddleKnows
<1> QED
  BY <1>3, <1>4, <1>5, <1>6, <1>7, <1>8, <1>9, PathSteps
LEMMA MiddleFirstStep ==
  ASSUME MeshInv, SmallForestSurvives, CalmIsTidy, CalmLearns, [Next]_vars, Calm',
         NEW a \in Nodes, NEW b \in Nodes, NEW c \in Nodes, Path(a, b, c)'
  PROVE  MiddleFirst(a, b, c)'
<1>1. MiddleFirst(a, b, c) /\ a # b /\ b # c /\ a # c /\ TypeInv
  BY PathSteps DEF InPath
<1>2. DOMAIN known[b] \subseteq DOMAIN known'[b]
  BY MiddleRemembers
<1>3. \A k, l \in Nodes : net[k][l] \in Seq(Advertisements)
  BY <1>1, InBuffers
<1>4. ASSUME Elements(net'[a][b]) \subseteq Elements(net[a][b]),
             Elements(net'[b][a]) \subseteq Elements(net[b][a]),
             c \in DOMAIN known'[a] => c \in DOMAIN known[a] \/ c \in DOMAIN known[b]
      PROVE  MiddleFirst(a, b, c)'
  BY <1>1, <1>2, <1>4 DEF MiddleFirst
<1>5. CASE EndRegisters(a, b) \/ EndRegisters(c, b)
  BY <1>4, <1>5 DEF EndRegisters
<1>6. CASE MiddleRegisters(b, a) \/ MiddleRegisters(b, c)
  BY <1>4, <1>6 DEF MiddleRegisters
<1>7. ASSUME NEW n \in Nodes, NEW m \in Nodes, NEW adv,
             \A k \in Nodes :
               net'[n][k] = IF k \in conns[n] THEN Append(net[n][k], adv) ELSE net[n][k]
      PROVE  Elements(net'[n][m]) \subseteq Elements(net[n][m]) \union {adv}
  BY <1>3, <1>7, ElementsOf
<1>8. CASE Rechecks(a)
  <2>1. net'[b] = net[b] /\ known' = known
    BY <1>1, <1>8 DEF Rechecks
  <2>2. CASE UNCHANGED <<seq, net>>
    BY <1>4, <2>1, <2>2
  <2>3. ASSUME NEW adv, SaysOwn(a, adv),
               \A k \in Nodes :
                 net'[a][k] = IF k \in conns[a] THEN Append(net[a][k], adv) ELSE net[a][k]
        PROVE  MiddleFirst(a, b, c)'
    <3>1. Elements(net'[a][b]) \subseteq Elements(net[a][b]) \union {adv}
      BY <1>7, <2>3
    <3> QED
      BY <1>1, <2>1, <2>3, <3>1 DEF MiddleFirst, SaysOwn
  <2> QED
    BY <1>8, <2>2, <2>3 DEF Rechecks
<1>9. CASE Rechecks(b)
  <2>1. net'[a] = net[a] /\ known' = known
    BY <1>1, <1>9 DEF Rechecks
  <2>2. CASE UNCHANGED <<seq, net>>
    BY <1>4, <2>1, <2>2
  <2>3. ASSUME NEW adv, SaysOwn(b, adv),
               \A k \in Nodes :
                 net'[b][k] = IF k \in conns[b] THEN Append(net[b][k], adv) ELSE net[b][k]
        PROVE  MiddleFirst(a, b, c)'
    <3>1. Elements(net'[b][a]) \subseteq Elements(net[b][a]) \union {adv}
      BY <1>7, <2>3
    <3> QED
      BY <1>1, <2>1, <2>3, <3>1 DEF MiddleFirst, SaysOwn
  <2> QED
    BY <1>9, <2>2, <2>3 DEF Rechecks
<1>10. CASE Rechecks(c)
  <2>1. net'[a] = net[a] /\ net'[b] = net[b] /\ known' = known
    BY <1>1, <1>10 DEF Rechecks
  <2> QED
    BY <1>4, <2>1
<1>11. ASSUME NEW adv, EndTakes(a, b, c, adv) PROVE MiddleFirst(a, b, c)'
  <2>1. /\ net'[a][b] = net[a][b] /\ net'[b][a] = Tail(net[b][a]) /\ net[b][a] # <<>>
        /\ adv \in Elements(net[b][a])
        /\ DOMAIN known'[a] \subseteq DOMAIN known[a] \union adv.names \union {adv.origin}
    BY <1>11 DEF EndTakes
  <2>2. Elements(net'[b][a]) \subseteq Elements(net[b][a])
    BY <1>3, <2>1, ElementsOf
  <2>3. c \in DOMAIN known'[a] => c \in DOMAIN known[a] \/ c \in DOMAIN known[b]
    BY <1>1, <2>1 DEF MiddleFirst
  <2> QED
    BY <1>4, <2>1, <2>2, <2>3
<1>12. ASSUME NEW adv, EndTakes(c, b, a, adv) PROVE MiddleFirst(a, b, c)'
  BY <1>4, <1>12 DEF EndTakes
<1>13. ASSUME NEW adv, MiddleTakes(a, b, c, adv) PROVE MiddleFirst(a, b, c)'
  <2>1. /\ net'[b][a] = net[b][a] /\ net'[a][b] = Tail(net[a][b]) /\ net[a][b] # <<>>
        /\ known'[a] = known[a]
    BY <1>13 DEF MiddleTakes
  <2>2. Elements(net'[a][b]) \subseteq Elements(net[a][b])
    BY <1>3, <2>1, ElementsOf
  <2> QED
    BY <1>4, <2>1, <2>2
<1>14. ASSUME NEW adv, MiddleTakes(c, b, a, adv) PROVE MiddleFirst(a, b, c)'
  BY <1>14 DEF MiddleTakes, MiddleFirst
<1>15. UNCHANGED <<conns, seq, known, edges, timer, net>> => MiddleFirst(a, b, c)'
  BY <1>4
<1> QED
  BY <1>5, <1>6, <1>8, <1>9, <1>10, <1>11, <1>12, <1>13, <1>14, <1>15, PathSteps

(* The connections the middle has or has been told of, it has.             *)
LEMMA MiddleClaims ==
  ASSUME MeshInv, Calm, Tidy, NEW a \in Nodes, NEW b \in Nodes, NEW c \in Nodes, Path(c, b, a),
         MiddleKnows(b, a), {a, b} \in Beside(b) \union Claims(known[b])
  PROVE  a \in conns[b]
<1>1. ASSUME {a, b} \in Beside(b) PROVE a \in conns[b]
  <2>1. PICK m \in conns[b] : {a, b} = {b, m}
    BY <1>1 DEF Beside
  <2>2. a # b
    BY PathFacts
  <2> QED
    BY <2>1, <2>2
<1>2. ASSUME {a, b} \in Claims(known[b]) PROVE a \in conns[b]
  <2>1. PICK o \in DOMAIN known[b] : {a, b} \in DOMAIN known[b][o].connections
    BY <1>2 DEF Claims
  <2>2. o = a
    <3>1. Says(o, known[b][o]) \in Statements
      BY StatementsFrom
    <3>2. o \in {a, b}
      BY <2>1, <3>1 DEF Tidy, SaysConnections, Says
    <3>3. b \notin DOMAIN known[b]
      BY DEF MeshInv, TypeInv, KnownType
    <3> QED
      BY <2>1, <3>2, <3>3
  <2> QED
    BY <2>1, <2>2 DEF MiddleKnows
<1> QED
  BY <1>1, <1>2

(* The middle mentions a connection as soon as it has it.                  *)
LEMMA MiddleMentions ==
  ASSUME MeshInv, Calm, Tidy, NEW a \in Nodes, NEW b \in Nodes, NEW c \in Nodes, Path(c, b, a),
         MiddleKnows(b, a), NEW adv, SaysOwn(b, adv)
  PROVE  Mentions(adv, {a, b}) <=> a \in conns[b]
<1>1. ASSUME a \in conns[b] PROVE Mentions(adv, {a, b})
  <2>1. {b, a} \in Beside(b) /\ {b, a} = {a, b}
    BY <1>1 DEF Beside
  <2> QED
    BY <2>1 DEF SaysOwn, Mentions
<1>2. ASSUME Mentions(adv, {a, b}) PROVE a \in conns[b]
  <2>1. {a, b} \in Beside(b) \union Claims(known[b])
    BY <1>2 DEF SaysOwn, Mentions
  <2> QED
    BY <2>1, MiddleClaims
<1> QED
  BY <1>1, <1>2

(* What is in order stays so when something is taken or a mention added.   *)
LEMMA MentionsInOrder ==
  ASSUME NEW s \in Seq(Advertisements), NEW p,
         \A i, j \in DOMAIN s : i < j /\ Mentions(s[i], p) => Mentions(s[j], p)
  PROVE  /\ s # <<>> => \A i, j \in DOMAIN Tail(s) :
                          i < j /\ Mentions(Tail(s)[i], p) => Mentions(Tail(s)[j], p)
         /\ s # <<>> /\ Mentions(Head(s), p) => \A v \in Elements(Tail(s)) : Mentions(v, p)
         /\ \A adv : Mentions(adv, p) \/ (\A v \in Elements(s) : ~Mentions(v, p)) =>
              \A i, j \in DOMAIN Append(s, adv) :
                i < j /\ Mentions(Append(s, adv)[i], p) => Mentions(Append(s, adv)[j], p)
<1>1. Len(s) \in Nat /\ DOMAIN s = 1 .. Len(s)
  OBVIOUS
<1>2. ASSUME s # <<>>
      PROVE  /\ DOMAIN Tail(s) = 1 .. Len(s) - 1 /\ Head(s) = s[1] /\ 1 \in DOMAIN s
             /\ \A i \in 1 .. Len(s) - 1 : Tail(s)[i] = s[i + 1] /\ i + 1 \in DOMAIN s /\ 1 < i + 1
  BY <1>2
<1>3. ASSUME s # <<>>, NEW i \in DOMAIN Tail(s), NEW j \in DOMAIN Tail(s), i < j,
             Mentions(Tail(s)[i], p)
      PROVE  Mentions(Tail(s)[j], p)
  <2>1. /\ i \in 1 .. Len(s) - 1 /\ j \in 1 .. Len(s) - 1
        /\ i + 1 \in DOMAIN s /\ j + 1 \in DOMAIN s
        /\ Tail(s)[i] = s[i + 1] /\ Tail(s)[j] = s[j + 1]
    BY <1>2, <1>3
  <2>2. i + 1 < j + 1
    BY <1>1, <1>3, <2>1
  <2> QED
    BY <1>3, <2>1, <2>2
<1>4. ASSUME s # <<>>, Mentions(Head(s), p), NEW v \in Elements(Tail(s)) PROVE Mentions(v, p)
  <2>1. PICK i \in DOMAIN Tail(s) : v = Tail(s)[i]
    BY DEF Elements
  <2>2. i \in 1 .. Len(s) - 1 /\ v = s[i + 1] /\ i + 1 \in DOMAIN s /\ 1 < i + 1 /\ 1 \in DOMAIN s
    BY <1>2, <1>4, <2>1
  <2> QED
    BY <1>2, <1>4, <2>2
<1>5. ASSUME NEW adv, Mentions(adv, p) \/ (\A v \in Elements(s) : ~Mentions(v, p)),
             NEW i \in DOMAIN Append(s, adv), NEW j \in DOMAIN Append(s, adv), i < j,
             Mentions(Append(s, adv)[i], p)
      PROVE  Mentions(Append(s, adv)[j], p)
  <2>1. /\ DOMAIN Append(s, adv) = 1 .. Len(s) + 1 /\ Append(s, adv)[Len(s) + 1] = adv
        /\ \A k \in 1 .. Len(s) : Append(s, adv)[k] = s[k]
    BY <1>1
  <2>2. i \in DOMAIN s /\ Append(s, adv)[i] = s[i] /\ s[i] \in Elements(s)
    BY <1>1, <1>5, <2>1 DEF Elements
  <2>3. CASE j \in DOMAIN s
    BY <1>1, <1>5, <2>1, <2>2, <2>3
  <2>4. CASE j = Len(s) + 1
    BY <1>5, <2>1, <2>2, <2>4
  <2> QED
    BY <1>1, <2>1, <2>3, <2>4
<1> QED
  BY <1>3, <1>4, <1>5

LEMMA ToldEverStep ==
  ASSUME MeshInv, SmallForestSurvives, CalmIsTidy, CalmLearns, [Next]_vars, Calm',
         NEW a \in Nodes, NEW b \in Nodes, NEW c \in Nodes, Path(a, b, c)'
  PROVE  ToldEver(a, b, c)'
<1>1. /\ ToldEver(a, b, c) /\ MiddleKnows(b, a) /\ a # b /\ b # c /\ a # c
      /\ TypeInv /\ Tidy /\ Calm /\ Path(c, b, a)
  BY PathSteps DEF InPath
<1>2. conns[b] \subseteq conns'[b]
  BY MiddleRemembers
<1> DEFINE s == net[b][c]
           p == {a, b}
<1>3. s \in Seq(Advertisements)
  BY <1>1, InBuffers
<1>4. /\ \A i, j \in DOMAIN s : i < j /\ Mentions(s[i], p) => Mentions(s[j], p)
      /\ p \in Claims(known[c]) => \A v \in Elements(s) : Mentions(v, p)
      /\ p \in Claims(known[c]) \/ (\E v \in Elements(s) : Mentions(v, p)) => a \in conns[b]
  BY <1>1 DEF ToldEver
<1> HIDE DEF s, p
<1> DEFINE Ever(t) ==
      /\ \A i, j \in DOMAIN t : i < j /\ Mentions(t[i], p) => Mentions(t[j], p)
      /\ p \in Claims(known'[c]) => \A v \in Elements(t) : Mentions(v, p)
      /\ p \in Claims(known'[c]) \/ (\E v \in Elements(t) : Mentions(v, p)) => a \in conns'[b]
<1>5. ASSUME Ever(net'[b][c]) PROVE ToldEver(a, b, c)'
  BY <1>5 DEF ToldEver, p
<1>6. ASSUME net'[b][c] = s, known'[c] = known[c] PROVE ToldEver(a, b, c)'
  BY <1>2, <1>4, <1>5, <1>6
<1>7. ASSUME NEW adv, net'[b][c] = Append(s, adv), known'[c] = known[c],
             Mentions(adv, p) <=> a \in conns[b]
      PROVE  ToldEver(a, b, c)'
  <2>1. Mentions(adv, p) \/ \A v \in Elements(s) : ~Mentions(v, p)
    BY <1>4, <1>7
  <2>2. \A i, j \in DOMAIN Append(s, adv) :
          i < j /\ Mentions(Append(s, adv)[i], p) => Mentions(Append(s, adv)[j], p)
    BY <1>3, <1>4, <2>1, MentionsInOrder
  <2>3. Elements(Append(s, adv)) \subseteq Elements(s) \union {adv}
    BY <1>3, ElementsOf
  <2>4. Ever(Append(s, adv))
    BY <1>2, <1>4, <1>7, <2>2, <2>3
  <2> QED
    BY <1>5, <1>7, <2>4
<1>8. CASE EndRegisters(a, b) \/ EndRegisters(c, b)
  BY <1>6, <1>8 DEF EndRegisters, s
<1>9. CASE MiddleRegisters(b, a) \/ MiddleRegisters(b, c)
  BY <1>6, <1>9 DEF MiddleRegisters, s
<1>10. CASE Rechecks(a) \/ Rechecks(c)
  BY <1>1, <1>6, <1>10 DEF Rechecks, s
<1>11. CASE Rechecks(b)
  <2>1. known' = known
    BY <1>11 DEF Rechecks
  <2>2. CASE UNCHANGED <<seq, net>>
    BY <1>6, <2>1, <2>2 DEF s
  <2>3. ASSUME NEW adv, SaysOwn(b, adv),
               \A k \in Nodes :
                 net'[b][k] = IF k \in conns[b] THEN Append(net[b][k], adv) ELSE net[b][k]
        PROVE  ToldEver(a, b, c)'
    <3>1. Mentions(adv, p) <=> a \in conns[b]
      BY <1>1, <2>3, MiddleMentions DEF p
    <3>2. net'[b][c] = s \/ net'[b][c] = Append(s, adv)
      BY <2>3 DEF s
    <3> QED
      BY <1>6, <1>7, <2>1, <3>1, <3>2
  <2> QED
    BY <1>11, <2>2, <2>3 DEF Rechecks
<1>12. ASSUME NEW adv, EndTakes(a, b, c, adv) PROVE ToldEver(a, b, c)'
  BY <1>6, <1>12 DEF EndTakes, s
<1>13. ASSUME NEW adv, EndTakes(c, b, a, adv) PROVE ToldEver(a, b, c)'
  <2>1. /\ s # <<>> /\ adv = Head(s) /\ adv \in Elements(s) /\ net'[b][c] = Tail(s)
        /\ Claims(known'[c]) \subseteq Claims(known[c]) \union DOMAIN adv.connections
    BY <1>13 DEF EndTakes, s
  <2>2. Elements(Tail(s)) \subseteq Elements(s)
    BY <1>3, <2>1, ElementsOf
  <2>3. \A i, j \in DOMAIN Tail(s) : i < j /\ Mentions(Tail(s)[i], p) => Mentions(Tail(s)[j], p)
    BY <1>3, <1>4, <2>1, MentionsInOrder
  <2>4. Mentions(adv, p) => \A v \in Elements(Tail(s)) : Mentions(v, p)
    BY <1>3, <1>4, <2>1, MentionsInOrder
  <2>5. p \in Claims(known'[c]) => p \in Claims(known[c]) \/ Mentions(adv, p)
    BY <2>1 DEF Mentions
  <2>6. Ever(Tail(s))
    BY <1>2, <1>4, <2>1, <2>2, <2>3, <2>4, <2>5
  <2> QED
    BY <1>5, <2>1, <2>6
<1>14. ASSUME NEW adv, MiddleTakes(a, b, c, adv) PROVE ToldEver(a, b, c)'
  <2>1. /\ Mentions(adv, p) /\ a \in conns[b] /\ known'[c] = known[c]
        /\ net'[b][c] = s \/ net'[b][c] = Append(s, adv)
    BY <1>14 DEF MiddleTakes, Mentions, s, p
  <2> QED
    BY <1>6, <1>7, <2>1
<1>15. ASSUME NEW adv, MiddleTakes(c, b, a, adv) PROVE ToldEver(a, b, c)'
  BY <1>6, <1>15 DEF MiddleTakes, s
<1>16. UNCHANGED <<conns, seq, known, edges, timer, net>> => ToldEver(a, b, c)'
  BY <1>6 DEF s
<1> QED
  BY <1>8, <1>9, <1>10, <1>11, <1>12, <1>13, <1>14, <1>15, <1>16, PathSteps

(* Where the end hears the other itself first, in a buffer that is taken   *)
(* from and added to.                                                      *)
LEMMA HearsItselfStill ==
  ASSUME NEW s \in Seq(Advertisements), NEW c,
         NEW i \in DOMAIN s, HearsItself(s, i, c)
  PROVE  /\ s # <<>>
         /\ i = 1 => Head(s).origin = c
         /\ i # 1 => /\ c \notin Head(s).names \union {Head(s).origin}
                     /\ i - 1 \in DOMAIN Tail(s) /\ HearsItself(Tail(s), i - 1, c)
         /\ \A adv : i \in DOMAIN Append(s, adv) /\ HearsItself(Append(s, adv), i, c)
<1>1. Len(s) \in Nat /\ DOMAIN s = 1 .. Len(s) /\ i \in 1 .. Len(s) /\ Len(s) >= 1
  OBVIOUS
<1>2. s # <<>> /\ Head(s) = s[1] /\ 1 \in DOMAIN s
  BY <1>1
<1>3. i = 1 => Head(s).origin = c
  BY <1>2 DEF HearsItself
<1>4. ASSUME i # 1
      PROVE  /\ c \notin Head(s).names \union {Head(s).origin}
             /\ i - 1 \in DOMAIN Tail(s) /\ HearsItself(Tail(s), i - 1, c)
  <2>1. 1 < i /\ i - 1 \in 1 .. Len(s) - 1
    BY <1>1, <1>4
  <2>2. c \notin Head(s).names \union {Head(s).origin}
    BY <1>2, <2>1 DEF HearsItself
  <2>3. /\ DOMAIN Tail(s) = 1 .. Len(s) - 1
        /\ \A k \in 1 .. Len(s) - 1 : Tail(s)[k] = s[k + 1]
    BY <1>2
  <2>4. Tail(s)[i - 1] = s[i]
    BY <1>1, <2>1, <2>3
  <2>5. ASSUME NEW j \in DOMAIN Tail(s), j < i - 1
        PROVE  c \notin Tail(s)[j].names \union {Tail(s)[j].origin}
    <3>1. j + 1 \in DOMAIN s /\ j + 1 < i /\ Tail(s)[j] = s[j + 1]
      BY <1>1, <2>3, <2>5
    <3> QED
      BY <3>1 DEF HearsItself
  <2> QED
    BY <2>1, <2>2, <2>3, <2>4, <2>5 DEF HearsItself
<1>5. ASSUME NEW adv
      PROVE  i \in DOMAIN Append(s, adv) /\ HearsItself(Append(s, adv), i, c)
  <2>1. /\ DOMAIN Append(s, adv) = 1 .. Len(s) + 1
        /\ \A k \in 1 .. Len(s) : Append(s, adv)[k] = s[k]
    BY <1>1
  <2>2. i \in DOMAIN Append(s, adv) /\ Append(s, adv)[i] = s[i]
    BY <1>1, <2>1
  <2>3. \A j \in DOMAIN Append(s, adv) : j < i => j \in DOMAIN s /\ Append(s, adv)[j] = s[j]
    BY <1>1, <2>1
  <2> QED
    BY <2>2, <2>3 DEF HearsItself
<1> QED
  BY <1>2, <1>3, <1>4, <1>5

LEMMA HearsItselfNow ==
  ASSUME NEW s \in Seq(Advertisements), NEW c, NEW adv, adv.origin = c,
         \A v \in Elements(s) : c \notin v.names \union {v.origin}
  PROVE  \E i \in DOMAIN Append(s, adv) : HearsItself(Append(s, adv), i, c)
<1>1. Len(s) \in Nat /\ DOMAIN s = 1 .. Len(s)
  OBVIOUS
<1>2. /\ DOMAIN Append(s, adv) = 1 .. Len(s) + 1 /\ Append(s, adv)[Len(s) + 1] = adv
      /\ \A k \in 1 .. Len(s) : Append(s, adv)[k] = s[k]
  BY <1>1
<1>3. \A j \in DOMAIN Append(s, adv) : j < Len(s) + 1 =>
        j \in DOMAIN s /\ Append(s, adv)[j] = s[j] /\ s[j] \in Elements(s)
  BY <1>1, <1>2 DEF Elements
<1>4. Len(s) + 1 \in DOMAIN Append(s, adv)
  BY <1>1, <1>2
<1>5. HearsItself(Append(s, adv), Len(s) + 1, c)
  BY <1>2, <1>3, <1>4 DEF HearsItself
<1> QED
  BY <1>4, <1>5

LEMMA HeadOrTail ==
  ASSUME NEW s \in Seq(Advertisements), s # <<>>, NEW v \in Elements(s)
  PROVE  v = Head(s) \/ v \in Elements(Tail(s))
<1>1. PICK i \in DOMAIN s : v = s[i]
  BY DEF Elements
<1>2. i # 1 => i - 1 \in DOMAIN Tail(s) /\ Tail(s)[i - 1] = s[i]
  OBVIOUS
<1> QED
  BY <1>1, <1>2 DEF Elements

LEMMA Appended ==
  ASSUME NEW s \in Seq(Advertisements), NEW x
  PROVE  Append(s, x) # <<>> /\ x \in Elements(Append(s, x))
<1>1. Len(s) \in Nat /\ Len(s) + 1 \in DOMAIN Append(s, x) /\ Append(s, x)[Len(s) + 1] = x
  OBVIOUS
<1> QED
  BY <1>1 DEF Elements

(* What may tell an end of a connection stays, or is followed by the next. *)
LEMMA LearnsStep ==
  ASSUME MeshInv, SmallForestSurvives, CalmIsTidy, CalmLearns, [Next]_vars, Calm',
         NEW a \in Nodes, NEW b \in Nodes, NEW c \in Nodes, Path(a, b, c)'
  PROVE  Learns(a, b, c)'
<1>1. /\ Learns(a, b, c) /\ ToldEver(a, b, c) /\ MiddleKnows(b, a) /\ MiddleKnows(b, c)
      /\ MiddleFirst(a, b, c) /\ EndTells(a, b) /\ PlainIsFirst(a)
      /\ a # b /\ b # c /\ a # c /\ TypeInv /\ Tidy /\ Calm /\ Path(c, b, a) /\ Path(a, b, c)
  BY PathSteps DEF InPath
<1>2. \A k, l \in Nodes : net[k][l] \in Seq(Advertisements)
  BY <1>1, InBuffers
<1> DEFINE Told == {a, b} \in Claims(known[c])
           Telling == \E v \in Elements(net[b][c]) : Mentions(v, {a, b})
           Talking == net[a][b] # <<>>
           Due == Told \/ Telling \/ Talking \/ Will(a) \/ Missing(b, c) \/ Stirs(a, b, c)
           Connected == a \in conns[b] /\ c \in conns[b] /\ b \in conns[a]
<1>3. Connected => Due
  BY <1>1 DEF Learns
<1> SUFFICES ASSUME Connected' PROVE Due'
  BY DEF Learns
<1>4. ASSUME Connected, known'[c] = known[c], net'[b][c] = net[b][c], net'[a][b] = net[a][b],
             Will(a) => Will(a)', Missing(b, c) => Missing(b, c)', Stirs(a, b, c) => Stirs(a, b, c)'
      PROVE  Due'
  BY <1>3, <1>4
<1>5. ASSUME known'[a] = known[a], net'[b][a] = net[b][a] PROVE Stirs(a, b, c) => Stirs(a, b, c)'
  BY <1>5 DEF Stirs
<1>6. ASSUME timer'[a] = timer[a], seq'[a] = seq[a] PROVE Will(a) => Will(a)'
  BY <1>6 DEF Will
<1>7. ASSUME timer[b] # "off" => timer'[b] # "off", edges'[b] = edges[b]
      PROVE  Missing(b, c) => Missing(b, c)'
  BY <1>7 DEF Missing
<1>8. CASE EndRegisters(a, b)
  BY <1>8 DEF EndRegisters, Will
<1>9. CASE EndRegisters(c, b)
  <2>1. /\ UNCHANGED <<seq, known, edges, net>> /\ timer'[a] = timer[a] /\ timer'[b] = timer[b]
        /\ conns'[a] = conns[a] /\ conns'[b] = conns[b]
    BY <1>1, <1>9 DEF EndRegisters
  <2> QED
    BY <1>4, <1>5, <1>6, <1>7, <2>1
<1>10. CASE MiddleRegisters(b, a)
  <2>1. a \notin conns[b] /\ UNCHANGED <<seq, known, net>> /\ timer'[a] = timer[a] /\ b \in conns[a]
    BY <1>1, <1>10 DEF MiddleRegisters
  <2>2. a \notin DOMAIN known[b]
    BY <1>1, <2>1 DEF MiddleKnows
  <2> QED
    BY <1>1, <2>1, <2>2 DEF EndTells, Will
<1>11. CASE MiddleRegisters(b, c)
  <2>1. c \notin conns[b] /\ timer'[b] # "off" /\ edges' = edges
    BY <1>11 DEF MiddleRegisters
  <2>2. {b, c} \notin Beside(b) \union Claims(known[b])
    <3>1. {c, b} = {b, c}
      OBVIOUS
    <3>2. {c, b} \in Beside(b) \union Claims(known[b]) => c \in conns[b]
      BY <1>1, MiddleClaims
    <3> QED
      BY <2>1, <3>1, <3>2
  <2>3. {b, c} \notin DOMAIN edges[b]
    BY <1>1, <2>2 DEF Tidy, EdgesAreKnown
  <2> QED
    BY <2>1, <2>3 DEF Missing
<1>12. CASE Rechecks(a)
  <2>1. /\ net'[b] = net[b] /\ UNCHANGED <<conns, known>> /\ timer'[b] = timer[b]
        /\ edges'[b] = edges[b]
    BY <1>1, <1>12 DEF Rechecks
  <2>2. CASE UNCHANGED <<seq, net>> /\ ~Will(a)
    BY <1>4, <1>5, <1>7, <2>1, <2>2
  <2>3. ASSUME NEW adv,
               \A k \in Nodes :
                 net'[a][k] = IF k \in conns[a] THEN Append(net[a][k], adv) ELSE net[a][k]
        PROVE  Talking'
    <3>1. net'[a][b] = Append(net[a][b], adv)
      BY <2>1, <2>3
    <3>2. Append(net[a][b], adv) # <<>>
      BY <1>2, Appended
    <3> QED
      BY <3>1, <3>2
  <2> QED
    BY <1>12, <2>2, <2>3 DEF Rechecks
<1>13. CASE Rechecks(b)
  <2>1. /\ net'[a] = net[a] /\ UNCHANGED <<conns, known>> /\ timer'[a] = timer[a]
        /\ seq'[a] = seq[a]
    BY <1>1, <1>13 DEF Rechecks
  <2>2. {b, c} \in Beside(b)
    BY <2>1 DEF Beside
  <2>3. CASE UNCHANGED <<seq, net>> /\ Beside(b) \subseteq DOMAIN edges[b]
    <3>1. ~Missing(b, c)
      BY <2>2, <2>3 DEF Missing
    <3> QED
      BY <1>4, <1>5, <1>6, <2>1, <2>3, <3>1
  <2>4. ASSUME NEW adv, SaysOwn(b, adv),
               \A k \in Nodes :
                 net'[b][k] = IF k \in conns[b] THEN Append(net[b][k], adv) ELSE net[b][k]
        PROVE  Telling'
    <3>1. Mentions(adv, {a, b})
      BY <1>1, <2>1, <2>4, MiddleMentions
    <3>2. net'[b][c] = Append(net[b][c], adv)
      BY <2>1, <2>4
    <3>3. adv \in Elements(Append(net[b][c], adv))
      BY <1>2, Appended
    <3> QED
      BY <3>1, <3>2, <3>3
  <2> QED
    BY <1>13, <2>3, <2>4 DEF Rechecks
<1>14. CASE Rechecks(c)
  <2>1. /\ net'[a] = net[a] /\ net'[b] = net[b] /\ UNCHANGED <<conns, known>>
        /\ timer'[a] = timer[a] /\ timer'[b] = timer[b] /\ seq'[a] = seq[a] /\ edges'[b] = edges[b]
    BY <1>1, <1>14 DEF Rechecks
  <2> QED
    BY <1>4, <1>5, <1>6, <1>7, <2>1
<1>15. ASSUME NEW adv, EndTakes(a, b, c, adv) PROVE Due'
  <2>1. /\ net[b][a] # <<>> /\ adv = Head(net[b][a]) /\ net'[b][a] = Tail(net[b][a])
        /\ net'[a][b] = net[a][b] /\ net'[b][c] = net[b][c] /\ known'[c] = known[c]
        /\ UNCHANGED <<conns, seq>> /\ timer'[b] = timer[b] /\ edges'[b] = edges[b]
        /\ timer'[a] = IF adv.origin \notin DOMAIN known[a] /\ timer[a] = "off" THEN "forced"
                                                                               ELSE timer[a]
        /\ DOMAIN known'[a] \subseteq DOMAIN known[a] \union adv.names \union {adv.origin}
    BY <1>15 DEF EndTakes
  <2>2. Will(a) => Will(a)'
    BY <2>1 DEF Will
  <2>3. ASSUME Stirs(a, b, c) PROVE Will(a)' \/ Stirs(a, b, c)'
    <3>1. c \notin DOMAIN known[a]
      BY <2>3 DEF Stirs
    <3>2. PICK i \in DOMAIN net[b][a] : HearsItself(net[b][a], i, c)
      BY <2>3 DEF Stirs
    <3>3. CASE i = 1
      <4>1. adv.origin = c
        BY <1>2, <2>1, <3>2, <3>3, HearsItselfStill
      <4>2. timer[a] \in {"off", "plain", "forced"}
        BY <1>1 DEF TypeInv, TasksType
      <4> QED
        BY <1>1, <2>1, <3>1, <4>1, <4>2 DEF Will, PlainIsFirst
    <3>4. CASE i # 1
      <4>1. /\ c \notin adv.names \union {adv.origin}
            /\ i - 1 \in DOMAIN Tail(net[b][a]) /\ HearsItself(Tail(net[b][a]), i - 1, c)
        BY <1>2, <2>1, <3>2, <3>4, HearsItselfStill
      <4>2. c \notin DOMAIN known'[a]
        BY <2>1, <3>1, <4>1
      <4> QED
        BY <2>1, <4>1, <4>2 DEF Stirs
    <3> QED
      BY <3>3, <3>4
  <2>4. Missing(b, c) => Missing(b, c)'
    BY <1>7, <2>1
  <2> QED
    BY <1>3, <2>1, <2>2, <2>3, <2>4
<1>16. ASSUME NEW adv, EndTakes(c, b, a, adv) PROVE Due'
  <2>1. /\ net[b][c] # <<>> /\ adv = Head(net[b][c]) /\ net'[b][c] = Tail(net[b][c])
        /\ adv \in Elements(net[b][c])
        /\ net'[a][b] = net[a][b] /\ net'[b][a] = net[b][a] /\ known'[a] = known[a]
        /\ UNCHANGED <<conns, seq>> /\ timer'[b] = timer[b] /\ edges'[b] = edges[b]
        /\ timer'[a] = timer[a] /\ DOMAIN adv.connections \subseteq Claims(known'[c])
    BY <1>16 DEF EndTakes
  <2>2. /\ Will(a) => Will(a)'
        /\ Missing(b, c) => Missing(b, c)'
        /\ Stirs(a, b, c) => Stirs(a, b, c)'
    BY <1>5, <1>6, <1>7, <2>1
  <2>3. ASSUME Told PROVE Told'
    <3>1. Mentions(adv, {a, b})
      BY <1>1, <2>1, <2>3 DEF ToldEver
    <3> QED
      BY <2>1, <3>1 DEF Mentions
  <2>4. ASSUME Telling PROVE Told' \/ Telling'
    <3>1. PICK v \in Elements(net[b][c]) : Mentions(v, {a, b})
      BY <2>4
    <3>2. v = adv \/ v \in Elements(Tail(net[b][c]))
      <4>1. net[b][c] \in Seq(Advertisements)
        BY <1>2
      <4> QED
        BY <2>1, <3>1, <4>1, HeadOrTail
    <3> QED
      BY <2>1, <3>1, <3>2 DEF Mentions
  <2> QED
    BY <1>3, <2>1, <2>2, <2>3, <2>4
<1>17. ASSUME NEW adv, MiddleTakes(a, b, c, adv) PROVE Due'
  <2>1. {a, b} \in DOMAIN adv.connections /\ net'[b][c] = Append(net[b][c], adv)
    BY <1>17 DEF MiddleTakes
  <2>2. adv \in Elements(Append(net[b][c], adv))
    BY <1>2, Appended
  <2> QED
    BY <2>1, <2>2 DEF Mentions
<1>18. ASSUME NEW adv, MiddleTakes(c, b, a, adv) PROVE Due'
  <2>1. /\ adv.origin = c /\ net'[b][a] = Append(net[b][a], adv)
        /\ net'[b][c] = net[b][c] /\ net'[a][b] = net[a][b]
        /\ UNCHANGED <<conns, seq>> /\ known'[a] = known[a] /\ known'[c] = known[c]
        /\ timer'[a] = timer[a]
    BY <1>18 DEF MiddleTakes
  <2>2. Will(a) => Will(a)'
    BY <1>6, <2>1
  <2>3. ASSUME Stirs(a, b, c) PROVE Stirs(a, b, c)'
    <3>1. PICK i \in DOMAIN net[b][a] : HearsItself(net[b][a], i, c)
      BY <2>3 DEF Stirs
    <3>2. i \in DOMAIN net'[b][a] /\ HearsItself(net'[b][a], i, c)
      BY <1>2, <2>1, <3>1, HearsItselfStill
    <3> QED
      BY <2>1, <2>3, <3>2 DEF Stirs
  <2>4. ASSUME Missing(b, c) PROVE Stirs(a, b, c)'
    <3>1. c \notin DOMAIN known[b]
      <4>1. {b, c} \notin Claims(known[b])
        BY <1>1, <2>4 DEF Missing, Tidy, EdgesAreKnown
      <4> QED
        BY <1>1, <4>1 DEF MiddleKnows, Claims
    <3>2. /\ c \notin DOMAIN known[a]
          /\ \A v \in Elements(net[b][a]) : c \notin v.names \union {v.origin}
      BY <1>1, <3>1 DEF MiddleFirst
    <3>3. \E i \in DOMAIN Append(net[b][a], adv) : HearsItself(Append(net[b][a], adv), i, c)
      BY <1>2, <2>1, <3>2, HearsItselfNow
    <3> QED
      BY <2>1, <3>2, <3>3 DEF Stirs
  <2> QED
    BY <1>3, <2>1, <2>2, <2>3, <2>4
<1>19. UNCHANGED <<conns, seq, known, edges, timer, net>> => Due'
  BY <1>4, <1>5, <1>6, <1>7
<1> QED
  BY <1>8, <1>9, <1>10, <1>11, <1>12, <1>13, <1>14, <1>15, <1>16, <1>17, <1>18, <1>19, PathSteps

LEMMA CalmLearnsStep ==
  MeshInv /\ SmallForestSurvives /\ CalmIsTidy /\ CalmLearns /\ [Next]_vars => CalmLearns'
<1> SUFFICES ASSUME MeshInv, SmallForestSurvives, CalmIsTidy, CalmLearns, [Next]_vars, Calm',
                    NEW a \in Nodes, NEW b \in Nodes, NEW c \in Nodes, Path(a, b, c)'
             PROVE  InPath(a, b, c)'
  BY DEF CalmLearns
<1>1. PlainIsFirst(a)' /\ EndTells(a, b)'
  BY PlainIsFirstStep, EndTellsStep
<1>2. MiddleKnows(b, c)' /\ MiddleFirst(a, b, c)'
  BY MiddleKnowsStep, MiddleFirstStep
<1>3. ToldEver(a, b, c)' /\ Learns(a, b, c)'
  BY ToldEverStep, LearnsStep
<1> QED
  BY <1>1, <1>2, <1>3 DEF InPath

(* When all is quiet an end knows the connection beyond its neighbour.     *)
LEMMA QuietIsTold ==
  ASSUME MeshInv, Calm, Tidy, CalmLearns, Quiet, NEW a \in Nodes, NEW b \in Nodes, NEW c \in Nodes,
         a # b, b # c, a # c, {a, b} \in link, {b, c} \in link
  PROVE  {a, b} \in Claims(known[c])
<1>1. Path(a, b, c)
  BY DEF Path, MeshInv, TypeInv, LinksType
<1>2. Learns(a, b, c)
  BY <1>1 DEF CalmLearns, InPath
<1>3. {b, a} = {a, b} /\ {c, b} = {b, c}
  OBVIOUS
<1>4. a \in conns[b] /\ c \in conns[b] /\ b \in conns[a]
  BY <1>3 DEF Quiet
<1>5. timer[a] = "off" /\ timer[b] = "off"
  BY DEF Quiet
<1>6. net[a][b] = <<>> /\ net[b][a] = <<>> /\ net[b][c] = <<>>
  BY <1>3 DEF Quiet
<1>7. ~Will(a) /\ ~Missing(b, c)
  BY <1>5 DEF Will, Missing
<1>8. Elements(net[b][c]) = {} /\ ~Stirs(a, b, c)
  BY <1>6 DEF Elements, Stirs
<1> QED
  BY <1>2, <1>4, <1>6, <1>7, <1>8 DEF Learns

(* What a node has among its edges is connected and in reach of it.        *)
LEMMA EdgesAreInMesh ==
  ASSUME MeshInv, Calm, Tidy, NEW n \in Nodes
  PROVE  DOMAIN edges[n] \subseteq Mesh(n)
<1>1. TypeInv /\ PeersFit /\ PeersStay /\ SaysConnections /\ EdgesAreKnown /\ OnlyPeersTalk
  BY DEF MeshInv, Tidy
<1>2. link \in SUBSET Pairs
  BY <1>1, ScenariosAssumption DEF TypeInv, LinksType, Pairs
<1> SUFFICES ASSUME NEW p \in DOMAIN edges[n] PROVE p \in link /\ p \subseteq Reached(link, n)
  BY DEF Mesh
<1>3. p \in Beside(n) \/ p \in Claims(known[n])
  BY <1>1 DEF EdgesAreKnown
<1>4. conns[n] # {} /\ p \in link
  <2>1. CASE p \in Beside(n)
    BY <1>1, <2>1 DEF Beside, PeersStay
  <2>2. CASE p \in Claims(known[n])
    <3>1. PICK o \in DOMAIN known[n] : p \in DOMAIN known[n][o].connections
      BY <2>2 DEF Claims
    <3>2. Says(o, known[n][o]) \in Statements
      BY StatementsFrom
    <3> QED
      BY <1>1, <3>1, <3>2 DEF SaysConnections, Says, OnlyPeersTalk
  <2> QED
    BY <1>3, <2>1, <2>2
<1>5. PICK m \in Nodes : m \in conns[n] /\ {n, m} \in link /\ m # n
  BY <1>1, <1>4 DEF TypeInv, LinksType, PeersStay, PeersFit
<1>6. PICK x \in Nodes, y \in Nodes : p = {x, y} /\ x # y
  BY <1>1, <1>2, <1>4 DEF Pairs, PeersFit
<1> DEFINE first == Spread(link, {n})
           second == Spread(link, first)
<1>7. second \subseteq Reached(link, n)
  BY <1>2, <1>5, TwoAreTwo, TwoEdgesAreReached DEF Calm, InSmallForest
<1>8. n \in first /\ m \in first /\ first \subseteq second
  <2>1. {n, m} \intersect {n} # {}
    OBVIOUS
  <2> QED
    BY <1>5, <2>1 DEF Spread
<1>9. p \intersect first # {}
  <2>1. x \in {n, m} \/ y \in {n, m}
    BY <1>5, <1>6, NoFourth DEF Calm, InSmallForest
  <2> QED
    BY <1>6, <1>8, <2>1
<1>10. p \subseteq second
  BY <1>4, <1>9 DEF Spread
<1> QED
  BY <1>4, <1>7, <1>10

(* When all is quiet a node has all that is in reach of it.                *)
LEMMA QuietMeshIsKnown ==
  ASSUME MeshInv, Calm, Tidy, CalmLearns, Quiet, NEW n \in Nodes
  PROVE  Mesh(n) \subseteq DOMAIN edges[n]
<1>1. TypeInv /\ PeersFit /\ EdgesAreKnown
  BY DEF MeshInv, Tidy
<1>2. link \in SUBSET Pairs
  BY <1>1, ScenariosAssumption DEF TypeInv, LinksType, Pairs
<1> SUFFICES ASSUME NEW p \in link, p \subseteq Reached(link, n) PROVE p \in DOMAIN edges[n]
  BY DEF Mesh
<1>3. PICK x \in Nodes, y \in Nodes : p = {x, y} /\ x # y
  BY <1>1, <1>2 DEF Pairs, PeersFit
<1>4. Beside(n) \union Claims(known[n]) \subseteq DOMAIN edges[n]
  BY <1>1 DEF EdgesAreKnown, Quiet
<1>5. ASSUME NEW m \in Nodes, {n, m} \in link PROVE {n, m} \in DOMAIN edges[n]
  BY <1>4, <1>5 DEF Quiet, Beside
<1>6. CASE n \in p
  <2>1. p = {n, x} \/ p = {n, y}
    BY <1>3, <1>6
  <2> QED
    BY <1>5, <2>1
<1>7. CASE n \notin p
  <2>1. Cardinality(Nodes) \in Nat
    BY FS_CardinalityType DEF Calm, InSmallForest, FewNodes
  <2>2. ~(\A q \in link : n \notin q)
    BY <1>2, <1>3, <1>7, <2>1, AloneReachesNobody
  <2>3. PICK q \in link : n \in q
    BY <2>2
  <2>4. PICK m \in Nodes : q = {n, m} /\ m # n
    <3>1. PICK u \in Nodes, v \in Nodes : q = {u, v} /\ u # v
      BY <1>1, <1>2 DEF Pairs, PeersFit
    <3>2. \/ q = {n, u} /\ u # n
          \/ q = {n, v} /\ v # n
      BY <2>3, <3>1
    <3> QED
      BY <3>2
  <2>5. m = x \/ m = y
    BY <1>3, <1>7, <2>4, NoFourth DEF Calm, InSmallForest
  <2>6. CASE m = x
    <3>1. {y, x} = p /\ {x, n} = q
      BY <1>3, <2>4, <2>6
    <3>2. {y, x} \in Claims(known[n])
      BY <1>3, <1>7, <3>1, QuietIsTold
    <3> QED
      BY <1>4, <3>1, <3>2
  <2>7. CASE m = y
    <3>1. {x, y} = p /\ {y, n} = q
      BY <1>3, <2>4, <2>7
    <3>2. {x, y} \in Claims(known[n])
      BY <1>3, <1>7, <3>1, QuietIsTold
    <3> QED
      BY <1>4, <3>1, <3>2
  <2> QED
    BY <2>5, <2>6, <2>7
<1> QED
  BY <1>6, <1>7

LEMMA KnowsTheMesh ==
  ASSUME MeshInv, CalmIsTidy, CalmLearns, InSmallForest
  PROVE  EveryoneKnowsTheMesh
<1> SUFFICES ASSUME faults = 0, Quiet, NEW n \in Nodes
             PROVE  edges[n] = [p \in Mesh(n) |-> Near]
  BY DEF EveryoneKnowsTheMesh
<1>1. Calm /\ Tidy
  BY DEF Calm, CalmIsTidy
<1>2. DOMAIN edges[n] = Mesh(n)
  BY <1>1, EdgesAreInMesh, QuietMeshIsKnown
<1>3. \A p \in DOMAIN edges[n] : edges[n][p] = Near
  BY <1>1 DEF Tidy, EdgesAreKnown
<1>4. edges[n] = [p \in DOMAIN edges[n] |-> edges[n][p]]
  BY DEF MeshInv, TypeInv, EdgesType, Graphs
<1> QED
  BY <1>2, <1>3, <1>4

(* In a mesh without a cycle and of at most three nodes, once all is quiet *)
(* and while nothing failed every node has exactly the connections in its  *)
(* reach as edges, in whatever order connections came up, timers ran out   *)
(* and advertisements were handled.                                        *)
THEOREM MeshIsKnown == Spec => [](InSmallForest => EveryoneKnowsTheMesh)
<1>1. Init => SmallForestSurvives
  BY DEF Init, SmallForestSurvives, HandlersSurvive
<1>2. Spec => [](MeshInv /\ CalmIsTidy /\ CalmLearns)
  BY <1>1, InitMesh, InitLearns, NextMesh, SurviveStep, TidyStep, CalmLearnsStep, PTL DEF Spec
<1>3. MeshInv /\ CalmIsTidy /\ CalmLearns => (InSmallForest => EveryoneKnowsTheMesh)
  BY KnowsTheMesh
<1> QED
  BY <1>2, <1>3, PTL
=============================================================================
