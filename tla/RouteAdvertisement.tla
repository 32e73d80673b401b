------------------------- MODULE RouteAdvertisement -------------------------
(***************************************************************************)
(* How the nodes of a mesh tell each other their connections               *)
(* (receptor.receptor.Receptor).  A node whose routes change sends an      *)
(* advertisement to its peers; they record it, recompute their routes and  *)
(* relay it to their other peers.                                          *)
(*                                                                         *)
(* A step is a handler from the arrival of an advertisement to its last    *)
(* relay, or route_send_check from its wake-up to its last send.           *)
(*                                                                         *)
(* SameSequence, NotForced, RecheckedAgain, NeverStale, StaleIfSame and    *)
(* NamedWithSelf are mistakes: mutants of the definitions after them.      *)
(***************************************************************************)
EXTENDS Naturals, Sequences, FiniteSets

CONSTANTS
  Nodes,
  Scenarios      \* meshes, each with the bounds it is examined under

(* links: the pairs that may be connected; ups: bound on connections made; *)
(* faults: on connections lost, restarts, overtakings and expiries;        *)
(* sequence: on the advertisements a node sends in one life.               *)
ASSUME ScenariosAssumption ==
  Scenarios \subseteq
    [links : SUBSET {{a, b} : a, b \in Nodes}, ups : Nat, faults : Nat, sequence : Nat]

VARIABLES
  scenario,
  ups, faults,   \* counted only to bound them
  link,          \* pairs whose transport connection is up
  conns,         \* self.connections: the peers with a connection
  met,           \*   all its keys, which stay when a connection is lost
  manifest,      \* ids in the connection manifest, a file
  epoch, seq,    \* seq_epoch and sequence of known_nodes[node_id]
  known,         \* known_nodes, without the node itself
  seen,          \* route_adv_seen
  edges,         \* self.router.get_edges()
  timer,         \* route_sender_task: "off", "plain", "forced"
  deaf,          \* connections whose message_handler has ended by an exception
  net            \* advertisements in the buffers and on the way

bounds == <<scenario, ups, faults>>
links == <<link, conns, met, manifest>>
lives == <<epoch, seq>>
views == <<known, seen>>
tasks == <<timer, deaf>>
vars == <<bounds, links, lives, views, edges, tasks, net>>

Init ==
  /\ scenario \in Scenarios /\ ups = 0 /\ faults = 0
  /\ link = {}
  /\ conns = [n \in Nodes |-> {}] /\ met = conns /\ manifest = conns
  /\ epoch = [n \in Nodes |-> 1] /\ seq = [n \in Nodes |-> 0]
  /\ known = [n \in Nodes |-> <<>>] /\ seen = [n \in Nodes |-> {}]
  /\ edges = [n \in Nodes |-> <<>>]
  /\ timer = [n \in Nodes |-> "off"]
  /\ deaf = [n \in Nodes |-> {}]
  /\ net = [n \in Nodes |-> [m \in Nodes |-> <<>>]]

(* --------------------------- recalculate_routes ------------------------ *)

Near == 1
Far == 100

(* The graphs that may result: connections at cost 1, other peers at 100,  *)
(* other edges at a cost that an end has advertised in report (the order   *)
(* of known_nodes, left open, says which end).                             *)
Recalculated(n, report) ==
  LET near == {{n, m} : m \in conns[n]}
      own == near \union {{n, m} : m \in manifest[n]}
      Claims(p) == {o \in DOMAIN report : p \in DOMAIN report[o].connections}
      claimed == UNION {DOMAIN report[o].connections : o \in DOMAIN report}
      Costs(p) == IF p \in near THEN {Near}
                  ELSE IF p \in own THEN {Far}
                  ELSE {report[o].connections[p] : o \in Claims(p)}
  IN  {g \in [own \union claimed -> {Near, Far}] : \A p \in DOMAIN g : g[p] \in Costs(p)}

Reached(g, n) ==
  LET within[k \in 0 .. Cardinality(Nodes)] ==
        IF k = 0 THEN {n}
        ELSE within[k - 1] \union UNION {p \in g : p \intersect within[k - 1] # {}}
  IN  within[Cardinality(Nodes)]

(* A change of the edges that leaves a node cut off makes the router raise *)
(* (RaisesWhenCutOff in Router).                                           *)
Raises(n, g) == g # edges[n] /\ ~(UNION (DOMAIN g) \subseteq Reached(DOMAIN g, n))

(* recalculate_and_send_routes_soon: a task that waits is not replaced.    *)
Soon(n, force) ==
  timer' = [timer EXCEPT ![n] = IF @ # "off" THEN @
                                ELSE IF force THEN "forced" ELSE "plain"]

(* ------------------------------ connections ---------------------------- *)

Up(n, m) ==
  /\ ups < scenario.ups /\ ups' = ups + 1
  /\ {n, m} \in scenario.links \ link /\ n # m
  /\ m \notin conns[n] /\ n \notin conns[m]
  /\ link' = link \union {{n, m}}
  /\ UNCHANGED <<scenario, faults, conns, met, manifest, lives, views, edges, tasks, net>>

(* update_connections and start_processing: a new message_handler.         *)
Register(n, m) ==
  /\ {n, m} \in link
  /\ m \notin conns[n]
  /\ conns' = [conns EXCEPT ![n] = @ \union {m}]
  /\ met' = [met EXCEPT ![n] = @ \union {m}]
  /\ manifest' = [manifest EXCEPT ![n] = @ \union {m}]
  /\ deaf' = [deaf EXCEPT ![n] = @ \ {m}]
  /\ Soon(n, FALSE)
  /\ UNCHANGED <<bounds, link, lives, views, edges, net>>

Fault == faults < scenario.faults /\ faults' = faults + 1 /\ UNCHANGED <<scenario, ups>>

(* What is on the way is lost, what waits in the buffers is not.           *)
Down(n, m) ==
  /\ Fault
  /\ {n, m} \in link
  /\ link' = link \ {{n, m}}
  /\ \E i \in 0 .. Len(net[n][m]), j \in 0 .. Len(net[m][n]) :
       net' = [net EXCEPT ![n][m] = SubSeq(@, i + 1, Len(@)),
                          ![m][n] = SubSeq(@, j + 1, Len(@))]
  /\ UNCHANGED <<conns, met, manifest, lives, views, edges, tasks>>

(* unregister: remove_connection, then the message_handler is cancelled.   *)
Unregister(n, m) ==
  /\ {n, m} \notin link
  /\ m \in conns[n]
  /\ conns' = [conns EXCEPT ![n] = @ \ {m}]
  /\ Soon(n, FALSE)
  /\ UNCHANGED <<bounds, link, met, manifest, lives, views, edges, deaf, net>>

(* Two drains of one connection overtake each other (module Link).         *)
Overtake(n, m) ==
  /\ Fault
  /\ Len(net[n][m]) > 1
  /\ net' = [net EXCEPT ![n][m] = <<@[2], @[1]>> \o SubSeq(@, 3, Len(@))]
  /\ UNCHANGED <<links, lives, views, edges, tasks>>

(* An id is forgotten after ten minutes.                                   *)
Forget(n) ==
  /\ Fault
  /\ \E id \in seen[n] : seen' = [seen EXCEPT ![n] = @ \ {id}]
  /\ UNCHANGED <<links, lives, known, edges, tasks, net>>

(* The process starts again; of its files only the manifest is read again  *)
(* (for the buffers see DurableBuffer).                                    *)
Restart(n) ==
  /\ Fault
  /\ \A p \in link : n \notin p
  /\ epoch' = [epoch EXCEPT ![n] = @ + 1]
  /\ seq' = [seq EXCEPT ![n] = 0]
  /\ conns' = [conns EXCEPT ![n] = {}] /\ met' = [met EXCEPT ![n] = {}]
  /\ known' = [known EXCEPT ![n] = <<>>] /\ seen' = [seen EXCEPT ![n] = {}]
  /\ edges' = [edges EXCEPT ![n] = <<>>]
  /\ timer' = [timer EXCEPT ![n] = "off"]
  /\ deaf' = [deaf EXCEPT ![n] = {}]
  /\ net' = [net EXCEPT ![n] = [m \in Nodes |-> <<>>]]
  /\ UNCHANGED <<link, manifest>>

(* ----------------------- route_send_check, send_routes ----------------- *)

SameSequence(n) == seq[n]
NextSequence(n) == seq[n] + 1

(* names stands for node_capabilities: the nodes the origin knows of.      *)
Advertisement(n, g) ==
  [origin |-> n, epoch |-> epoch[n], sequence |-> seq[n] + 1,
   connections |-> [p \in {q \in DOMAIN g : n \in q} |-> g[p]],
   names |-> DOMAIN known[n]]

Sent(n, targets, adv) ==
  [m \in Nodes |-> IF m \in targets THEN Append(net[n][m], adv) ELSE net[n][m]]

(* known_nodes[node_id]["sequence"] differs from last_sent_seq, None at    *)
(* first, only before the first advertisement.                             *)
NotForced(n, g) == g # edges[n] \/ seq[n] = 0
IsDue(n, g) == timer[n] = "forced" \/ g # edges[n] \/ seq[n] = 0

(* The lists of edges the code compares differ by their order as well, but *)
(* not while there is at most one edge between other nodes.                *)
Reordered(n, g) == Cardinality({p \in DOMAIN g : n \notin p}) > 1

RecheckedAgain(n, g) ==
  /\ timer[n] # "off"
  /\ edges' = [edges EXCEPT ![n] = g]
  /\ UNCHANGED <<bounds, links, epoch, views, tasks>>
Rechecked(n, g) ==
  /\ timer[n] # "off"
  /\ timer' = [timer EXCEPT ![n] = "off"]
  /\ edges' = [edges EXCEPT ![n] = g]
  /\ UNCHANGED <<bounds, links, epoch, views, deaf>>

SendRoutes(n, g) ==
  /\ Rechecked(n, g)
  /\ IsDue(n, g) \/ Reordered(n, g)
  /\ ~Raises(n, g)
  /\ seq[n] < scenario.sequence
  /\ seq' = [seq EXCEPT ![n] = NextSequence(n)]
  /\ net' = [net EXCEPT ![n] = Sent(n, conns[n], Advertisement(n, g))]

SendNothing(n, g) ==
  /\ Rechecked(n, g)
  /\ ~IsDue(n, g) \/ Raises(n, g)
  /\ UNCHANGED <<seq, net>>

Check(n) ==
  \E g \in Recalculated(n, known[n]) : SendRoutes(n, g) \/ SendNothing(n, g)

(* ----------------------- handle_route_advertisement -------------------- *)

Id(adv) == <<adv.origin, adv.epoch, adv.sequence>>

NeverStale(n, adv) == FALSE
StaleIfSame(n, adv) ==
  /\ adv.origin \in DOMAIN known[n]
  /\ \/ known[n][adv.origin].epoch >= adv.epoch
     \/ known[n][adv.origin].sequence >= adv.sequence
Stale(n, adv) ==
  /\ adv.origin \in DOMAIN known[n]
  /\ \/ known[n][adv.origin].epoch > adv.epoch
     \/ known[n][adv.origin].sequence >= adv.sequence

Unheard == [epoch |-> 0, sequence |-> 0, connections |-> <<>>]

(* node_capabilities adds the nodes the origin knows of to known_nodes.    *)
NamedWithSelf(n, adv) == DOMAIN known[n] \union adv.names \union {adv.origin}
Named(n, adv) == DOMAIN known[n] \union ((adv.names \union {adv.origin}) \ {n})
View(n, o) == IF o \in DOMAIN known[n] THEN known[n][o] ELSE Unheard

(* Nodes whose only connection was to the origin, who has it no longer.    *)
Orphans(n, adv) ==
  {o \in Named(n, adv) : /\ DOMAIN View(n, o).connections = {{o, adv.origin}}
                         /\ {o, adv.origin} \notin DOMAIN adv.connections}
Report(adv) == [epoch |-> adv.epoch, sequence |-> adv.sequence,
                connections |-> adv.connections]
Recorded(n, adv) ==
  [o \in (Named(n, adv) \ Orphans(n, adv)) \union {adv.origin} |->
     IF o = adv.origin THEN Report(adv) ELSE View(n, o)]

(* The first advertisement of a connection reaches its message_handler.    *)
Arrives(n, m, adv) ==
  /\ {n, m} \in link /\ m \in conns[n] /\ n \in conns[m]
  /\ net[m][n] # <<>> /\ adv = Head(net[m][n])
  /\ UNCHANGED <<bounds, links, lives>>
Taken(n, m) == [net EXCEPT ![m][n] = Tail(@)]

IsNews(n, m, adv) == m \notin deaf[n] /\ adv.origin # n /\ Id(adv) \notin seen[n]
See(n, adv) == seen' = [seen EXCEPT ![n] = @ \union {Id(adv)}]
StopHearing(n, m) == deaf' = [deaf EXCEPT ![n] = @ \union {m}]

(* Known already, or nobody looks at what the connection brings.           *)
Ignore(n, m, adv) ==
  /\ Arrives(n, m, adv)
  /\ ~IsNews(n, m, adv)
  /\ net' = Taken(n, m)
  /\ UNCHANGED <<views, edges, tasks>>

(* A stale advertisement is to be ignored with a warning; composing the    *)
(* warning raises TypeError.                                               *)
Reject(n, m, adv) ==
  /\ Arrives(n, m, adv)
  /\ IsNews(n, m, adv) /\ Stale(n, adv)
  /\ See(n, adv) /\ StopHearing(n, m)
  /\ net' = Taken(n, m)
  /\ UNCHANGED <<known, edges, timer>>

IsFirst(n, adv) == adv.origin \notin DOMAIN known[n]

(* Peers that are away get the relayed advertisement too.                  *)
Accept(n, m, adv, g) ==
  /\ Arrives(n, m, adv)
  /\ IsNews(n, m, adv) /\ ~Stale(n, adv)
  /\ See(n, adv)
  /\ known' = [known EXCEPT ![n] = Recorded(n, adv)]
  /\ IF IsFirst(n, adv) THEN Soon(n, TRUE) ELSE UNCHANGED timer
  /\ edges' = [edges EXCEPT ![n] = g]
  /\ IF Raises(n, g)
     THEN StopHearing(n, m) /\ net' = Taken(n, m)
     ELSE /\ net' = [Taken(n, m) EXCEPT ![n] = Sent(n, met[n] \ {m}, adv)]
          /\ UNCHANGED deaf

OnTheWay(n, m) == {net[n][m][i] : i \in DOMAIN net[n][m]}
Handle(n, m) ==
  \E adv \in OnTheWay(m, n) :
    \/ Ignore(n, m, adv) \/ Reject(n, m, adv)
    \/ \E g \in Recalculated(n, Recorded(n, adv)) : Accept(n, m, adv, g)

Next ==
  \E n \in Nodes :
    \/ Check(n) \/ Forget(n) \/ Restart(n)
    \/ \E m \in Nodes : \/ Up(n, m) \/ Register(n, m) \/ Down(n, m) \/ Unregister(n, m)
                        \/ Overtake(n, m) \/ Handle(n, m)

(* Timers run out, handlers run when something has come, a handshake and   *)
(* the loss of a connection are noticed.                                   *)
Fairness ==
  \A n \in Nodes :
    /\ WF_vars(Check(n))
    /\ \A m \in Nodes \ {n} :
         WF_vars(Register(n, m)) /\ WF_vars(Unregister(n, m)) /\ WF_vars(Handle(n, m))

Spec == Init /\ [][Next]_vars /\ Fairness

-----------------------------------------------------------------------------

IsGraph(g) ==
  DOMAIN g \subseteq {{a, b} : a, b \in Nodes} /\ g \in [DOMAIN g -> {Near, Far}]
IsReport(r) == r.epoch \in Nat /\ r.sequence \in Nat /\ IsGraph(r.connections)
IsAdvertisement(adv) ==
  IsReport(adv) /\ adv.sequence > 0 /\ adv.origin \in Nodes /\ adv.names \subseteq Nodes

(* The nodes' state is well typed; nobody keeps a report of itself.        *)
TypeOK ==
  /\ link \subseteq scenario.links
  /\ \A n \in Nodes :
       /\ conns[n] \subseteq met[n] /\ met[n] \subseteq manifest[n]
       /\ manifest[n] \subseteq Nodes
       /\ epoch[n] \in Nat \ {0} /\ seq[n] \in 0 .. scenario.sequence
       /\ DOMAIN known[n] \subseteq Nodes \ {n}
       /\ \A o \in DOMAIN known[n] : IsReport(known[n][o])
       /\ IsGraph(edges[n])
       /\ timer[n] \in {"off", "plain", "forced"}
       /\ deaf[n] \subseteq Nodes
       /\ \A m \in Nodes : \A i \in DOMAIN net[n][m] : IsAdvertisement(net[n][m][i])

(* News never goes back: what a node knows of another is replaced by later *)
(* news only, those of the next life after those of the last.              *)
Later(v, w) ==
  \/ v.epoch < w.epoch
  \/ v.epoch = w.epoch /\ v.sequence < w.sequence
NewsNeverGoesBack ==
  [][\A n \in Nodes : epoch'[n] = epoch[n] =>
       \A o \in DOMAIN known[n] \intersect DOMAIN known'[n] :
         known'[n][o] = known[n][o] \/ Later(known[n][o], known'[n][o])]_vars

(* All that is known or under way under one epoch and sequence of an       *)
(* origin is the same: across relays, restarts and overtakings nobody      *)
(* takes an old advertisement for a new one.                               *)
Says(o, v) == [origin |-> o, epoch |-> v.epoch, sequence |-> v.sequence,
               connections |-> v.connections]
Known(n) == {Says(o, known[n][o]) : o \in DOMAIN known[n]}
UnderWay(n, m) == {Says(adv.origin, adv) : adv \in OnTheWay(n, m)}
Statements ==
  UNION {Known(n) \union UNION {UnderWay(n, m) : m \in Nodes} : n \in Nodes}
OneStatementPerId ==
  \A s, t \in Statements : s.sequence > 0 /\ Id(s) = Id(t) => s = t

Quiet ==
  \A n, m \in Nodes :
    /\ timer[n] = "off"
    /\ {n, m} \in link <=> m \in conns[n]
    /\ {n, m} \in link => net[n][m] = <<>>

(* Advertising comes to an end once connections stop changing.             *)
AdvertisingSettles == <>[]Quiet

(* While nothing fails, in a mesh without a cycle and of at most three     *)
(* nodes, no advertisement comes late and no handler ends.                 *)
HandlersSurvive == faults = 0 => \A n \in Nodes : deaf[n] = {}

Mesh(n) == {p \in link : p \subseteq Reached(link, n)}
(* In such a mesh every node ends up with the edges of its mesh while      *)
(* nothing fails.                                                          *)
EveryoneKnowsTheMesh ==
  faults = 0 /\ Quiet => \A n \in Nodes : edges[n] = [p \in Mesh(n) |-> Near]

(* "Ignoring routing update" (receptor.py:353): taking an advertisement    *)
(* that is older than what is known leaves the handler at work.            *)
LateNewsIsIgnored ==
  [][\A n, m \in Nodes :
       net[m][n] # <<>> /\ net'[m][n] = Tail(net[m][n]) /\ Stale(n, Head(net[m][n]))
       => deaf'[n] \subseteq deaf[n]]_vars
=============================================================================
