------------------------------ MODULE Requests ------------------------------
(***************************************************************************)
(* The way of a request through the mesh: Controller.send or ping, the     *)
(* nodes that forward it (Receptor.handle_message, MeshRouter.send and     *)
(* forward), the node Server that handles it (handle_directive, Control,   *)
(* and the WorkManager that module Work specifies), and the way back of    *)
(* its responses into the response queue of the node that asked.           *)
(*                                                                         *)
(* A message that forward() has put into the buffer of the next hop stays  *)
(* with that hop: mail holds what is in buffers and on links.  Mail is a   *)
(* set, for Link shows that messages overtake each other and may be sent   *)
(* twice; that one is lost (expired, failed write, unlucky close) is a     *)
(* fault here.  The routing tables come and go as Reroute likes.           *)
(*                                                                         *)
(* RelaysIfRouted is a mistake: a mutant of the definition after it.       *)
(***************************************************************************)
EXTENDS Work

CONSTANTS
  Nodes, Server,
  From,          \* From[m]: the node that sends request m
  Kinds,         \* the functions from Requests to kinds to start from
  FirstTables,   \* the next hops to start from: t[n][d] for a t of them
  Tables,        \* Tables[n]: the functions of next hops n may get later
  MaxReroutes, MaxFaults,
  NoHop          \* None, the next hop when there is no route

ASSUME NodesAssumption ==
  Server \in Nodes /\ From \in [Requests -> Nodes] /\ NoHop \notin Nodes

ASSUME TablesAssumption ==
  LET Table == [Nodes -> Nodes \union {NoHop}] IN
  FirstTables \subseteq [Nodes -> Table] /\ Tables \in [Nodes -> SUBSET Table]

\* What the directive and payload of a request lead to.
KindNames ==
  {"work",        \* an exported action of a plugin
   "unknown",     \* no such plugin or action: get_action_method raises
   "unresolved",  \* its payload cannot be resolved
   "ping",        \* receptor:ping
   "keepalive",   \* receptor:ping with expected_response=False
   "invalid"}     \* another receptor: directive, or one without a colon

ASSUME KindsAssumption == Kinds \subseteq [Requests -> KindNames]

VARIABLES
  kind,       \* the kind of every request
  sent,       \* "no", "sent", or "refused" with UnrouteableError
  registry,   \* response_registry of the senders
  mail,       \* messages on their way: [at, hop, msg]
  hop,        \* hop[n][d]: what n's routing table says
  cut,        \* the links {n, m} that are down
  inbox,      \* the responses that reached the response queues
  dropped,    \* <<id, why>> of messages that are gone
  restarted,  \* history: the nodes that have restarted
  faults, reroutes   \* counted to bound them

netVars == <<mail, hop, cut, dropped, restarted, faults, reroutes>>
clientVars == <<kind, sent, registry, inbox>>
vars == <<workVars, netVars, clientVars>>

Init ==
  /\ WorkInit
  /\ kind \in Kinds
  /\ sent = [m \in Requests |-> "no"]
  /\ registry = {} /\ mail = {} /\ inbox = {} /\ dropped = {}
  /\ hop \in FirstTables /\ cut = {} /\ restarted = {}
  /\ faults = 0 /\ reroutes = 0

(* A request has serial 0; an eof is "none", "ok" or "error".              *)
Request(m) == [id |-> m, job |-> 0, serial |-> 0, eof |-> "none"]
Response(j, m, s, eof) == [id |-> m, job |-> j, serial |-> s, eof |-> eof]
Recipient(x) == IF x.serial = 0 THEN Server ELSE From[x.id]

(* -------------------- next_hop, forward and router.send ---------------- *)

NextHop(n, d) == IF d = n THEN n ELSE hop[n][d]
Entry(n, x) == [at |-> n, hop |-> NextHop(n, Recipient(x)), msg |-> x]
Routed(n, x) == NextHop(n, Recipient(x)) # NoHop

(* forward(): also when the next hop is None, into a buffer of that name.  *)
RelaysIfRouted(n, x) == {Entry(n, x)} \cap [at : Nodes, hop : Nodes, msg : {x}]
Forwarded(n, x) == {Entry(n, x)}

(* router.send() of a response: an UnrouteableError is only logged.        *)
Posted(n, rest, x) ==
  /\ mail' = rest \union (IF Routed(n, x) THEN Forwarded(n, x) ELSE {})
  /\ dropped' = IF Routed(n, x) THEN dropped
                ELSE dropped \union {<<x.id, "unrouteable">>}

(* Controller.send, Controller.ping and the keepalive of run_as_node.      *)
Send(m) ==
  /\ sent[m] = "no" /\ Routed(From[m], Request(m))
  /\ sent' = [sent EXCEPT ![m] = "sent"]
  /\ registry' = IF kind[m] = "keepalive" THEN registry ELSE registry \union {m}
  /\ mail' = mail \union Forwarded(From[m], Request(m))
  /\ UNCHANGED <<workVars, hop, cut, dropped, restarted, faults, reroutes, kind, inbox>>

Refuse(m) ==
  /\ sent[m] = "no" /\ ~Routed(From[m], Request(m))
  /\ sent' = [sent EXCEPT ![m] = "refused"]
  /\ UNCHANGED <<workVars, netVars, kind, registry, inbox>>

(* ----------------------------- handle_message -------------------------- *)

(* The message of entry e reaches its hop.  When the link fails after the  *)
(* payload went through, it is put back and comes again.                   *)
Taken(e, rest) ==
  /\ e.hop # NoHop /\ {e.at, e.hop} \notin cut
  /\ \/ rest = mail \ {e} /\ UNCHANGED faults
     \/ e.at # e.hop /\ faults < MaxFaults /\ faults' = faults + 1 /\ rest = mail

Keeping(e) == {mail, mail \ {e}}

Relay(e) == \E rest \in Keeping(e) :
  /\ Taken(e, rest)
  /\ e.hop # Recipient(e.msg)
  /\ mail' = rest \union Forwarded(e.hop, e.msg)
  /\ UNCHANGED <<workVars, hop, cut, dropped, restarted, reroutes, clientVars>>

Arrives(e, rest) == Taken(e, rest) /\ e.hop = Recipient(e.msg)

HandleResponse(e) == \E rest \in Keeping(e) :
  /\ Arrives(e, rest) /\ e.msg.serial > 0
  /\ mail' = rest
  /\ IF e.msg.id \in registry
     THEN inbox' = inbox \union {e.msg} /\ UNCHANGED dropped
     ELSE dropped' = dropped \union {<<e.msg.id, "unexpected">>} /\ UNCHANGED inbox
  /\ UNCHANGED <<workVars, hop, cut, restarted, reroutes, kind, sent, registry>>

(* handle_directive of a request.                                          *)
IsAsked(e, rest, kinds) ==
  Arrives(e, rest) /\ e.msg.serial = 0 /\ kind[e.msg.id] \in kinds

Ping(e) == \E rest \in Keeping(e) :
  /\ IsAsked(e, rest, {"ping", "keepalive"})
  /\ Posted(Server, rest, Response(0, e.msg.id, 1, "none"))
  /\ UNCHANGED <<workVars, hop, cut, restarted, reroutes, clientVars>>

(* UnknownDirective is logged; the handler of a ValueError fails itself.   *)
Invalid(e) == \E rest \in Keeping(e) :
  /\ IsAsked(e, rest, {"invalid"})
  /\ mail' = rest
  /\ dropped' = dropped \union {<<e.msg.id, "invalid">>}
  /\ UNCHANGED <<workVars, hop, cut, restarted, reroutes, clientVars>>

StartWork(e) == \E rest \in Keeping(e), j \in Jobs :
  /\ IsAsked(e, rest, {"work"})
  /\ Submit(j, e.msg.id)
  /\ mail' = rest
  /\ UNCHANGED <<hop, cut, dropped, restarted, reroutes, clientVars>>

RefuseWork(e) == \E rest \in Keeping(e), j \in Jobs :
  /\ IsAsked(e, rest, {"unknown", "unresolved"})
  /\ Reject(j, e.msg.id, kind[e.msg.id] = "unresolved")
  /\ Posted(Server, rest, Response(j, e.msg.id, 1, "error"))
  /\ UNCHANGED <<hop, cut, restarted, reroutes, clientVars>>

HandleMessage(e) ==
  \/ Relay(e) \/ HandleResponse(e)
  \/ Ping(e) \/ Invalid(e) \/ StartWork(e) \/ RefuseWork(e)

Deliver(m) == \E e \in mail : e.msg.id = m /\ HandleMessage(e)

(* ------------------------------ the work manager ----------------------- *)

Elsewhere == UNCHANGED <<netVars, clientVars>>
Start(j) == ThreadStart(j) /\ Elsewhere
Emit(j) == (\E item \in Items : Put(j, item)) /\ Elsewhere
Over(j) == Return(j) /\ Elsewhere
Callback(j) == Close(j) /\ Elsewhere

Answers(j, s, eof) ==
  /\ Posted(Server, mail, Response(j, request[j], s, eof))
  /\ UNCHANGED <<hop, cut, faults, restarted, reroutes, clientVars>>

SendResponse(j) ==
  /\ Respond(j)
  /\ Routed(Server, Response(j, request[j], Next1(j), "none"))
  /\ Answers(j, Next1(j), "none")

SendError(j) ==
  /\ RespondRaises(j, Routed(Server, Response(j, request[j], Next1(j), "none")))
  /\ Answers(j, Next1(j) + 1, "error")

SendEof(j) == Finish(j) /\ Answers(j, Next1(j), "ok")

Coroutine(j) == SendResponse(j) \/ SendError(j) \/ SendEof(j)

(* ------------------------------- the world ----------------------------- *)

(* What a node hands to itself never leaves the process.                   *)
Lose(e) ==
  /\ faults < MaxFaults /\ e.at # e.hop
  /\ faults' = faults + 1
  /\ mail' = mail \ {e}
  /\ dropped' = dropped \union {<<e.msg.id, "lost">>}
  /\ UNCHANGED <<workVars, hop, cut, restarted, reroutes, clientVars>>

CutLink(link) ==
  /\ faults < MaxFaults /\ link \notin cut
  /\ faults' = faults + 1 /\ cut' = cut \union {link}
  /\ UNCHANGED <<workVars, mail, hop, dropped, restarted, reroutes, clientVars>>

MendLink(link) ==
  /\ link \in cut /\ cut' = cut \ {link}
  /\ UNCHANGED <<workVars, mail, hop, dropped, faults, restarted, reroutes, clientVars>>

(* update_routing_table, when the edges have changed.                      *)
Reroute(n, table) ==
  /\ reroutes < MaxReroutes /\ table # hop[n]
  /\ reroutes' = reroutes + 1 /\ hop' = [hop EXCEPT ![n] = table]
  /\ UNCHANGED <<workVars, mail, cut, dropped, restarted, faults, clientVars>>

(* A node restarts.  Its buffers are empty, for what is read from their    *)
(* manifests is discarded (DurableBuffer.LoadedItems), and so are its      *)
(* table and registry.  What others send to it is lost if it was on the    *)
(* transport or in the parser, and kept if it was in their buffers yet.    *)
(* That links are down meanwhile delays only what waits for them.          *)
ServedNow == {j \in Jobs : phase[j] = "serving"}
Stored(n) == {e \in mail : e.at = n}
OnItsWay(n) == {e \in mail : e.at # n /\ e.hop = n}
Lost(n) == IF n = Server THEN {request[j] : j \in ServedNow} ELSE {}

Restart(n) == \E gone \in {Stored(n) \union some : some \in SUBSET OnItsWay(n)} :
  /\ faults < MaxFaults /\ faults' = faults + 1
  /\ IF n = Server THEN WorkRestart ELSE UNCHANGED workVars
  /\ mail' = mail \ gone
  /\ dropped' = dropped \union
       {<<id, "restart">> : id \in {e.msg.id : e \in gone} \union Lost(n)}
  /\ hop' = [hop EXCEPT ![n] = [d \in Nodes |-> NoHop]]
  /\ registry' = {m \in registry : From[m] # n}
  /\ restarted' = restarted \union {n}
  /\ UNCHANGED <<cut, reroutes, kind, sent, inbox>>

Links == {ends \in SUBSET Nodes : Cardinality(ends) = 2}

Next ==
  \/ \E m \in Requests : Send(m) \/ Refuse(m) \/ Deliver(m)
  \/ \E j \in Jobs : Emit(j) \/ Start(j) \/ Over(j) \/ Callback(j) \/ Coroutine(j)
  \/ \E e \in mail : Lose(e)
  \/ \E link \in Links : CutLink(link) \/ MendLink(link)
  \/ \E n \in Nodes : \E table \in Tables[n] : Reroute(n, table)
  \/ \E n \in Nodes : Restart(n)

Calls(j) == Start(j) \/ Over(j) \/ Callback(j) \/ Coroutine(j)

(* Messages that links can carry are carried and handled; the pool runs    *)
(* what is submitted, plugins are expected not to run for ever             *)
(* (docs/plugins.rst), the event loop runs callbacks and coroutines.       *)
(* A job and the way of a message have finitely many steps, so there is no *)
(* need to be fair to each.                                                *)
Fairness ==
  /\ WF_vars(\E m \in Requests : Deliver(m))
  /\ WF_vars(\E j \in Jobs : Calls(j))

Spec == Init /\ [][Next]_vars /\ Fairness

-----------------------------------------------------------------------------

(* Messages, jobs and counters are well typed; never do more actions run   *)
(* than the pool has threads.                                              *)
MessageTypes ==
  [id : Requests, job : Nat, serial : Nat, eof : {"none", "ok", "error"}]
TypeOK ==
  /\ WorkTypeOK
  /\ kind \in [Requests -> KindNames]
  /\ sent \in [Requests -> {"no", "sent", "refused"}]
  /\ registry \subseteq Requests /\ inbox \subseteq MessageTypes
  /\ \A e \in mail : e.at \in Nodes /\ e.hop \in Nodes \union {NoHop}
                     /\ e.msg \in MessageTypes
  /\ hop \in [Nodes -> [Nodes -> Nodes \union {NoHop}]]
  /\ cut \subseteq Links /\ restarted \subseteq Nodes

(* A job has answered with serial s: the response is on its way, has       *)
(* arrived, or the way back of its request lost something.                 *)
Seen(j, s) == \E x \in inbox \union {e.msg : e \in mail} : x.job = j /\ x.serial = s
Dropped(m) == \E d \in dropped : d[1] = m

(* No handler forgets a message: whatever was sent is on its way, being    *)
(* served or answered, each response of each job is on its way or has      *)
(* arrived, and what is gone is gone for a reason that applies to it.      *)
NothingVanishes ==
  /\ \A m \in Requests : sent[m] = "sent" =>
       \/ Dropped(m) \/ \E x \in inbox : x.id = m
       \/ \E e \in mail : e.msg.id = m
       \/ \E j \in ServedNow : request[j] = m
  /\ \A j \in 1 .. calls :
       \/ Dropped(request[j])
       \/ \A s \in 1 .. serial[j] :
            Seen(j, s) \/ (s = serial[j] /\ phase[j] = "error")
  /\ \A d \in dropped :
       /\ d[2] = "unexpected" => kind[d[1]] = "keepalive" \/ From[d[1]] \in restarted
       /\ d[2] = "lost" => faults > 0
       /\ d[2] = "restart" => restarted # {}
       /\ d[2] = "invalid" => kind[d[1]] = "invalid"

(* The eof message of a job with all its responses: those of an action     *)
(* that ended are numbered 1 to one less than the eof; after an error the  *)
(* last number was never sent.                                             *)
Complete(m) == \E x \in inbox :
  /\ x.id = m
  /\ kind[m] = "ping" \/ x.eof # "none"
  /\ \A s \in 1 .. x.serial - (IF x.eof = "ok" THEN 1 ELSE 2) :
       \E y \in inbox : y.id = m /\ y.job = x.job /\ y.serial = s

Stranded(m) == \E e \in mail : e.msg.id = m /\ e.hop = NoHop

(* From every node the tables lead to d within as many hops as there are   *)
(* nodes, over links that are up.                                          *)
LeadsTo(d) ==
  LET step[k \in 0 .. Cardinality(Nodes)] ==
        IF k = 0 THEN {d}
        ELSE LET near == step[k - 1] IN
             near \union {n \in Nodes : hop[n][d] \in near /\ {n, hop[n][d]} \notin cut}
  IN  step[Cardinality(Nodes)] = Nodes

MeshIsWhole ==
  cut = {} /\ \A d \in {Server} \union {From[m] : m \in Requests} : LeadsTo(d)

(* If from some time on the links are up and the tables lead where they    *)
(* should, then every request is answered in full, unless a message of it  *)
(* met a fault, an expected response was not asked for, its directive is   *)
(* invalid, or it met a node without a route: what forward() has put into  *)
(* the buffer of None stays there whatever routes come later, although     *)
(* docs/intro.rst:14-17 and 104-106 have it stored until there is one.     *)
AnswersArrive ==
  <>[]MeshIsWhole =>
    \A m \in Requests :
      sent[m] = "sent" ~> (Complete(m) \/ Dropped(m) \/ Stranded(m))
=============================================================================
