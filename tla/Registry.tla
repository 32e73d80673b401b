------------------------------ MODULE Registry ------------------------------
(***************************************************************************)
(* What a node keeps about its connections, and what its routes make of    *)
(* it: Receptor.connections, the connection manifest on disk with its lock *)
(* (Manifest), the task route_send_check and the direct edges that         *)
(* recalculate_routes installs.                                            *)
(*                                                                         *)
(* Every await is a place where other tasks run: for the lock, for the     *)
(* write, which truncates the file first, and in recalculate_routes for a  *)
(* read of the manifest without the lock.  Tasks that change the manifest  *)
(* are those of the connections and watch_expire, called Sweep.            *)
(*                                                                         *)
(* Unlocked and WakesSenderWhenAdding are mistakes: mutants of the         *)
(* definitions after them.                                                 *)
(***************************************************************************)
EXTENDS Naturals, SequencesExt

CONSTANTS
  Conns,       \* connections: one for every time a peer is dialled
  Peer,        \* Peer[c]: the node id the other end says it has
  Ephemeral,   \* the peers whose capabilities will say "ephemeral"
  Sweep,       \* the task watch_expire
  MaxReads     \* bound on recalculations under way at a time

Nobody == "nobody"

ASSUME SweepAssumption == Sweep \notin Conns /\ Nobody \notin Conns \union {Sweep}
ASSUME MaxReadsAssumption == MaxReads \in Nat

Peers == {Peer[c] : c \in Conns}
Tasks == Conns \union {Sweep}

VARIABLES
  members,    \* self.connections: members[p] is p's list
  keys,       \* the peers that have an entry there, if only an empty list
  stage,      \* a connection: "out", "adding" in update_connections, "in",
              \*   "raised" when that failed, "removing" in
              \*   remove_connection, "removed"
  keysThen,   \* the keys when the loop of remove_connection began
  how,        \* what a task does to the manifest: "update", "remove" or
              \*   "expire"
  step,       \* how far it is: "idle", "wants" the lock, "has" it and has
              \*   read, "writes"; "dead" when watch_expire has failed
  snapshot,   \* what it has read
  lock,       \* who holds the lock
  waiting,    \* asyncio.Lock: who waits for it, in order
  manifest,   \* the last contents written: [id, last]
  torn,       \* the file is truncated, its write under way
  day,        \* time.time() in the 86400 seconds an entry is kept
  timer,      \* route_sender_task
  reads,      \* recalculations under way, oldest first: the direct edges
              \*   collected, and the ids of the manifest when read
  edges,      \* the edges of this node installed: cost 1, cost 100
  ephemeral,  \* what known_nodes says is ephemeral
  spoiled     \* history: what went wrong that routes may not recover from

listVars == <<members, keys, stage, keysThen>>
fileVars == <<how, step, snapshot, lock, waiting, manifest, torn>>
routeVars == <<timer, reads, edges>>
registryVars == <<listVars, fileVars, day, routeVars, ephemeral, spoiled>>

RegistryInit ==
  /\ members = [p \in Peers |-> {}] /\ keys = {}
  /\ stage = [c \in Conns |-> "out"] /\ keysThen = [c \in Conns |-> {}]
  /\ how = [t \in Tasks |-> "update"] /\ step = [t \in Tasks |-> "idle"]
  /\ snapshot = [t \in Tasks |-> {}] /\ lock = Nobody /\ waiting = <<>>
  /\ manifest = {} /\ torn = FALSE /\ day = 0
  /\ timer = FALSE /\ reads = <<>> /\ edges = [near |-> {}, far |-> {}]
  /\ ephemeral = {} /\ spoiled = {}

Ids(entries) == {e.id : e \in entries}
Connected == {p \in Peers : members[p] # {}}

(* ------------------------------ connections ---------------------------- *)

Changes(t, what) ==
  /\ how' = [how EXCEPT ![t] = what]
  /\ step' = [step EXCEPT ![t] = "wants"]
  /\ waiting' = Append(waiting, t)
  /\ UNCHANGED <<snapshot, lock, manifest, torn>>

(* update_connections() as far as the manifest.                            *)
Register(c) ==
  /\ stage[c] = "out"
  /\ members' = [members EXCEPT ![Peer[c]] = @ \union {c}]
  /\ keys' = keys \union {Peer[c]}
  /\ stage' = [stage EXCEPT ![c] = "adding"]
  /\ Changes(c, "update")
  /\ UNCHANGED <<keysThen, day, routeVars, ephemeral, spoiled>>

(* remove_connection() as far as the manifest: for an ephemeral node by    *)
(* way of remove_ephemeral(), although it may have another connection.     *)
Unregister(c) ==
  /\ stage[c] \in {"in", "raised"}
  /\ members' = [members EXCEPT ![Peer[c]] = @ \ {c}]
  /\ keysThen' = [keysThen EXCEPT ![c] = keys]
  /\ stage' = [stage EXCEPT ![c] = "removing"]
  /\ Changes(c, IF Peer[c] \in ephemeral THEN "remove" ELSE "update")
  /\ UNCHANGED <<keys, day, routeVars, ephemeral, spoiled>>

(* ------------------------------- the manifest -------------------------- *)

(* get(): what cannot be parsed is [].                                     *)
Contents == IF torn THEN {} ELSE manifest

Unlocked == TRUE
IsUnlocked == lock = Nobody

(* The lock goes to whoever waits longest; then the read, in the pool.     *)
Acquire(t) ==
  /\ waiting # <<>> /\ t = Head(waiting) /\ IsUnlocked
  /\ lock' = t /\ waiting' = Tail(waiting)
  /\ snapshot' = [snapshot EXCEPT ![t] = Contents]
  /\ step' = [step EXCEPT ![t] = "has"]
  /\ UNCHANGED <<listVars, how, manifest, torn, day, routeVars, ephemeral, spoiled>>

Without(p, entries) == {e \in entries : e.id # p}

NewContents(t) ==
  CASE how[t] = "update" ->
         Without(Peer[t], snapshot[t]) \union {[id |-> Peer[t], last |-> day]}
    [] how[t] = "remove" -> Without(Peer[t], snapshot[t])
    [] how[t] = "expire" -> {e \in snapshot[t] : e.last >= day}

Wakes == step[Sweep] = "idle"
WatchExpire ==
  /\ Wakes
  /\ Changes(Sweep, "expire")
  /\ UNCHANGED <<listVars, day, routeVars, ephemeral, spoiled>>

(* The file is opened, and thereby truncated.                              *)
WriteBegins(t) ==
  /\ step[t] = "has" /\ (how[t] = "expire" => NewContents(t) # snapshot[t])
  /\ torn' = TRUE
  /\ step' = [step EXCEPT ![t] = "writes"]
  /\ UNCHANGED <<listVars, how, snapshot, lock, waiting, manifest>>
  /\ UNCHANGED <<day, routeVars, ephemeral, spoiled>>

NothingExpired ==
  /\ step[Sweep] = "has" /\ NewContents(Sweep) = snapshot[Sweep]
  /\ lock' = Nobody
  /\ step' = [step EXCEPT ![Sweep] = "idle"]
  /\ UNCHANGED <<listVars, how, snapshot, waiting, manifest, torn>>
  /\ UNCHANGED <<day, routeVars, ephemeral, spoiled>>

(* The loop of remove_connection raises RuntimeError when the dictionary   *)
(* has got a key since it began.                                           *)
KeysSame(c) == keys = keysThen[c]

(* Who calls recalculate_and_send_routes_soon() once the write is done.    *)
WakesSenderWhenAdding(t) == t \in Conns /\ stage[t] = "adding"
WakesSender(t) ==
  t \in Conns /\ (stage[t] = "adding" \/ how[t] = "remove" \/ KeysSame(t))

Proceeds(t, added) ==
  /\ lock' = Nobody
  /\ stage' = [c \in Conns |->
       IF c # t THEN stage[c] ELSE IF stage[c] = "adding" THEN added ELSE "removed"]
  /\ UNCHANGED <<members, keys, keysThen, how, snapshot, waiting, day, reads, edges>>

(* The write has ended; the task goes on to its next await.                *)
WriteEnds(t) ==
  /\ step[t] = "writes"
  /\ manifest' = NewContents(t) /\ torn' = FALSE
  /\ step' = [step EXCEPT ![t] = "idle"]
  /\ Proceeds(t, "in")
  /\ timer' = (timer \/ WakesSender(t))
  /\ ephemeral' = IF how[t] = "remove" THEN ephemeral \ {Peer[t]} ELSE ephemeral
  /\ spoiled' = IF WakesSender(t) THEN spoiled \ {"torn"} ELSE spoiled

(* The write fails and leaves an empty file; or expire_all() does, in a    *)
(* buffer, before watch_expire writes.                                     *)
WriteFails(t) ==
  /\ step[t] = "writes" \/ (t = Sweep /\ step[t] = "has")
  /\ manifest' = IF step[t] = "writes" THEN {} ELSE manifest
  /\ torn' = FALSE
  /\ step' = [step EXCEPT ![t] = IF t = Sweep THEN "dead" ELSE "idle"]
  /\ Proceeds(t, "raised")
  /\ spoiled' = spoiled \union {"failed"}
  /\ UNCHANGED <<timer, ephemeral>>

NextDay ==
  /\ day' = day + 1
  /\ UNCHANGED <<listVars, fileVars, routeVars, ephemeral, spoiled>>

(* -------------------------------- routes ------------------------------- *)

(* recalculate_routes() as far as the manifest.                            *)
Collected == Append(reads, [near |-> Connected, far |-> {}, read |-> FALSE])

(* route_send_check, when the time has come.                               *)
Check ==
  /\ timer /\ Len(reads) < MaxReads
  /\ timer' = FALSE
  /\ reads' = Collected
  /\ UNCHANGED <<listVars, fileVars, day, edges, ephemeral, spoiled>>

(* handle_route_advertisement, in the message_handler of any connection,   *)
(* which runs until remove_connection has ended: the news tells the        *)
(* capabilities of p, the sender's or another's, or makes p an orphan, to  *)
(* be forgotten with its capabilities; this node recalculates at once.     *)
Hear(p) ==
  /\ \E c \in Conns : stage[c] \in {"in", "removing"}
  /\ Len(reads) < MaxReads
  /\ reads' = Collected
  /\ ephemeral' \in {ephemeral \union ({p} \cap Ephemeral), ephemeral \ {p}}
  /\ UNCHANGED <<listVars, fileVars, day, timer, edges, spoiled>>

(* get() without the lock.                                                 *)
ReadManifest(i) ==
  /\ i \in DOMAIN reads /\ ~reads[i].read
  /\ reads' = [reads EXCEPT ![i] = [near |-> @.near, far |-> Ids(Contents), read |-> TRUE]]
  /\ spoiled' = IF torn THEN spoiled \union {"torn"} ELSE spoiled
  /\ UNCHANGED <<listVars, fileVars, day, timer, edges, ephemeral>>

(* The edges replace what was installed, even by a later recalculation.    *)
Install(i) ==
  /\ i \in DOMAIN reads /\ reads[i].read
  /\ edges' = [near |-> reads[i].near, far |-> reads[i].far \ reads[i].near]
  /\ reads' = RemoveAt(reads, i)
  /\ spoiled' = IF i > 1 THEN spoiled \union {"overtaken"} ELSE spoiled
  /\ UNCHANGED <<listVars, fileVars, day, timer, ephemeral>>

Routing == Check \/ \E i \in DOMAIN reads : ReadManifest(i) \/ Install(i)
Filing == \E t \in Tasks : Acquire(t) \/ WriteBegins(t) \/ WriteEnds(t)

(* The registry alone: connections come and go as they like.               *)
RegistryNext ==
  \/ \E c \in Conns : Register(c) \/ Unregister(c)
  \/ Filing \/ NothingExpired \/ WatchExpire
  \/ \E t \in Tasks : WriteFails(t)
  \/ Routing \/ NextDay \/ \E p \in Peers : Hear(p)

RegistrySpec == RegistryInit /\ [][RegistryNext]_registryVars

-----------------------------------------------------------------------------

Entries == [id : Peers, last : Nat]

(* The registry is well typed; whoever writes the manifest, or has read it *)
(* to write it, is the only one: the holder of the lock.                   *)
RegistryTypeOK ==
  /\ members \in [Peers -> SUBSET Conns] /\ keys \subseteq Peers
  /\ stage \in [Conns -> {"out", "adding", "in", "raised", "removing", "removed"}]
  /\ keysThen \in [Conns -> SUBSET Peers]
  /\ how \in [Tasks -> {"update", "remove", "expire"}]
  /\ step \in [Tasks -> {"idle", "wants", "has", "writes", "dead"}]
  /\ \A t \in Tasks : step[t] \in {"has", "writes"} => lock = t
  /\ snapshot \in [Tasks -> SUBSET Entries] /\ waiting \in Seq(Tasks)
  /\ manifest \subseteq Entries /\ torn \in BOOLEAN /\ day \in Nat
  /\ timer \in BOOLEAN
  /\ reads \in Seq([near : SUBSET Peers, far : SUBSET Peers, read : BOOLEAN])
  /\ edges \in [near : SUBSET Peers, far : SUBSET Peers]
  /\ ephemeral \subseteq Ephemeral
  /\ spoiled \subseteq {"failed", "torn", "overtaken"}

(* A peer that is in the manifest stays there, whatever tasks change it at *)
(* the same time, until a day after it last came or went, which is when    *)
(* "last" is set, however much is heard of it meanwhile; or if it is an    *)
(* ephemeral node; unless a write fails, which empties the file.           *)
ManifestRemembers ==
  [][\A e \in manifest : e.id \notin Ids(manifest') =>
       \/ e.last < day \/ e.id \in Ephemeral \/ "failed" \in spoiled']_registryVars

(* When nothing is under way, the edges of cost 1 are those to the peers   *)
(* with a connection, and every other peer in the manifest has an edge of  *)
(* cost 100.  Neither holds after a write has failed or when a             *)
(* recalculation has outlasted a later one.  And the second fails when the *)
(* manifest was read during a write, until somebody calls ..._soon(): the  *)
(* writer does, but for watch_expire, and for a remove_connection whose    *)
(* loop ends with RuntimeError.                                            *)
Quiet ==
  ~timer /\ reads = <<>> /\ \A c \in Conns : step[c] = "idle"

RoutesFollowConnections ==
  /\ Quiet /\ spoiled \subseteq {"torn"} => edges.near = Connected
  /\ Quiet /\ spoiled = {} => Ids(Contents) \subseteq edges.near \union edges.far
=============================================================================
