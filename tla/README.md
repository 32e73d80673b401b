# Receptor in TLA+

A verification project kept beside the sources of `receptor`: modules that
model its components, TLC configurations that check them on small instances,
and theorems that TLAPS proves for every instance. Paths below are relative to
the repository; lines are those of the modelled commit.

## 1. The system

A *node* keeps connections to its peers, learns the topology of the mesh from
advertisements, and moves messages hop by hop to the node that handles them.
Everything runs in one asyncio event loop, except file operations and reads of
payloads, which run in the one thread pool of `fileio.py`, and plugin code,
which runs in the thread pool of `work.py`.

```
 controller / entry points            work manager (plugin threads)
        |   send, recv                     ^  |  responses
        v                                  |  v
   MeshRouter.send ---- handle_message (Receptor) <---- message_handler
        | next_hop, forward                                  ^
        v                                                    | FramedBuffer.get
   DurableBuffer of the next hop                             |
        | get                                          FramedBuffer.put
        v                                                    ^
   watch_queue -> drain_buf -> BridgeQueue -> transport ===> receive (peer)
```

| Component | State | Operations | What is hard |
|---|---|---|---|
| Durable buffer, `buffers/file.py` | queue, payload files, manifest file, dirty/clean events, lock | `put`, `put_ident`, `get`, `expire`, `expire_all`, `manifest_writer`, `start_manifest` | many tasks on one queue; file writes that suspend or fail; the sweep; restarts |
| Link, `connection/base.py`, `ws.py`, `sock.py` | one `watch_queue` per connection, one `drain_buf` per message in flight, open/closed transport | `watch_queue`, `drain_buf`, `send`, `close` | concurrent drains, a connection closing between two steps, cancelled waits, failed sends |
| Thread pool and bridge queue, `fileio.py`, `bridgequeue.py` | pool threads, a queue of one chunk | `defer`, `read_from`, `__anext__` | a thread blocked on a consumer that is gone; the pool at its limit |
| Framing, `messages/framed.py` | registers of an incremental parser | `FramedMessage.__iter__`, `put`, `handle_frame`, `consume`, `finish` | pieces that end anywhere; interleaved messages |
| Router, `router.py` | nodes, edges, neighbours, routing table, response registry | `add_or_update_edges`, `remove_node`, `update_routing_table`, `next_hop`, `forward`, `send` | unreachable nodes, removed edges, stale tables |
| Route advertisement, `receptor.py:217-398` | `known_nodes`, `route_adv_seen`, the pending sender task, sequence numbers | `recalculate_routes`, `send_routes`, `route_send_check`, `recalculate_and_send_routes_soon`, `handle_route_advertisement` | flooding with duplicates and reordering; restarts; awaits inside loops; a pending task that absorbs requests |
| Connection registry and manifest, `receptor.py:22-73, 138-195` | `connections`, `connection_manifest` file, lock | `update_connections`, `remove_connection`, `remove_ephemeral`, `Manifest.*`, `watch_expire`, the direct edges of `recalculate_routes` | dictionaries changed during iteration, reads without the lock, a write that truncates, recalculations that overtake each other |
| Connection lifecycle, `connection/*` | three tasks per connection, the handshake's progress | `client`, `server`, `hello`, `_wait_handshake`, `receive`, `unregister`, `connect` | timeouts against late answers; connections that fail in silence, so that one end leaves and an idle one stays; reconnection |
| Dispatch and forwarding, `receptor.py:121-136, 400-467` | the parser's output queue, `response_registry` | `message_handler`, `handle_message`, `handle_directive`, `handle_response`, `directive.Control` | failures inside failure handlers, no route |
| Work manager, `work.py` | active work, response queue of each action | `handle`, `add_work`, `remove_work` | a worker thread racing the coroutine that forwards its responses; duplicated requests; a list changed while it is walked |
| Controller and entry points | the response queue | `send`, `ping`, `add_peer`, `enable_server`, keepalive pings | what they start is modelled where it happens; see section 8 |
| Diagnostics, configuration, encoding, counters | - | - | outside the core; see section 8 |

What makes each correct: *buffer* - a message has one owner, its payload is on
disk while anybody may want it, it leaves only for a known reason, order is
kept, what is on disk is found again; *link* - the chunks of a message go out
once, in order and complete, a file is removed only when the message was sent,
every queued message is drained; *framing* - what comes out is what went in,
however it was cut; *router* - next hops follow shortest paths and never loop;
*advertisement* - nodes converge on the topology, and old news never replaces
new; *registry* - a node is connected exactly while a connection to it is up;
*lifecycle* - no connection is half registered for ever; *dispatch* - a
request is answered or its failure is; *work* - responses are numbered without
gaps and the last one says so.

## 2. Modules

| Module | What it is |
|---|---|
| `MessageCustody` | abstract specification: who owns a message |
| `DurableBuffer` | `buffers/file.py` in full; implements `MessageCustody` |
| `DurableBufferProofs` | theorems about `DurableBuffer` |
| `Link` | `watch_queue`, `drain_buf`, `BridgeQueue`, the pool and the transports' `send`, composed with the buffer through `INSTANCE DurableBuffer` |
| `LinkProofs` | theorems about `Link` |
| `Router` | `router.py:57-181`: the edges, the search for shortest paths and the table |
| `RouterProofs` | theorems about `Router` |
| `RouteAdvertisement` | `receptor.py:217-398`: how several nodes learn the topology from each other |
| `RouteAdvertisementProofs` | theorems about `RouteAdvertisement` |
| `FramedBuffer` | `messages/framed.py`: what a peer writes and what the parser makes of it |
| `FramedBufferProofs` | theorems about `FramedBuffer` |
| `Work` | `work.py`: the calls of plugins one node has under way |
| `Requests` | a request and its responses through the mesh: `receptor.py:400-467`, `router.py:170-234`, `directive.py`, composed with `Work` by EXTENDS |
| `RequestsProofs` | theorems about both; `Requests` implements `Work` |
| `Registry` | `receptor.py:22-73, 138-190, 217-244, 289-304`: connections, connection manifest, direct edges, each await a step |
| `Connections` | `connection/`: the two ends of every connection from dialling to redialling, composed with `Registry` by EXTENDS |
| `ConnectionsProofs` | theorems about both; `Connections` implements `Registry` |
| `WellOrdering` | induction over natural numbers, for the proofs about recursive functions |
| `MC...` | constants for TLC |

`Work` and `Registry` are components that another module drives. Each has a
next-state relation of its own (`WorkNext`, `RegistryNext`) in which the
environment does what it likes, so that it can be proved about alone; the
composing module conjoins its actions with its own (`StartWork` is `Submit` and
the delivery of the message, `LeaveHere` is `Unregister` and the Worker's next
place), and a theorem says that every composed step is one of the component or
leaves it alone. What is proved of the component then holds of the whole.

An action is one stretch of code between two suspension points of the event
loop, or the completion of a call in the thread pool (in `RouteAdvertisement`,
where several nodes are at work, a whole handler). Some definitions are
written twice: `LoadedItems` and just above it `LoadedManifest`, `Kept` and
`KeptReversed`, and so on. The one above is a plausible mistake that the code
does not make, kept to show that a property notices it (section 5).

### DurableBuffer

| Variable | Code |
|---|---|
| `q`, `ready`, `dirty` | `self.q`, `self.ready`, `self._manifest_dirty` |
| `files` | complete files under `messages/` |
| `manifest` | contents of `manifest-<key>`; an unreadable file is `<<>>`, which nobody can tell from another one since nothing is loaded |
| `writer`, `snapshot` | progress of `manifest_writer`, what `json.dumps` saw; `writer = "writing"` also means it holds `_manifest_lock` |
| `fresh`, `writing`, `held` | where a message is when it is not on the queue: not put yet, in `put()`'s file write, with a connection |
| `deadline`, `now` | `expire_time`, `utcnow()`, in units of the lifetime's scale |
| `sweeper` | `Manifest.watch_expire`, which an exception in `expire_all` ends |
| `faults` | counts failed file operations and restarts, only to bound them |

`StartManifest` is `start_manifest`; `PutBegin`, `PutEnd`, `PutFail` are `put`
before the file write, after it, and when it raises; `Get` is `get`;
`PutIdent` is `put_ident` as `drain_buf` calls it; `Release` is `drain_buf`'s
removal of the file; `ExpireAll` is `expire_all` in one stretch (its awaits do
not suspend: the old queue is not empty, the new one has no limit, and
`expire` raises before it defers anything); `WriterBegin`, `WriterEnd`,
`WriterFail` are a round of `manifest_writer`; `Restart` is the loss of the
process followed by `__init__`.

A getter that waits on the queue object the sweep has replaced sleeps until
its five seconds are over and then finds the new one. `Get` may be late by any
time, so this delay is within the model and only the delay is not visible.

### Link

`link[c]` is the transport of a connection: up, broken (a send fails, nobody
has noticed), or closed. `watcher[c]` is its `watch_queue`; `"delivered"` is
the moment when the `get()` task inside `wait_for` has finished and
`watch_queue` has not run yet. `pc[m]` is the `drain_buf` of a message with
its reader: `"queued"` waits for a pool thread, `"reading"` occupies one,
`"read"` has put the sentinel. `read[m] - taken[m]` is what the bridge queue
holds. `wire[c]` is the history of chunks the transport accepted. A message is
a number of 4096-byte chunks.

The two transports differ where it matters: a web socket's `send_bytes` raises
on a lost connection at the first chunk, a raw socket's `write` never does and
`drain()` raises after the last one. `Cancel` is the cancellation of the
connection's task, with `wait_for` discarding an item that was already
delivered.

### FramedBuffer

A byte is a record of the message, the part and the place it comes from, so
that losing, repeating or swapping one shows. The sender's stream is either
one message after another or, as `Link` shows it can be, with one message
between two chunks of another. `Put(n)` is a call of `put` with the next `n`
bytes; `HandleShort`, `HandleFrame` and `Consume` are `handle_frame` without
and with a whole frame, and `consume` with `finish`.

### Router

| Variable | Code |
|---|---|
| `edges` | `self._edges`; `_nodes` and `_neighbors`, always rebuilt with it, are the operators `Others` and `Neighbors` |
| `table` | `self.routing_table` |
| `cost`, `prev`, `unsettled` | locals of `update_routing_table`; the items of its priority queue |
| `hops`, `walk` | `new_routing_table`; the destination and `p` of its second loop |
| `raised` | whether the last call ended with `KeyError` from `prev[None]` |

`Update` is `add_or_update_edges(edges, replace_all=True)`, the only form
`recalculate_routes` uses; `Settle` is a round of the first loop, `StartWalk`,
`WalkBack` and `FoundHop` are the second one. Nothing here suspends: the steps
are not interleaved with others, they are separate so that invariants can be
stated about the loops.

### RouteAdvertisement

| Variable | Code |
|---|---|
| `conns[n]`, `met[n]` | the keys of `self.connections` whose list is not empty; all its keys |
| `manifest[n]` | the ids in the connection manifest, which survives a restart |
| `epoch[n]`, `seq[n]` | `seq_epoch` and `sequence` of `known_nodes[self.node_id]` |
| `known[n]` | `known_nodes` without the node itself: epoch, sequence and connections of each |
| `seen[n]` | `route_adv_seen`; origin, epoch and sequence stand for the `uuid4` (`OneStatementPerId` says that they may) |
| `edges[n]` | `self.router.get_edges()` as a function from pairs to costs |
| `timer[n]` | `route_sender_task`, and the `force_send` it was made with |
| `deaf[n]` | connections whose `message_handler` an exception has ended |
| `net[n][m]` | advertisements from `n` to `m`: in `n`'s durable buffer, on the transport, in `m`'s parser |
| `scenario`, `ups`, `faults` | the mesh that is examined and its bounds |

`Register` and `Unregister` are `update_connections` and `remove_connection`
of one connection, `Check` is `route_send_check` with `send_routes`, `Handle`
is `handle_route_advertisement`: `Ignore`, `Reject` and `Accept` are its ways
to end. A handler, or `route_send_check`, is one step here, although it waits
for the manifest and for each `put`: with these waits as steps of their own
three nodes have millions of states. What another task does meanwhile is
therefore not examined (section 8), and one connection per pair is made at a
time. The code compares lists of edges, whose order is that of several
dictionaries; the model compares the edges, lets `recalculate_routes` choose
between two ends that claim different costs, and lets `SendRoutes` happen where
two lists may differ by order only. The router's part is `Raises`, which
`RaisesWhenCutOff` establishes in `Router`. `Overtake` is what `LinkFrames.cfg`
shows, on whole messages; `Restart` forgets the buffers, as
`DurableBufferRestart.cfg` shows.

### Work and Requests

| Variable | Code |
|---|---|
| `calls`, `request[j]` | the runs of `WorkManager.handle`, numbered; the message of each |
| `phase[j]`, `serial[j]` | where the coroutine of `handle` is; its local `serial` |
| `queue[j]` | `response_queue`; `"junk"` is a response `from_data` cannot write |
| `thread[j]`, `put[j]` | the action in the thread pool; `"closed"` when the future's callback has run; how much it has put |
| `active` | `self.active_work` |
| `kind[m]` | what the directive and the payload of a request lead to |
| `sent`, `registry`, `inbox` | at the nodes that ask: the call of `send` or `ping`, `response_registry`, `response_queue` |
| `hop[n][d]`, `cut` | `routing_table` of `n`; the links that are down |
| `mail` | messages in the buffer of a next hop, on a transport, in a parser, or handed by a node to itself |
| `dropped` | history: ids of messages that are gone, and why |
| `restarted` | history: the nodes that have restarted |

`Submit` and `Reject` are `handle` up to its first suspension, with an action
or without; `Respond`, `RespondRaises` and `Finish` are a round of its
`async for`, a round that raises, and its end. `Removed` walks the list as
`remove_work` does, which removes from the list it iterates over: of two
adjacent entries of one message it takes one, of two that are not it takes
both. `Deliver` is `handle_message` of the node a message has reached. `mail`
is a set: that messages overtake each other, may be sent twice and may be lost
is what `Link` and `DurableBuffer` show, so `Taken` may leave the message
where it was and `Lose` may take it, each as a fault. `Reroute` replaces a
table as `update_routing_table` does. `Restart` of any node empties its
buffers (`Stored`: `buffers/file.py:98-99`, as in the run `buffer_restart`), its
table and its registry, at the server also the work manager; what others were
sending to it (`OnItsWay`) may be lost in the transport or the parser, or still
be in their buffers. All of this is recorded in `dropped` as "restart".

What the code does that a reader may not expect, and the model says: a request
or response that meets a node without a route is put into the buffer of
`None`, which no connection drains, and stays there whatever routes come later
(`Stranded`), where `docs/intro.rst:14-17, 104-106` have it stored until there is
a route; a response for which the server itself has no route is logged and
gone, `UnrouteableError` being a `ReceptorMessageError`; a directive without a
colon raises in its own error handler (`msg.msg_ig`, `receptor.py:419`) and is
never answered; when sending a response raises, the eof with code 1 goes out
and the work is taken from the list while the plugin's thread still runs, and
the eof's serial is two above the last one sent; a plugin that raises ends
with code 0, since nobody asks the future; and the eof may overtake responses.

### Registry and Connections

| Variable | Code |
|---|---|
| `members[p]`, `keys` | the list `self.connections[p]`; the keys of the dictionary |
| `stage[c]`, `keysThen[c]` | how far `update_connections` or `remove_connection` of `c` is; the keys when its loop began |
| `how[t]`, `step[t]`, `snapshot[t]` | a task's call of the manifest: `update`, `remove` or `watch_expire`; waiting for the lock, having read, writing; what it read |
| `lock`, `waiting` | the `asyncio.Lock`: its holder and its waiters, who are served in order |
| `manifest`, `torn` | the contents last written; the file is opened with mode `w` and not written yet, so that `get` finds nothing to parse and returns `[]` |
| `timer`, `reads`, `edges` | `route_sender_task`; recalculations between their collection of direct edges and their installation; the direct edges installed |
| `ephemeral` | the peers whose capabilities in `known_nodes` say so |
| `spoiled` | history: a write has failed; a manifest was read in the middle of a write; an older recalculation was installed after a newer one |
| `pc[c][s]` | the Worker at side `s` of connection `c` |
| `hi`, `open`, `deaf`, `broken` | who has said HI; whose transport is not closed; whose `receive()` has ended without closing; the connections that are lost |

`Register` and `Unregister` are `update_connections` and `remove_connection`
up to the lock of the manifest; `Acquire`, `WriteBegins` and `WriteEnds` (or
`WriteFails`) are the rest. `WakesSender` is where the callers come to
`recalculate_and_send_routes_soon`: after an `update`, unless the loop of
`remove_connection` finds that the dictionary has got a key since it began and
ends with `RuntimeError`. `Check` and `Hear` start a recalculation; `Hear` is an
advertisement from any peer, which may tell of any other that it is ephemeral,
or make this node forget it. `ReadManifest` and `Install` are what follows its two awaits. In `Connections`
side "here" has this registry, side "there" is the other node. A failed
attempt to dial, a HI that comes too late, a failed write, a parser that
raises and a lost connection are faults.

What the model says of the code: `receive()` that ends with
`ConnectionResetError`, or with an exception of the parser, closes nothing, and
its Worker stays registered until a message fails to be sent; nor need the loss
of a connection end `receive()` at all, since its read has no timeout
(`base.py:60`, `sock.py:17`). In both cases the end that sends nothing stays
registered, for ever if `node_keepalive_interval` (default -1,
`config.py:219-223`) and `ws_heartbeat` (default None, `config.py:243-250`) are
not set, and if it is the client it does not dial again; a raw socket stays open after a failed handshake; the redial of `sock.connect`
passes on neither `ssl` nor `reconnect` (`sock.py:68`), so that after a first
connection over TLS no other comes about; an ephemeral node with two
connections leaves the manifest with the first of them; edges of cost 100 are
missing when the manifest was read in the middle of a write by `watch_expire`,
or by a `remove_connection` that breaks off, until something else calls for a
recalculation. That edges are right when `remove_connection` breaks off
otherwise rests on the order of the lock: the newcomer whose key broke the loop
waits behind it, and wakes the sender.

## 3. Runs

| Run | Shows |
|---|---|
| `buffer` | Ownership, files, order, reasons for leaving, the manifest writer's progress and the refinement of `MessageCustody`, with two connections, a clock, failed writes and restarts |
| `buffer_sweep` | *Fails as the code does*: the sweep loses messages that have not expired |
| `buffer_restart` | *Fails as the code does*: nothing of the manifest is loaded after a restart |
| `link` | Chunks in order and once, double sends only around a failure, nothing lost while connections stay open, threads lost only to failed web socket sends; every queued message leaves the disk; with a pool of one thread and of two |
| `link_frames` | *Fails as the code does*: two drains of one connection interleave their chunks, which the parser's documentation excludes |
| `link_closed` | *Fails as the code does*: a connection that closes between `get()` and `drain_buf` has the payload file removed unsent |
| `router` | For every graph and every change of one edge: the search is exact and ends, the table follows shortest paths, and an update raises exactly when a known node is cut off, leaving the old table |
| `advert` | Advertising settles once connections stop changing; old news never replaces new and an id stands for one statement, whatever fails; where nothing fails, no handler ends and everybody ends up with the edges of the mesh |
| `advert_cycle` | *Fails as the code does*: in a cycle of three nodes, with no failure at all, an advertisement that comes late raises `TypeError` and ends the handler of its connection |
| `requests` | No message of a request or response disappears without a reason that applies; a successful eof comes after the action and counts its responses; what a ping reports as active is being served; with routes that lead, answers arrive in full unless a fault, or a node without a route, was met |
| `connections` | A connection is in the list exactly while its Worker serves it; the direct edges follow list and manifest; the manifest forgets no peer without a reason; when one end has closed the other lets go, and a client with more attempts than faults is served: with traffic always (over TLS until the first fault), on idle connections unless an end cannot notice |
| `framing` | Exactly what arrived is delivered, for every cut of every sequence of up to three messages |

The five runs that fail check one statement of the documentation or of a
comment each; `PROJECT.json` quotes it. The passing runs state what the code
does keep, and where a finding limits it the property says so:
`LeavesForAReason` names the aborted sweep, `OpenConnectionsLoseNothing` the
closed connection, `DeliversWhatArrived` the contiguous stream, `AnswersArrive`
the buffer of `None` and invalid directives, `ActiveWorkIsServed` the second
entry `remove_work` takes, `RoutesFollowConnections` the reads in the middle of
a write, `PeerLetsGo` and `Reconnects` the end of a connection that cannot notice
(`Unnoticed`) and the redial without TLS.
`HandlersSurvive` and `EveryoneKnowsTheMesh` hold while nothing fails, in a mesh
without a cycle and of at most three nodes. Outside of that they do not: in a
cycle by `advert_cycle`; after a connection is lost and made again because a
handler's own `recalculate_routes` absorbs the change that `route_send_check`
was to advertise (`receptor.py:384`), or because a restarted node's sequence
numbers start again below those its peers remember (`receptor.py:348-350`); in
a line of four because a relayed advertisement may come before the relay's own
and leaves its origin cut off, where the router raises `KeyError`.

No run checks for deadlock: a buffer whose messages are gone, a link whose
connections are closed and a parser at the end of its stream have nothing left
to do.

## 4. Bounds

* `buffer`: two messages and two connections are enough for every order of
  put, take, return and sweep of a pair, and ownership, order and the reasons
  for leaving speak of pairs. `TTL = 1`, `MaxNow = 3` let one message expire
  before, with and after the other. `MaxFaults = 2` allows two restarts, or a
  failed write and a restart after it.
* `link`: one connection of each kind, one message of several chunks and one
  of one; two pool threads let both readers run at once, one thread is where
  waiting for each other is most likely (`PoolSizes`).
* `framing`: frames of 3 bytes, headers of 1 or 2, payloads of 0, 1 or 5,
  pieces of 1 to 5 bytes: a piece may end in each part and cover a frame's end
  and the next one's beginning; a chunk of 8 bytes cuts the long message inside
  its payload.
* `router`: this node and three others: enough for a path of three edges, a
  detour cheaper than the direct edge, ties, and a part that is cut off. Two
  costs, 1 and 3, stand for 1 (connected) and 100 (known), small enough that
  three cheap edges equal a dear one. `Infinity` is above every path.
* `advert`: two meshes. In the line of three nodes nothing fails: every
  advertisement crosses at most one relay, and the two connections are made in
  any order and at any time, also while the first advertisements are still on
  the way. In the pair the connection is made twice, with two faults: the loss
  that lets it be made again and a restart, an overtaking, an expired id or
  another loss. `sequence` is so large that no node reaches it. The line with
  one fault has more than two million states, the line of four more than can
  be examined. `advert_cycle` is the smallest mesh with two paths.

* `requests`: on a line of three nodes, one request crosses a relay both ways
  and one is from the server to itself, so that every branch of
  `handle_message` is taken. One pool thread makes one action wait for
  another; two responses show their order; three jobs leave room for a
  duplicated request. One table may be empty at first and is there later, and
  `MaxFaults = 1` allows one loss, duplication, cut link or restart of any node,
  at any time.
* `connections`: seven connections, of which a scenario uses one or two: two
  in succession over each transport with one fault anywhere, idle or with
  traffic (raw sockets and web sockets); two from two
  peers, so that a key comes while the other's `remove_connection` runs; and a
  sweep after a day, by itself and while two peers come. `MaxReads = 2` lets one
  recalculation overtake another.

## 5. Mistakes the properties notice

For every property of a passing run, `PROJECT.json` names a mistake in one
definition with which TLC finds it violated under the same bounds: the manifest
loaded although payload files may be gone, `put_ident` by a connection that
keeps the item, a sweep that keeps one item too few or reverses them, a failed
manifest write that clears the dirty flag, a bridge queue of two, a put back
without closing, a broken connection taken for a closed one, a sentinel that is
lost, a thread blocked at the sentinel, a parser that drops its leftover, takes too much, or
keeps a header, a search that pops any node, or updates only unseen
nodes, a walk that passes this node or stays where it is, a hop that is the
destination, an exception that goes unnoticed, a sequence number that is not
stored, a `force_send` that is forgotten, a sender task that is not done with,
stale advertisements that are accepted, or taken for stale when the epoch is
the same, a node that keeps a report of itself, more actions than threads, a
relay that forwards only where it knows a route, an eof sent when the action is
over although responses wait, work that stays listed, a queue without a
sentinel, a manifest changed without its lock, a handshake that times out in
the middle of registering, a removal that wakes nobody, a `receive()` that does
not close at the end of the stream, and a redial in plain whatever the
transport was.

## 6. Fairness

The event loop runs every task that can run, and the pool runs every call when
a thread is free. So `StartManifest`, `WriterBegin` and the end of a write are
weakly fair in `DurableBuffer`; in `Link`, the end of each put, each reader,
each drain and each `watch_queue`. All are tasks of their own, and each is
enabled until it runs or another task has made it pointless. Nothing else is
fair: nobody must put, connect, break, close, cancel, expire or restart.
`EventuallyDrained` assumes that some connection stays up with its
`watch_queue` running and that not all pool threads are lost; the code gives
neither for free, so they are in the property and not in the fairness.
`Router` lets a search that has begun go on: it is one call without a
suspension point. Nobody must call it. In `RouteAdvertisement` a timer that is
set runs out, what has arrived is handled, and both ends notice a connection
that is made or lost; nobody must connect, and nothing must fail.

In `Requests` a message on a link that is up is carried and handled, and a
call of a plugin goes on, each as one weakly fair disjunction: a job and the
way of a message have finitely many steps (`MaxResponses`, and tables that lead
somewhere), so fairness to each of them follows. Plugins are expected to end
(docs/plugins.rst); nobody must put responses, restart, lose or mend.
In `Connections` what the two nodes do of themselves is fair: dialling (after
five seconds), the handshake and its timeout, the reading of an end of stream,
unregistering, the tasks of the manifest and the recalculations. The end of a
stream is read for certain only on a connection that holds and whose other end
has closed it; that a connection has failed may be read, or never. Sending is
fair in the scenarios with `traffic` only (keepalives, or requests that keep
coming): there whoever serves a connection that has failed, or that the other
end has closed, sends on it some time and fails (`Sends`). Nothing has to be sent
on an idle connection. Not fair are faults, sweeps and advertisements.
`Reconnects` counts faults against attempts: the attempts of a
scenario are finite, those of the code are not.

## 7. Proofs

`DurableBufferProofs` proves, for any sets of messages and connections, any
lifetime and any number of faults, from the assumptions named in
`DurableBuffer` (three natural numbers, and that no connection is called
"producer", "buffer" or "gone"):

| Theorem | States |
|---|---|
| `TypeCorrect` | `Spec => []TypeOK` |
| `OwnersAreUnique` | `Spec => []OneOwner` |
| `StoredFilesExist` | `Spec => []StoredFileExists` |
| `LeavesOnlyForAReason` | `Spec => LeavesForAReason` |
| `OrderIsKept` | `Spec => OrderKept` |
| `ImplementsCustody` | `Spec => CustodySpec` |

The inductive invariant is `Inv == TypeOK /\ OneOwner /\ StoredFileExists`.
None of its parts is inductive alone: that a released file is not one somebody
else still wants needs the uniqueness of owners, which in turn needs that the
queue holds no message twice, also across the rebuilding by the sweep. The
lemmas before it say what `Append`, `Tail` and a kept prefix do to the elements
and the absence of duplicates. For the refinement, `OneMoves` and `SomeGo`
reduce every action to one change of ownership, so that its step is an
`Accept`, `Hand`, `Return`, `Discard` or a stutter.

`RouterProofs` proves, for any finite set of nodes, any graph, any positive
costs, and any choice among ties:

| Theorem | States |
|---|---|
| `TypeCorrect` | `Spec => []TypeOK` |
| `SearchFindsShortestPaths` | `Spec => []SearchIsExact` |
| `SettledOnce` | `Spec => SettledIsFinal` |
| `HopsAreNeighbours` | every entry of an installed table sends to a neighbour |
| `TableHasShortestPaths` | `Spec => []TableIsShortest` |
| `RaisesExactlyWhenCutOff` | `Spec => []RaisesWhenCutOff` |

The invariant is Dijkstra's: nothing settled costs more than what is not
(`SettledFirst`), all edges of settled nodes are relaxed (`SettledRelaxed`), and
every cost is infinite or that of an edge from a settled predecessor
(`Attained`). `ImprovedAreUnsettled` is where positive costs are used: the
cheapest unsettled node can improve no settled one. The last two
compare the table with a reference definition, `Distances`, the recursive
function that allows one edge more in every step (`Within`). By induction over
the number of edges no path is shorter than what the search found
(`NoPathIsShorter`), and going back along `prev` from a node reaches this one
in as many steps as there are nodes between (`BetweenGrows`), which is where
the set of nodes must be finite; a walk that reaches it has the length found
(`WalkIsDistance`).

`RouteAdvertisementProofs` proves, for any nodes and any scenarios (which only
have to be what `ScenariosAssumption` says):

| Theorem | States |
|---|---|
| `TypeCorrect` | `Spec => []TypeOK` |
| `NewsGoesForward` | `Spec => NewsNeverGoesBack` |
| `OneStatement` | `Spec => []OneStatementPerId` |
| `AdvertisementsAreInTime` | `Spec => []OnceAndInTime`, for meshes without a cycle, of any size |
| `HandlersStay` | `Spec => [](InSmallForest => HandlersSurvive)` |
| `MeshIsKnown` | `Spec => [](InSmallForest => EveryoneKnowsTheMesh)` |

The first needs `TypeInv`, which adds the shapes of tables and buffers. The
second rests on the comparison in the code being stricter than the
lexicographic one: what is not stale has a higher sequence and no lower epoch.
For the third, `Past` says that nothing is said, anywhere, under an epoch and
sequence that its origin has not used yet; a new advertisement is therefore
different from all others, and the lemmas `...SayNothing` show that every other
step says nothing that was not said before.

`HandlersSurvive` is about two ways to raise in a handler: an advertisement that
comes late, and edges that leave the node cut off. The first is excluded in
every mesh without a cycle while nothing fails. `IsForest` says what that is:
there is a function `toward` that names for each node the connection on which
another lies, and of the two ends of a connection one always lies toward the
other. Then (`OutwardInOrder`, `SeenOutward`) what is under way from m to n
comes from m's side, in the order of its sequence, is newer than all n has seen
and not newer than what m has; none of these clauses is inductive without the
others. `OnceAndInTime` follows. The second is excluded only with at most three
nodes (`FewNodes`): who takes up an advertisement has the connection it came by,
and every other edge then ends there or at itself, because no edge joins a node
to itself (`StatementsFit`). The hypotheses are those of the meshes of `advert`;
the invariant was checked with TLC on the line of three, and on the line of
four as far as that could be examined, before it was proved.

`EveryoneKnowsTheMesh` says that when all is quiet everybody's edges are the
connections in its reach, so its proof must say of every moment before why
what a node lacks is still to come. In a path a-b-c, c learns of the connection
a-b only through b, and `Learns` lists how that may stand: c has been told, or
is about to be (a message waits for it that mentions the connection, or one of
a's waits for b, which will relay it), or a timer will send it (`Will`,
`Missing`), or what waits for a is the first it hears of c, which sets a's timer
with force (`Stirs`). Nothing of this is left when all is quiet, except that c
has been told (`QuietIsTold`). `Learns` is not inductive alone: `MiddleFirst`
(nobody hears of c before the middle does), `PlainIsFirst`, `EndTells` and
`MiddleKnows` are why the timer is set with force at the right moment, and
`ToldEver` why what was told is not taken back by a later advertisement.
`Tidy` says that what is advertised are connections there are, that a node's
edges are its own connections and what it was told, and that only a node with a
connection advertises or is told anything. That no edge is out of reach
(`EdgesAreInMesh`) follows: of three nodes, who has a connection reaches every
other connection. The whole invariant was checked with TLC on the line of three
before it was proved.

`LinkProofs` proves, for any messages, connections, payload lengths and pool
sizes:

| Theorem | States |
|---|---|
| `LinkTypes` | `Spec => []TypeOK` |
| `ChunksInOrder` | `Spec => []EachMessageOnceInOrder` |
| `CopyCostsConnection` | `Spec => []SentTwiceOnlyAfterFailure` |
| `NothingLostWhileOpen` | `Spec => []OpenConnectionsLoseNothing` |
| `LostThread` | `Spec => []ThreadLostOnlyToFailedSend` |

Its invariant ties the wires to the drains: what a drain has taken from its
bridge queue is what its connection has accepted (`SentWasTaken` and
`TakenWasSent`), and chunks on a connection that has not closed belong to the
drain that holds the message or to one that finished (`OpenWireIsOwned`). The
last is why a new drain finds nothing of its message on the wire, and it needs
`OwnedOnce`, the uniqueness of owners of the buffer, and that an exception
closes the connection in the stretch of code that gives the message back.

`RequestsProofs` proves of `Work` alone and of `Requests`, for any mesh,
requests, tables, numbers of jobs, threads, responses and faults:

| Theorem | States |
|---|---|
| `WorkTypes` | `WorkSpec => []WorkTypeOK` |
| `EofCounts` | `WorkSpec => []EofCountsResponses` |
| `WorkInTheMesh` | `Spec => WorkSpec`: `Requests` implements `Work` |
| `EofCountsInTheMesh` | `Spec => []EofCountsResponses`, from the two above |
| `ActiveWork`, `ActiveWorkInTheMesh` | `[]ActiveWorkIsServed`, of `WorkSpec` and of `Spec` |
| `RequestTypes` | `Spec => []TypeOK` |
| `NothingIsForgotten` | `Spec => []NothingVanishes` |

Beyond types, the invariant says that jobs not called yet are untouched
(`Unused`) and that the sentinel is in a queue exactly when the callback has
run, once and at its end (`SentinelIsLast`): only then does finding it mean
that all responses are sent. That no more actions run than there are threads
needs the cardinality of `Running` before and after each step. `remove_work` goes over the list
it removes from and skips the entry after each one it takes; by induction over
the places it looks at, it takes at least one entry of its message if there is
one, and none of another. `ActiveWorkIsServed` needs no
more, and more is not true: how many it takes depends on how they lie.

For `NothingIsForgotten`, `Custody` relates three things that different actors
write: messages under way, the requests that were asked for, and the jobs they
began. Every step forgets no message (`NoneForgotten`), makes none up
(`NoneInvented`), and changes the serial of at most the one job that answers
(`SerialsStay`, `SaysMore`); from these three the property follows for every
step alike. A restart takes what its node had stored and records it
(`LossEffect`). That what is dropped as unexpected, lost or by a restart is so for
a reason needs that a request leaves its registry only when its node restarts,
and that `restarted` and `faults` never shrink (`HistoryGrows`).

`ConnectionsProofs` proves of `Registry` alone and of `Connections`, for any connections to any
peers over any transports, any number of days, faults and recalculations:

| Theorem | States |
|---|---|
| `RegistryTypes` | `RegistrySpec => []RegistryTypeOK`, with mutual exclusion by the lock |
| `ManifestKeepsPeers` | `RegistrySpec => ManifestRemembers` |
| `RoutesFollow` | `RegistrySpec => []RoutesFollowConnections` |
| `RegistryInUse` | `Spec => RegistrySpec`: `Connections` implements `Registry` |
| `ManifestInUse`, `RoutesInUse` | the same two properties for `Spec` |
| `ConnectionTypes` | `Spec => []TypeOK` |
| `RegisteredExactly` | `Spec => []RegisteredWhileServed` |

Who has read the manifest to change it still has what it says (`LockInv`), so
writing back forgets nobody; the lock's queue holds those who want it, each
once (`QueueInv`); what a task does to the manifest fits where its connection
is (`TaskInv`). For the routes, `UpToDate` says that what is installed, or the
last recalculation under way, matches the connections, or a task is under way
that will wake the sender (`Wakers`). It is inductive only with
`NewcomersBehind`: when the keys have changed since a removal began, some
connection with a new key still waits for the lock, behind the removal. For
`RegisteredExactly`, `Linked` relates the place of a Worker to the stage of its
connection.

`FramedBufferProofs` proves, for any finite sequences of messages with headers
that are not empty, and any sizes of frames, chunks and pieces:

| Theorem | States |
|---|---|
| `WellTyped` | `Spec => []TypeOK`, on interleaved streams too |
| `WhatArrivedIsDelivered` | `Spec => []DeliversWhatArrived` |
| `PutNeverRaises` | `Spec => []NeverRaises` |
| `NothingIsLeftBetween` | `Spec => []CleanAtBoundary` |

First the stream: `Layout` and `PartLayout` say where in it every message,
frame and body is, by induction over the messages, since the model joins them
with the recursive `FlattenSeq`. Then a step: `PutFacts`, `ShortFacts`,
`FrameFacts` and `ConsumeFacts` say which stretch of the stream each moves
where, on any stream; types follow from that. The invariant (`Parsing`) says
that, after k delivered messages, the parser is in a part of message k + 1
(`InPart`): `framebuffer` is a stretch of its frame (`InFrame`) or `bb` one of
its body (`InBody`), and `header` is that message's if the part is the payload
and nothing otherwise. The last clause is what keeps a header from the wrong
message, and none of the three properties is inductive without the positions.
`Inv` was checked with TLC under the bounds of `framing` before it was proved.

TLAPS has no rule for recursion. Where a proof needs what a recursive function
computes (`Distances`, `Reached`, the list of `remove_work`, `FlattenSeq`), it takes the
induction from `WellOrdering`: a set of numbers that has 0, and with each
number the next, has all of them, and a function defined by iteration exists.

Only model-checked: `DirtyIsRecorded`, `EventuallyDrained`, `UpdateEnds`,
`AdvertisingSettles`, `AnswersArrive`, `PeerLetsGo` and `Reconnects`, which are
liveness properties and beyond the prover. `HandlersSurvive` and
`EveryoneKnowsTheMesh` are proved of meshes such as those of `advert` only;
`advert_cycle` and the line of four (section 3) are meshes of which they are
not true.

## 8. Not modelled, and the plan

What is left, in this order:

1. The awaits inside `send_routes` and `handle_route_advertisement`: that a new
   peer changes `self.connections` under their loops is one step in
   `RouteAdvertisement`, where it would cost a state space too large to check.
   `Registry` has the awaits of `recalculate_routes`, of one node.
2. That aiohttp (3.6) may cancel the handler of a web socket server when its peer
   disconnects, also in the middle of a write of the manifest: the lock would be
   free while the pool's thread still writes; and that `unregister` cancels a
   `message_handler` in the middle of its recalculation. In `Registry` a write
   ends or fails, and a recalculation that has begun goes on; the one that
   `unregister` asks for follows in either case.
3. The one-shot commands of the entry points, `Controller.shutdown_loop`. The
   keepalive of `run_as_node` ends for good when a ping raises
   `UnrouteableError` (`entrypoints.py:19`); `Requests` has the pings as
   requests that are sent or refused, and not the timer between them.

`Worker.close` awaits what `close` of the transport returns, which is `None`
for a raw socket: the `TypeError` comes after the socket is closed, in a task
nobody waits for, and changes nothing in `Link` or `Connections`.
`Receptor.remove_connection_by_id` is called by nothing. `response_registry`
grows with every request; a property would only restate that nothing removes
from it. The lifetime of a stored message starts again at every hop, since each
buffer sets its own deadline; `Requests` has no clock, and expiry is a loss.

Left out for good: configuration, encoding of values, counters, log formats
and plugin helpers keep no state the mesh depends on; diagnostics only writes a
report; the rest of the entry points are command lines around the controller,
whose own methods are calls of the router and the connection manager.
