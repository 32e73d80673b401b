-------------------------------- MODULE Link --------------------------------
(***************************************************************************)
(* How the messages of one peer's DurableBuffer reach the connections to   *)
(* that peer: the watch_queue task of every connection (Worker), the       *)
(* drain_buf task it starts for every message, the BridgeQueue between the *)
(* thread that reads the payload file and the coroutine that sends it, the *)
(* pool of threads all file operations share, and the transport.           *)
(*                                                                         *)
(* A member of Conns is one connection, up after its handshake; a          *)
(* reconnection is another member.  The buffer is the one DurableBuffer    *)
(* specifies, at a moment when it is ready and with nothing expired: its   *)
(* restarts, sweeps and manifest are left to that module.                  *)
(*                                                                         *)
(* BridgeHasRoomForMore, NotUsable, SentinelIsLost, PutBackOpen and        *)
(* BlocksAtSentinel are mistakes: mutants of the definitions after them.   *)
(***************************************************************************)
EXTENDS Integers, FiniteSets, SequencesExt

CONSTANTS
  Messages, Conns,
  WebSockets,   \* the connections that are ws.WebSocket, not sock.RawSocket
  Chunks,       \* Chunks[m]: how many 4096-byte reads the payload takes
  PoolSizes     \* how many threads fileio.pool may have

ASSUME ConnsAssumption == WebSockets \subseteq Conns
ASSUME ChunksAssumption == Chunks \in [Messages -> Nat \ {0}]
ASSUME PoolAssumption == PoolSizes \subseteq Nat \ {0}

VARIABLES
  q, files, fresh, writing, held,   \* the buffer's: see DurableBuffer
  link,      \* "none", "up", "broken" (sends fail) or "closed" (conn.closed)
  watcher,   \* watch_queue: "off", "waiting" in wait_for, "delivered" (the
             \* get() task has an item, watch_queue has not run), "stopped"
  pc,        \* drain_buf of a message: "idle" (none), "start", "queued" for a
             \* thread, "reading", "read" (sentinel put), "removing"
  read,      \* what read_from has put into the bridge queue
  taken,     \* what send has taken from it and passed to the transport
  wire,      \* wire[c]: the chunks the transport of c accepted, in order
  stuck,     \* <<c, m>>: read_from blocked for ever in put()
  poolSize   \* threads of fileio.pool, fixed when it is made

buffer == <<q, files, fresh, writing, held>>
drains == <<pc, read, taken>>
vars == <<buffer, link, watcher, drains, wire, stuck, poolSize>>

(* What the link leaves alone of the buffer: it is ready, always dirty,    *)
(* and neither its clock nor its manifest moves.  (TLC evaluates UNCHANGED *)
(* of an operator's value, not of a literal.)                              *)
Still(value) == value

Buf == INSTANCE DurableBuffer WITH
         Consumers <- Conns, TTL <- 0, MaxNow <- 0, MaxFaults <- 0,
         manifest <- <<>>, snapshot <- <<>>,
         dirty <- Still(TRUE), ready <- Still(TRUE),
         writer <- Still("idle"), sweeper <- Still("dead"),
         now <- Still(0), faults <- Still(0),
         deadline <- [m \in Messages |-> 0]

Init ==
  /\ q = <<>> /\ files = {} /\ fresh = Messages /\ writing = {}
  /\ held = [c \in Conns |-> {}]
  /\ link = [c \in Conns |-> "none"]
  /\ watcher = [c \in Conns |-> "off"]
  /\ pc = [m \in Messages |-> "idle"]
  /\ read = [m \in Messages |-> 0]
  /\ taken = [m \in Messages |-> 0]
  /\ wire = [c \in Conns |-> <<>>]
  /\ stuck = {}
  /\ poolSize \in PoolSizes

FreeThread ==
  Cardinality({m \in Messages : pc[m] = "reading"}) + Cardinality(stuck)
    < poolSize

(* BridgeQueue(maxsize=1): put() blocks the thread while an item waits.    *)
BridgeCapacity == 1
BridgeHasRoomForMore(m) == read[m] - taken[m] <= BridgeCapacity
BridgeHasRoom(m) == read[m] - taken[m] < BridgeCapacity

(* ------------------------------ the buffer ----------------------------- *)

PutBegin(m) ==
  Buf!PutBegin(m) /\ UNCHANGED <<link, watcher, drains, wire, stuck, poolSize>>

(* The payload file is written by a thread of the same pool.               *)
PutEnd(m) ==
  /\ FreeThread
  /\ Buf!PutEnd(m)
  /\ UNCHANGED <<link, watcher, drains, wire, stuck, poolSize>>

(* ---------------------------- the connection --------------------------- *)

(* start_processing(): the handshake is over and watch_queue starts.       *)
Connect(c) ==
  /\ link[c] = "none"
  /\ link' = [link EXCEPT ![c] = "up"]
  /\ watcher' = [watcher EXCEPT ![c] = "waiting"]
  /\ UNCHANGED <<buffer, drains, wire, stuck, poolSize>>

Break(c) ==
  /\ link[c] = "up"
  /\ link' = [link EXCEPT ![c] = "broken"]
  /\ UNCHANGED <<buffer, watcher, drains, wire, stuck, poolSize>>

(* receive() reads the end of the stream and the transport closes.         *)
EndOfStream(c) ==
  /\ link[c] \in {"up", "broken"}
  /\ link' = [link EXCEPT ![c] = "closed"]
  /\ UNCHANGED <<buffer, watcher, drains, wire, stuck, poolSize>>

(* ------------------------------ watch_queue ---------------------------- *)

(* The get() task inside wait_for takes an item.                           *)
Get(c) ==
  /\ watcher[c] = "waiting"
  /\ Buf!Get(c)
  /\ watcher' = [watcher EXCEPT ![c] = "delivered"]
  /\ UNCHANGED <<link, drains, wire, stuck, poolSize>>

Delivered(c) == {m \in held[c] : pc[m] = "idle"}

LoopOrStop(c) == IF link[c] = "closed" THEN "stopped" ELSE "waiting"

(* watch_queue runs with the item: it starts drain_buf, does not wait for  *)
(* it, and goes round its loop.                                            *)
Spawn(c) ==
  /\ watcher[c] = "delivered"
  /\ pc' = [m \in Messages |-> IF m \in Delivered(c) THEN "start" ELSE pc[m]]
  /\ watcher' = [watcher EXCEPT ![c] = LoopOrStop(c)]
  /\ UNCHANGED <<buffer, link, read, taken, wire, stuck, poolSize>>

(* wait_for times out and the loop condition is false.                     *)
Timeout(c) ==
  /\ watcher[c] = "waiting"
  /\ link[c] = "closed"
  /\ watcher' = [watcher EXCEPT ![c] = "stopped"]
  /\ UNCHANGED <<buffer, link, drains, wire, stuck, poolSize>>

(* The connection's task is cancelled, and watch_queue with it.  wait_for  *)
(* raises CancelledError whether or not its get() task has finished: an    *)
(* item already delivered has no one left to drain it.                     *)
Cancel(c) ==
  /\ watcher[c] \in {"waiting", "delivered"}
  /\ watcher' = [watcher EXCEPT ![c] = "stopped"]
  /\ link' = [link EXCEPT ![c] = "closed"]
  /\ UNCHANGED <<buffer, drains, wire, stuck, poolSize>>

(* ------------------------------- drain_buf ----------------------------- *)

NotUsable(c) == link[c] # "up"
IsClosed(c) == link[c] = "closed"

(* On a closed connection nothing is sent, no exception is raised, and the *)
(* else branch of the try removes the file.                                *)
DrainStart(c, m) ==
  /\ m \in held[c] /\ pc[m] = "start"
  /\ pc' = [pc EXCEPT ![m] = IF IsClosed(c) THEN "removing" ELSE "queued"]
  /\ read' = [read EXCEPT ![m] = 0]
  /\ taken' = [taken EXCEPT ![m] = 0]
  /\ UNCHANGED <<buffer, link, watcher, wire, stuck, poolSize>>

ReaderStart(m) ==
  /\ pc[m] = "queued"
  /\ FreeThread
  /\ pc' = [pc EXCEPT ![m] = "reading"]
  /\ UNCHANGED <<buffer, link, watcher, read, taken, wire, stuck, poolSize>>

(* read_from puts the next chunk, or after the last one the sentinel.      *)
ReaderPut(m) ==
  /\ pc[m] = "reading"
  /\ BridgeHasRoom(m)
  /\ read' = [read EXCEPT ![m] = @ + 1]
  /\ pc' = [pc EXCEPT ![m] = IF read[m] = Chunks[m] THEN "read" ELSE @]
  /\ UNCHANGED <<buffer, link, watcher, taken, wire, stuck, poolSize>>

ChunkWaits(m) == pc[m] \in {"reading", "read"} /\ taken[m] < read[m]
SentinelIsLost(m) == FALSE
SentinelIsNext(m) == pc[m] = "read" /\ taken[m] = Chunks[m]

(* send(): a raw socket's write() never fails, it ignores what it is given *)
(* once the connection is lost; a web socket's send_bytes() raises.        *)
SendChunk(c, m) ==
  /\ m \in held[c]
  /\ ChunkWaits(m) /\ taken[m] < Chunks[m]
  /\ link[c] = "up" \/ c \notin WebSockets
  /\ taken' = [taken EXCEPT ![m] = @ + 1]
  /\ wire' = IF link[c] = "up"
             THEN [wire EXCEPT ![c] = Append(@, <<m, taken[m] + 1>>)] ELSE wire
  /\ UNCHANGED <<buffer, link, watcher, pc, read, stuck, poolSize>>

(* gather() returns and the file is handed to os.remove.  A raw socket     *)
(* comes here through drain(), which raises once the connection is lost.   *)
SendReturns(c, m) ==
  /\ m \in held[c]
  /\ SentinelIsNext(m)
  /\ link[c] = "up" \/ c \in WebSockets
  /\ pc' = [pc EXCEPT ![m] = "removing"]
  /\ UNCHANGED <<buffer, link, watcher, read, taken, wire, stuck, poolSize>>

(* The except branch of drain_buf: the item goes back to the buffer and    *)
(* the connection is closed.                                               *)
PutBackOpen(c, m) ==
  /\ Buf!PutIdent(c, m)
  /\ pc' = [pc EXCEPT ![m] = "idle"]
  /\ UNCHANGED <<link, watcher, read, taken, wire>>
PutBackAndClose(c, m) ==
  /\ Buf!PutIdent(c, m)
  /\ pc' = [pc EXCEPT ![m] = "idle"]
  /\ link' = [link EXCEPT ![c] = "closed"]
  /\ UNCHANGED <<watcher, read, taken, wire>>

(* The exception drops the bridge queue with its consumer, who has taken   *)
(* the failed chunk too.  The thread still puts one item into the queue,   *)
(* and blocks on the one after that: it never returns to the pool unless   *)
(* the item after the failed chunk is the sentinel.                        *)
BlocksAtSentinel(m) == taken[m] + 1 <= Chunks[m]
BlocksForEver(m) == taken[m] + 1 < Chunks[m]
SendRaises(c, m) ==
  /\ m \in held[c]
  /\ link[c] # "up"
  /\ IF c \in WebSockets THEN ChunkWaits(m) /\ taken[m] < Chunks[m]
                         ELSE SentinelIsNext(m)
  /\ PutBackAndClose(c, m)
  /\ stuck' = IF BlocksForEver(m) THEN stuck \union {<<c, m>>} ELSE stuck
  /\ UNCHANGED poolSize

(* read_from raises (an I/O error in fp.read, the last chunk perhaps still *)
(* in the bridge): gather() does, and drain_buf puts the message back.     *)
ReaderRaises(c, m) ==
  /\ m \in held[c]
  /\ pc[m] = "reading"
  /\ PutBackAndClose(c, m)
  /\ UNCHANGED <<stuck, poolSize>>

RemoveFile(c, m) ==
  /\ pc[m] = "removing"
  /\ FreeThread
  /\ Buf!Release(c, m)
  /\ pc' = [pc EXCEPT ![m] = "idle"]
  /\ UNCHANGED <<link, watcher, read, taken, wire, stuck, poolSize>>

(* The steps of drain_buf's coroutine and of its reader, m being held by c. *)
DrainStep(c, m) ==
  \/ DrainStart(c, m) \/ SendChunk(c, m) \/ SendReturns(c, m)
  \/ SendRaises(c, m) \/ RemoveFile(c, m)

Next ==
  \/ \E m \in Messages :
       PutBegin(m) \/ PutEnd(m) \/ ReaderStart(m) \/ ReaderPut(m)
  \/ \E c \in Conns :
       \/ Connect(c) \/ Break(c) \/ EndOfStream(c)
       \/ Get(c) \/ Spawn(c) \/ Timeout(c) \/ Cancel(c)
  \/ \E c \in Conns, m \in Messages : DrainStep(c, m) \/ ReaderRaises(c, m)

(* The event loop runs every ready task and the pool every queued call:    *)
(* each put, reader, drain_buf and watch_queue makes progress.             *)
(* Connections need not be made, broken or closed, nor puts called.        *)
Fairness ==
  /\ \A m \in Messages : /\ WF_vars(PutEnd(m))
                         /\ WF_vars(ReaderStart(m) \/ ReaderPut(m))
                         /\ WF_vars(\E c \in Conns : DrainStep(c, m))
  /\ \A c \in Conns : WF_vars(Get(c) \/ Spawn(c) \/ Timeout(c))

Spec == Init /\ [][Next]_vars /\ Fairness

-----------------------------------------------------------------------------

(* The state of the connections and of the drains is well typed.           *)
TypeOK ==
  /\ q \in Seq(Messages)
  /\ files \in SUBSET Messages /\ held \in [Conns -> SUBSET Messages]
  /\ link \in [Conns -> {"none", "up", "broken", "closed"}]
  /\ watcher \in [Conns -> {"off", "waiting", "delivered", "stopped"}]
  /\ pc \in [Messages -> {"idle", "start", "queued", "reading", "read", "removing"}]
  /\ read \in [Messages -> Nat] /\ taken \in [Messages -> Nat]
  /\ \A m \in Messages : /\ taken[m] <= Chunks[m]
                         /\ read[m] - taken[m] \in 0 .. BridgeCapacity
  /\ wire \in [Conns -> Seq(Messages \X Nat)]
  /\ stuck \in SUBSET (Conns \X Messages)

(* The transport of c accepted the last chunk of m.                        *)
Complete(c, m) == \E i \in DOMAIN wire[c] : wire[c][i] = <<m, Chunks[m]>>
Removed(m) == m \notin fresh \union writing \union files

(* However many drains interleave on a connection, each message's chunks   *)
(* go out in order, without gaps, and at most once: a message put back     *)
(* after a failed send is never sent again on the connection that failed.  *)
ContinuesItsMessage(s, i) ==
  LET m == s[i][1]
      k == s[i][2]
  IN /\ k \in 1 .. Chunks[m]
     /\ \A j \in 1 .. i - 1 : s[j][1] = m => s[j][2] < k
     /\ k > 1 => \E j \in 1 .. i - 1 : s[j] = <<m, k - 1>>
EachMessageOnceInOrder ==
  \A c \in Conns : \A i \in DOMAIN wire[c] : ContinuesItsMessage(wire[c], i)

(* A message sent completely over two connections was put back by one of   *)
(* them, and that one was closed for it: a raw socket lost before drain()  *)
(* returned, or a file that could not be read to its end.  Connections     *)
(* that stay open never deliver a message twice.                           *)
SentTwiceOnlyAfterFailure ==
  \A c, d \in Conns, m \in Messages :
    c # d /\ Complete(c, m) /\ Complete(d, m) => "closed" \in {link[c], link[d]}

(* While no connection has closed, a payload file is removed only after a  *)
(* transport has accepted the last of its chunks.                          *)
OpenConnectionsLoseNothing ==
  \A m \in Messages :
    Removed(m) => \E c \in Conns : Complete(c, m) \/ link[c] = "closed"

(* docs/intro.rst: messages are stored until connectivity is restored or   *)
(* another route is found.  A payload file is removed only when some       *)
(* transport has accepted all of it.  drain_buf removes others.            *)
RemovedOnlyAfterSend ==
  \A m \in Messages : Removed(m) => \E c \in Conns : Complete(c, m)

(* framed.py:232-233: the receiver "assumes that an entire message will be *)
(* sent before another message is sent".  Concurrent drains interleave.    *)
MessagesAreContiguous ==
  \A c \in Conns : \A i, j, k \in DOMAIN wire[c] :
    i < j /\ j < k /\ wire[c][i][1] = wire[c][k][1]
      => wire[c][j][1] = wire[c][i][1]

(* A pool thread is lost for ever only to a payload of several chunks on a *)
(* web socket that failed, with the message owned by that drain no more.   *)
ThreadLostOnlyToFailedSend ==
  \A lost \in stuck :
    /\ lost[1] \in WebSockets /\ link[lost[1]] = "closed"
    /\ Chunks[lost[2]] > 1 /\ ~Complete(lost[1], lost[2])

(* A queued message is eventually off the disk if some connection stays up *)
(* with its watch_queue running and the pool keeps a thread; the one other *)
(* fate is to have been delivered to a watch_queue cancelled at that time. *)
Serving(c) == link[c] = "up" /\ watcher[c] # "stopped"
Orphaned(m) ==
  \E c \in Conns : watcher[c] = "stopped" /\ m \in held[c] /\ pc[m] = "idle"
EventuallyDrained ==
  (\E c \in Conns : <>[]Serving(c)) /\ <>[](Cardinality(stuck) < poolSize)
    => \A m \in Messages : (m \in ToSet(q)) ~> (Removed(m) \/ Orphaned(m))
=============================================================================
