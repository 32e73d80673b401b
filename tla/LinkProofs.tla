----------------------------- MODULE LinkProofs ------------------------------
(***************************************************************************)
(* Proofs about Link, for any messages, connections, payload lengths and   *)
(* pool sizes: each message's chunks go out in order and once on every     *)
(* connection, and what a removed file, a second copy and a lost thread    *)
(* say about the connections.                                              *)
(***************************************************************************)
EXTENDS Link, TLAPS, SequenceTheorems

(* A sequence as put() and get() use it.                                   *)
Distinct(s) == \A i, j \in DOMAIN s : s[i] = s[j] => i = j

(* Before its handshake a connection takes nothing.                        *)
NoneHeldBefore ==
  \A c \in Conns : link[c] = "none" => watcher[c] = "off" /\ held[c] = {}

(* One owner of a message: the caller of put(), the queue, or one          *)
(* connection; and whatever is queued or held has its file.                *)
OwnedOnce ==
  /\ Distinct(q)
  /\ fresh \intersect writing = {}
  /\ \A m \in ToSet(q) : m \notin fresh /\ m \notin writing /\ m \in files
  /\ \A c \in Conns : \A m \in held[c] :
       /\ m \notin fresh /\ m \notin writing /\ m \in files
       /\ m \notin ToSet(q)
       /\ \A d \in Conns : m \in held[d] => d = c

(* Only an item some connection holds is drained.                          *)
DrainedIsHeld ==
  \A m \in Messages : pc[m] # "idle" => \E c \in Conns : m \in held[c]

(* A new drain starts to count at zero.                                    *)
QueuedAtZero ==
  \A m \in Messages : pc[m] = "queued" => read[m] = 0 /\ taken[m] = 0

OnWire(c, m) == \E i \in DOMAIN wire[c] : wire[c][i][1] = m

(* On a connection that has not closed, chunks of a message are those of   *)
(* the drain that is sending it, or of one that sent it all.               *)
OpenWireIsOwned ==
  \A c \in Conns, m \in Messages :
    link[c] # "closed" /\ OnWire(c, m)
      => Removed(m) \/ (m \in held[c] /\ pc[m] \in {"reading", "read", "removing"})

(* A drain has sent nothing it has not taken from its bridge queue.        *)
SentWasTaken ==
  \A c \in Conns : \A m \in held[c] :
    pc[m] \in {"queued", "reading", "read"}
      => \A i \in DOMAIN wire[c] : wire[c][i][1] = m => wire[c][i][2] <= taken[m]

(* What it has taken, a connection that is up has accepted; so has a web   *)
(* socket, whose drain ends at the first chunk it refuses.                 *)
TakenWasSent ==
  \A c \in Conns : \A m \in held[c] :
    pc[m] \in {"reading", "read"} /\ (link[c] = "up" \/ c \in WebSockets)
      => \A k \in 1 .. taken[m] : \E i \in DOMAIN wire[c] : wire[c][i] = <<m, k>>

(* drain_buf goes on to remove the file after a complete send, or because  *)
(* the connection was closed when it began.                                *)
RemovingIsDone ==
  \A c \in Conns : \A m \in held[c] :
    pc[m] = "removing" => Complete(c, m) \/ link[c] = "closed"

IInv ==
  /\ TypeOK
  /\ NoneHeldBefore /\ OwnedOnce /\ DrainedIsHeld /\ QueuedAtZero
  /\ OpenWireIsOwned /\ SentWasTaken /\ TakenWasSent /\ RemovingIsDone
  /\ EachMessageOnceInOrder /\ SentTwiceOnlyAfterFailure
  /\ OpenConnectionsLoseNothing /\ ThreadLostOnlyToFailedSend

-----------------------------------------------------------------------------
(* What the buffer's operations do to the set of queued items.             *)

(* put() and put_ident() queue one item more, which was not queued.        *)
LEMMA Queued ==
  ASSUME NEW S, NEW s \in Seq(S), NEW x \in S, Distinct(s), x \notin ToSet(s)
  PROVE  /\ Append(s, x) \in Seq(S)
         /\ ToSet(Append(s, x)) = ToSet(s) \union {x}
         /\ Distinct(Append(s, x))
  <1>1. /\ Append(s, x) \in Seq(S) /\ Len(s) \in Nat
        /\ DOMAIN s = 1 .. Len(s)
        /\ DOMAIN Append(s, x) = 1 .. Len(s) + 1
        /\ \A i \in 1 .. Len(s) : Append(s, x)[i] = s[i]
        /\ Append(s, x)[Len(s) + 1] = x
    OBVIOUS
  <1>2. \A i \in 1 .. Len(s) + 1 : i \in 1 .. Len(s) \/ i = Len(s) + 1
    BY <1>1
  <1>3. ToSet(Append(s, x)) = ToSet(s) \union {x}
    BY <1>1, <1>2 DEF ToSet
  <1>4. \A i \in 1 .. Len(s) : s[i] # x
    BY <1>1 DEF ToSet
  <1>5. Distinct(Append(s, x))
    BY <1>1, <1>2, <1>4 DEF Distinct
  <1> QED
    BY <1>1, <1>3, <1>5

(* get() takes the first item off the queue, and only that one.            *)
LEMMA Dequeued ==
  ASSUME NEW S, NEW s \in Seq(S), s # <<>>, Distinct(s)
  PROVE  /\ Tail(s) \in Seq(S) /\ Head(s) \in S
         /\ Head(s) \in ToSet(s)
         /\ ToSet(Tail(s)) \subseteq ToSet(s)
         /\ Head(s) \notin ToSet(Tail(s))
         /\ Distinct(Tail(s))
  <1>1. /\ Tail(s) \in Seq(S) /\ Head(s) \in S
        /\ Len(s) \in Nat /\ Len(s) > 0
        /\ DOMAIN Tail(s) = 1 .. Len(s) - 1
        /\ \A i \in 1 .. Len(s) - 1 : Tail(s)[i] = s[i + 1]
        /\ Head(s) = s[1]
        /\ DOMAIN s = 1 .. Len(s)
    OBVIOUS
  <1>2. Head(s) \in ToSet(s) /\ Distinct(Tail(s))
    BY <1>1 DEF ToSet, Distinct
  <1>3. ToSet(Tail(s)) \subseteq ToSet(s) /\ Head(s) \notin ToSet(Tail(s))
    BY <1>1 DEF ToSet, Distinct
  <1> QED
    BY <1>1, <1>2, <1>3

(* The operations of DurableBuffer as the link sees them.                  *)
LEMMA PutBeginEffect ==
  ASSUME NEW m, Buf!PutBegin(m)
  PROVE  /\ m \in fresh /\ fresh' = fresh \ {m}
         /\ writing' = writing \union {m}
         /\ UNCHANGED <<q, files, held>>
  BY DEF Buf!PutBegin

LEMMA PutEndEffect ==
  ASSUME NEW m, Buf!PutEnd(m)
  PROVE  /\ m \in writing /\ writing' = writing \ {m}
         /\ files' = files \union {m} /\ q' = Append(q, m)
         /\ UNCHANGED <<fresh, held>>
  BY DEF Buf!PutEnd

LEMMA GetEffect ==
  ASSUME NEW c, Buf!Get(c), q \in Seq(Messages)
  PROVE  /\ q # <<>> /\ q' = Tail(q)
         /\ held' = [held EXCEPT ![c] = @ \union {Head(q)}]
         /\ UNCHANGED <<files, fresh, writing>>
  <1>1. q # <<>> /\ Head(q) \in Messages
    BY DEF Buf!Get
  <1>2. ~Buf!Expired(Head(q))
    BY <1>1 DEF Buf!Expired, Still
  <1> QED
    BY <1>1, <1>2 DEF Buf!Get

LEMMA PutIdentEffect ==
  ASSUME NEW c, NEW m, Buf!PutIdent(c, m)
  PROVE  /\ m \in held[c] /\ held' = [held EXCEPT ![c] = @ \ {m}]
         /\ q' = Append(q, m)
         /\ UNCHANGED <<files, fresh, writing>>
  BY DEF Buf!PutIdent

LEMMA ReleaseEffect ==
  ASSUME NEW c, NEW m, Buf!Release(c, m)
  PROVE  /\ m \in held[c] /\ held' = [held EXCEPT ![c] = @ \ {m}]
         /\ files' = files \ {m}
         /\ UNCHANGED <<q, fresh, writing>>
  BY DEF Buf!Release

-----------------------------------------------------------------------------
(* Steps that change only the buffer, or only connections and watchers.    *)

LEMMA InitIInv == Init => IInv
  <1> SUFFICES ASSUME Init PROVE IInv
    OBVIOUS
  <1>1. TypeOK
    BY ChunksAssumption DEF Init, TypeOK, BridgeCapacity
  <1>2. \A c \in Conns : wire[c] = <<>> /\ held[c] = {} /\ DOMAIN wire[c] = {}
    BY DEF Init
  <1>3. ToSet(q) = {} /\ Distinct(q)
    BY DEF Init, ToSet, Distinct
  <1>4. NoneHeldBefore /\ OwnedOnce /\ DrainedIsHeld /\ QueuedAtZero
    BY <1>2, <1>3 DEF Init, NoneHeldBefore, OwnedOnce, DrainedIsHeld,
                      QueuedAtZero
  <1>5. OpenWireIsOwned /\ SentWasTaken /\ TakenWasSent /\ RemovingIsDone
    BY <1>2 DEF OpenWireIsOwned, OnWire, SentWasTaken, TakenWasSent,
                RemovingIsDone
  <1>6. EachMessageOnceInOrder /\ SentTwiceOnlyAfterFailure
    BY <1>2 DEF EachMessageOnceInOrder, SentTwiceOnlyAfterFailure, Complete
  <1>7. OpenConnectionsLoseNothing /\ ThreadLostOnlyToFailedSend
    BY DEF Init, OpenConnectionsLoseNothing, Removed,
           ThreadLostOnlyToFailedSend
  <1> QED
    BY <1>1, <1>4, <1>5, <1>6, <1>7 DEF IInv

(* A step that sends nothing and reopens nothing keeps what is said of the *)
(* wires and of the connections that closed.                               *)
LEMMA WireKept ==
  ASSUME IInv, UNCHANGED <<wire, stuck>>,
         \A d \in Conns : link[d] = "closed" => link'[d] = "closed"
  PROVE  /\ EachMessageOnceInOrder' /\ SentTwiceOnlyAfterFailure'
         /\ ThreadLostOnlyToFailedSend'
         /\ \A d, x : Complete(d, x)' <=> Complete(d, x)
         /\ \A d, x : OnWire(d, x)' <=> OnWire(d, x)
  <1> USE DEF IInv
  <1>1. \A d, x : Complete(d, x)' <=> Complete(d, x)
    BY DEF Complete
  <1>2. \A d, x : OnWire(d, x)' <=> OnWire(d, x)
    BY DEF OnWire
  <1>3. EachMessageOnceInOrder'
    BY DEF EachMessageOnceInOrder
  <1>4. SentTwiceOnlyAfterFailure'
    BY <1>1 DEF SentTwiceOnlyAfterFailure
  <1>5. \A lost \in stuck : lost[1] \in Conns
    BY DEF TypeOK
  <1>6. ThreadLostOnlyToFailedSend'
    BY <1>1, <1>5 DEF ThreadLostOnlyToFailedSend
  <1> QED
    BY <1>1, <1>2, <1>3, <1>4, <1>6

(* What a drain has taken is on the wire as long as it goes on as it did.  *)
LEMMA TakenKept ==
  ASSUME TakenWasSent, wire' = wire,
         \A d \in Conns : \A x \in held'[d] :
           pc'[x] \in {"reading", "read"} /\ (link'[d] = "up" \/ d \in WebSockets)
             => /\ x \in held[d] /\ pc[x] \in {"reading", "read"}
                /\ link[d] = "up" \/ d \in WebSockets
                /\ taken'[x] = taken[x]
  PROVE  TakenWasSent'
  <1> SUFFICES ASSUME NEW d \in Conns, NEW x \in held'[d],
                      pc'[x] \in {"reading", "read"},
                      link'[d] = "up" \/ d \in WebSockets,
                      NEW k \in 1 .. taken'[x]
               PROVE  \E i \in DOMAIN wire[d] : wire[d][i] = <<x, k>>
    BY DEF TakenWasSent
  <1>1. /\ x \in held[d] /\ pc[x] \in {"reading", "read"}
        /\ link[d] = "up" \/ d \in WebSockets
        /\ k \in 1 .. taken[x]
    OBVIOUS
  <1> QED
    BY <1>1 DEF TakenWasSent

(* A drain that removes its file has sent it, or its connection is closed, *)
(* as long as it began to remove it before.                                *)
LEMMA RemovingKept ==
  ASSUME RemovingIsDone, wire' = wire,
         \A d \in Conns : link[d] = "closed" => link'[d] = "closed",
         \A d \in Conns : \A x \in held'[d] :
           pc'[x] = "removing" => x \in held[d] /\ pc[x] = "removing"
  PROVE  RemovingIsDone'
  <1> SUFFICES ASSUME NEW d \in Conns, NEW x \in held'[d], pc'[x] = "removing"
               PROVE  Complete(d, x) \/ link'[d] = "closed"
    BY DEF RemovingIsDone, Complete
  <1> QED
    BY DEF RemovingIsDone

(* put() takes a new message and, when the payload is on disk, queues it.  *)
LEMMA PutKeeps ==
  ASSUME IInv, NEW m \in Messages, PutBegin(m) \/ PutEnd(m)
  PROVE  IInv'
  <1> USE DEF IInv
  <1>1. UNCHANGED <<held, link, watcher, pc, read, taken, wire, stuck>>
    BY PutBeginEffect, PutEndEffect DEF PutBegin, PutEnd, drains
  <1>2. \A x : Removed(x)' <=> Removed(x)
    BY PutBeginEffect, PutEndEffect DEF PutBegin, PutEnd, Removed
  <1>3. ASSUME PutBegin(m) PROVE TypeOK' /\ OwnedOnce'
    <2>1. TypeOK'
      BY <1>1, <1>3, PutBeginEffect DEF PutBegin, TypeOK
    <2>2. OwnedOnce'
      BY <1>1, <1>3, PutBeginEffect DEF PutBegin, OwnedOnce
    <2> QED
      BY <2>1, <2>2
  <1>4. ASSUME PutEnd(m) PROVE TypeOK' /\ OwnedOnce'
    <2>1. /\ m \in writing /\ writing' = writing \ {m} /\ fresh' = fresh
          /\ files' = files \union {m} /\ q' = Append(q, m)
      BY <1>4, PutEndEffect DEF PutEnd
    <2>2. m \notin fresh /\ m \notin ToSet(q) /\ \A c \in Conns : m \notin held[c]
      BY <2>1 DEF OwnedOnce
    <2>3. q \in Seq(Messages) /\ Distinct(q)
      BY DEF TypeOK, OwnedOnce
    <2>4. /\ q' \in Seq(Messages) /\ Distinct(q')
          /\ ToSet(q') = ToSet(q) \union {m}
      BY <2>1, <2>2, <2>3, Queued
    <2>5. TypeOK'
      BY <1>1, <2>1, <2>4 DEF TypeOK
    <2>6. OwnedOnce'
      BY <1>1, <2>1, <2>2, <2>4 DEF OwnedOnce
    <2> QED
      BY <2>5, <2>6
  <1>5. TypeOK' /\ OwnedOnce'
    BY <1>3, <1>4
  <1>6. NoneHeldBefore' /\ DrainedIsHeld' /\ QueuedAtZero'
    BY <1>1 DEF NoneHeldBefore, DrainedIsHeld, QueuedAtZero
  <1>7. SentWasTaken' /\ TakenWasSent' /\ RemovingIsDone'
    BY <1>1 DEF SentWasTaken, TakenWasSent, RemovingIsDone, Complete
  <1>8. /\ EachMessageOnceInOrder' /\ SentTwiceOnlyAfterFailure'
        /\ ThreadLostOnlyToFailedSend'
    BY <1>1, WireKept
  <1>9. OpenWireIsOwned' /\ OpenConnectionsLoseNothing'
    BY <1>1, <1>2 DEF OpenWireIsOwned, OnWire, OpenConnectionsLoseNothing,
                      Complete
  <1> QED
    BY <1>5, <1>6, <1>7, <1>8, <1>9

(* A connection comes up, breaks or closes, and its watch_queue with it:   *)
(* nothing any drain has done is disturbed, for closed stays closed and    *)
(* one that comes up had held nothing.                                     *)
LEMMA ConnectionKeeps ==
  ASSUME IInv, NEW c \in Conns,
         Connect(c) \/ Break(c) \/ EndOfStream(c) \/ Timeout(c) \/ Cancel(c)
  PROVE  IInv'
  <1> USE DEF IInv
  <1>1. UNCHANGED <<q, files, fresh, writing, held, pc, read, taken, wire, stuck>>
    BY DEF Connect, Break, EndOfStream, Timeout, Cancel, buffer, drains
  <1>2. TypeOK'
    <2>1. /\ link' \in [Conns -> {"none", "up", "broken", "closed"}]
          /\ watcher' \in [Conns -> {"off", "waiting", "delivered", "stopped"}]
      BY DEF TypeOK, Connect, Break, EndOfStream, Timeout, Cancel
    <2> QED
      BY <1>1, <2>1 DEF TypeOK
  <1>3. \A d \in Conns : /\ link[d] = "closed" => link'[d] = "closed"
                         /\ link'[d] = "up" => link[d] \in {"up", "none"}
                         /\ link'[d] = "none" => link[d] = "none"
                                                 /\ watcher'[d] = watcher[d]
    BY DEF TypeOK, NoneHeldBefore, Connect, Break, EndOfStream, Timeout, Cancel
  <1>4. NoneHeldBefore'
    BY <1>1, <1>3 DEF NoneHeldBefore
  <1>5. OwnedOnce' /\ DrainedIsHeld' /\ QueuedAtZero'
    BY <1>1 DEF OwnedOnce, DrainedIsHeld, QueuedAtZero
  <1>6. OpenWireIsOwned'
    BY <1>1, <1>3 DEF OpenWireIsOwned, OnWire, Removed
  <1>7. SentWasTaken' /\ RemovingIsDone'
    BY <1>1, <1>3 DEF SentWasTaken, RemovingIsDone, Complete
  <1>8. TakenWasSent'
    BY <1>1, <1>3 DEF TakenWasSent, NoneHeldBefore
  <1>9. /\ EachMessageOnceInOrder' /\ SentTwiceOnlyAfterFailure'
        /\ ThreadLostOnlyToFailedSend'
    BY <1>1, <1>3, WireKept
  <1>10. OpenConnectionsLoseNothing'
    BY <1>1, <1>3 DEF OpenConnectionsLoseNothing, Complete, Removed
  <1> QED
    BY <1>2, <1>4, <1>5, <1>6, <1>7, <1>8, <1>9, <1>10

-----------------------------------------------------------------------------
(* Steps of watch_queue that move an item, and of drain_buf up to its      *)
(* reader: nothing is put on a wire.                                       *)

(* The get() task of a connection takes the first item.  It was queued, so *)
(* nobody drained it, and it is new to the connection that takes it.       *)
LEMMA GetKeeps ==
  ASSUME IInv, NEW c \in Conns, Get(c)
  PROVE  IInv'
  <1> USE DEF IInv
  <1> DEFINE m == Head(q)
  <1>1. /\ UNCHANGED <<link, pc, read, taken, wire, stuck>>
        /\ UNCHANGED <<files, fresh, writing>>
        /\ watcher[c] = "waiting" /\ watcher' = [watcher EXCEPT ![c] = "delivered"]
        /\ q # <<>> /\ q' = Tail(q)
        /\ held' = [held EXCEPT ![c] = @ \union {m}]
    BY GetEffect DEF Get, drains, TypeOK
  <1>2. q \in Seq(Messages) /\ Distinct(q)
    BY DEF TypeOK, OwnedOnce
  <1>3. /\ q' \in Seq(Messages) /\ Distinct(q') /\ m \in Messages
        /\ m \in ToSet(q) /\ m \notin ToSet(q') /\ ToSet(q') \subseteq ToSet(q)
    BY <1>1, <1>2, Dequeued
  <1>4. /\ m \notin fresh /\ m \notin writing /\ m \in files
        /\ \A d \in Conns : m \notin held[d]
        /\ pc[m] = "idle"
    BY <1>3 DEF OwnedOnce, DrainedIsHeld
  <1>5. \A d \in Conns : /\ held[d] \subseteq held'[d]
                         /\ held'[d] \subseteq held[d] \union {m}
                         /\ d # c => held'[d] = held[d]
    BY <1>1 DEF TypeOK
  <1> HIDE DEF m
  <1>6. TypeOK'
    BY <1>1, <1>3 DEF TypeOK
  <1>7. NoneHeldBefore'
    BY <1>1, <1>5 DEF NoneHeldBefore, TypeOK
  <1>8. OwnedOnce'
    BY <1>1, <1>3, <1>4, <1>5 DEF OwnedOnce
  <1>9. DrainedIsHeld' /\ QueuedAtZero'
    BY <1>1, <1>5 DEF DrainedIsHeld, QueuedAtZero
  <1>10. OpenWireIsOwned' /\ OpenConnectionsLoseNothing'
    <2>1. OpenWireIsOwned'
      BY <1>1, <1>5 DEF OpenWireIsOwned, OnWire, Removed
    <2>2. OpenConnectionsLoseNothing'
      BY <1>1 DEF OpenConnectionsLoseNothing, Removed, Complete
    <2> QED
      BY <2>1, <2>2
  <1>11. \A d \in Conns : \A x \in held'[d] : x \in held[d] \/ pc[x] = "idle"
    BY <1>4, <1>5
  <1>12. SentWasTaken'
    BY <1>1, <1>11 DEF SentWasTaken
  <1>13. TakenWasSent'
    BY <1>1, <1>11, TakenKept
  <1>14. RemovingIsDone'
    BY <1>1, <1>11, RemovingKept
  <1>15. /\ EachMessageOnceInOrder' /\ SentTwiceOnlyAfterFailure'
         /\ ThreadLostOnlyToFailedSend'
    BY <1>1, WireKept
  <1> QED
    BY <1>6, <1>7, <1>8, <1>9, <1>10, <1>12, <1>13, <1>14, <1>15

(* watch_queue starts the drains of what it was given.                     *)
LEMMA SpawnKeeps ==
  ASSUME IInv, NEW c \in Conns, Spawn(c)
  PROVE  IInv'
  <1> USE DEF IInv
  <1>1. /\ UNCHANGED <<q, files, fresh, writing, held>>
        /\ UNCHANGED <<link, read, taken, wire, stuck>>
        /\ watcher[c] = "delivered"
        /\ watcher' = [watcher EXCEPT ![c] = LoopOrStop(c)]
    BY DEF Spawn, buffer
  <1>2. \A m \in Messages :
          \/ pc'[m] = pc[m]
          \/ pc[m] = "idle" /\ pc'[m] = "start" /\ m \in held[c]
    BY DEF Spawn, Delivered
  <1>3. TypeOK'
    <2>1. pc' \in [Messages -> {"idle", "start", "queued", "reading", "read",
                                "removing"}]
      BY DEF Spawn, TypeOK
    <2>2. watcher' \in [Conns -> {"off", "waiting", "delivered", "stopped"}]
      BY <1>1 DEF TypeOK, LoopOrStop
    <2> QED
      BY <1>1, <2>1, <2>2 DEF TypeOK
  <1>4. \A d \in Conns : \A m \in held[d] : m \in Messages
    BY DEF TypeOK
  <1>5. NoneHeldBefore'
    BY <1>1 DEF NoneHeldBefore, TypeOK
  <1>6. OwnedOnce' /\ DrainedIsHeld' /\ QueuedAtZero'
    BY <1>1, <1>2 DEF OwnedOnce, DrainedIsHeld, QueuedAtZero
  <1>7. OpenWireIsOwned' /\ OpenConnectionsLoseNothing'
    <2>1. OpenWireIsOwned'
      BY <1>1, <1>2 DEF OpenWireIsOwned, OnWire, Removed
    <2>2. OpenConnectionsLoseNothing'
      BY <1>1 DEF OpenConnectionsLoseNothing, Removed, Complete
    <2> QED
      BY <2>1, <2>2
  <1>8. \A d \in Conns : \A x \in held[d] : pc'[x] = pc[x] \/ pc'[x] = "start"
    BY <1>2, <1>4
  <1>9. SentWasTaken'
    BY <1>1, <1>8 DEF SentWasTaken
  <1>10. TakenWasSent'
    BY <1>1, <1>8, TakenKept
  <1>11. RemovingIsDone'
    BY <1>1, <1>8, RemovingKept
  <1>12. /\ EachMessageOnceInOrder' /\ SentTwiceOnlyAfterFailure'
         /\ ThreadLostOnlyToFailedSend'
    BY <1>1, WireKept
  <1> QED
    BY <1>3, <1>5, <1>6, <1>7, <1>9, <1>10, <1>11, <1>12

(* A drain begins: its connection has put nothing of the message on the    *)
(* wire unless it is closed, and then nothing is sent.                     *)
LEMMA DrainStartKeeps ==
  ASSUME IInv, NEW c \in Conns, NEW m \in Messages, DrainStart(c, m)
  PROVE  IInv'
  <1> USE DEF IInv
  <1>1. /\ UNCHANGED <<q, files, fresh, writing, held>>
        /\ UNCHANGED <<link, watcher, wire, stuck>>
        /\ m \in held[c] /\ pc[m] = "start"
        /\ pc' = [pc EXCEPT ![m] = IF IsClosed(c) THEN "removing" ELSE "queued"]
        /\ read' = [read EXCEPT ![m] = 0]
        /\ taken' = [taken EXCEPT ![m] = 0]
    BY DEF DrainStart, buffer
  <1>2. \A x \in Messages : x # m => /\ pc'[x] = pc[x] /\ read'[x] = read[x]
                                     /\ taken'[x] = taken[x]
    BY <1>1 DEF TypeOK
  <1>3. /\ pc'[m] = IF link[c] = "closed" THEN "removing" ELSE "queued"
        /\ read'[m] = 0 /\ taken'[m] = 0
    BY <1>1 DEF TypeOK, IsClosed
  <1>4. TypeOK'
    <2>1. /\ pc' \in [Messages -> {"idle", "start", "queued", "reading", "read",
                                   "removing"}]
          /\ read' \in [Messages -> Nat] /\ taken' \in [Messages -> Nat]
      BY <1>1 DEF TypeOK
    <2>2. \A x \in Messages : /\ taken'[x] <= Chunks[x]
                              /\ read'[x] - taken'[x] \in 0 .. BridgeCapacity
      <3>1. 0 <= Chunks[m] /\ 0 - 0 \in 0 .. BridgeCapacity
        BY ChunksAssumption DEF BridgeCapacity
      <3> QED
        BY <1>2, <1>3, <3>1 DEF TypeOK
    <2> QED
      BY <1>1, <2>1, <2>2 DEF TypeOK
  <1>5. /\ \A d \in Conns : \A x \in held[d] : x \in Messages
        /\ \A d \in Conns : m \in held[d] => d = c
    BY <1>1 DEF TypeOK, OwnedOnce
  <1>6. \A d \in Conns : link[d] # "closed" => ~OnWire(d, m)
    BY <1>1 DEF OpenWireIsOwned, Removed, OwnedOnce
  <1>7. NoneHeldBefore' /\ OwnedOnce' /\ DrainedIsHeld' /\ QueuedAtZero'
    BY <1>1, <1>2, <1>3 DEF NoneHeldBefore, OwnedOnce, DrainedIsHeld,
                            QueuedAtZero
  <1>8. OpenWireIsOwned' /\ OpenConnectionsLoseNothing'
    <2>1. OpenWireIsOwned'
      BY <1>1, <1>2, <1>6 DEF OpenWireIsOwned, OnWire, Removed
    <2>2. OpenConnectionsLoseNothing'
      BY <1>1 DEF OpenConnectionsLoseNothing, Removed, Complete
    <2> QED
      BY <2>1, <2>2
  <1>9. SentWasTaken'
    BY <1>1, <1>2, <1>3, <1>5, <1>6 DEF SentWasTaken, OnWire
  <1>10. TakenWasSent'
    <2>1. \A d \in Conns : \A x \in held[d] :
            pc'[x] \in {"reading", "read"}
              => pc[x] \in {"reading", "read"} /\ taken'[x] = taken[x]
      BY <1>2, <1>3, <1>5
    <2> QED
      BY <1>1, <2>1, TakenKept
  <1>11. RemovingIsDone'
    <2>1. \A d \in Conns : \A x \in held[d] :
            pc'[x] = "removing" => pc[x] = "removing" \/ link[d] = "closed"
      BY <1>2, <1>3, <1>5
    <2> QED
      BY <1>1, <2>1 DEF RemovingIsDone, Complete
  <1>12. /\ EachMessageOnceInOrder' /\ SentTwiceOnlyAfterFailure'
         /\ ThreadLostOnlyToFailedSend'
    BY <1>1, WireKept
  <1> QED
    BY <1>4, <1>7, <1>8, <1>9, <1>10, <1>11, <1>12

(* The reader starts, and puts chunks and the sentinel into the bridge.    *)
LEMMA ReaderKeeps ==
  ASSUME IInv, NEW m \in Messages, ReaderStart(m) \/ ReaderPut(m)
  PROVE  IInv'
  <1> USE DEF IInv
  <1>1. /\ UNCHANGED <<q, files, fresh, writing, held>>
        /\ UNCHANGED <<link, watcher, taken, wire, stuck>>
    BY DEF ReaderStart, ReaderPut, buffer
  <1>2. /\ \A x \in Messages : x # m => pc'[x] = pc[x] /\ read'[x] = read[x]
        /\ \/ pc[m] = "queued" /\ pc'[m] = "reading" /\ read'[m] = read[m]
           \/ /\ pc[m] = "reading" /\ pc'[m] \in {"reading", "read"}
              /\ read[m] - taken[m] < BridgeCapacity /\ read'[m] = read[m] + 1
        /\ pc' \in [Messages -> {"idle", "start", "queued", "reading", "read",
                                 "removing"}]
        /\ read' \in [Messages -> Nat]
    <2>1. CASE ReaderStart(m)
      BY <2>1 DEF ReaderStart, TypeOK
    <2>2. CASE ReaderPut(m)
      BY <2>2 DEF ReaderPut, BridgeHasRoom, TypeOK
    <2> QED
      BY <2>1, <2>2
  <1>3. TypeOK'
    <2>1. \A x \in Messages : /\ taken'[x] <= Chunks[x]
                              /\ read'[x] - taken'[x] \in 0 .. BridgeCapacity
      <3>1. \A x \in Messages :
              /\ read[x] \in Nat /\ taken[x] \in Nat
              /\ read[x] - taken[x] \in 0 .. 1 /\ taken[x] <= Chunks[x]
        BY DEF TypeOK, BridgeCapacity
      <3>2. read'[m] - taken[m] \in 0 .. 1
        BY <1>2, <3>1 DEF BridgeCapacity
      <3> QED
        BY <1>1, <1>2, <3>1, <3>2 DEF BridgeCapacity
    <2> QED
      BY <1>1, <1>2, <2>1 DEF TypeOK
  <1>4. \A d \in Conns : \A x \in held[d] : x \in Messages
    BY DEF TypeOK
  <1>5. NoneHeldBefore' /\ OwnedOnce' /\ DrainedIsHeld' /\ QueuedAtZero'
    BY <1>1, <1>2 DEF NoneHeldBefore, OwnedOnce, DrainedIsHeld, QueuedAtZero
  <1>6. OpenWireIsOwned' /\ OpenConnectionsLoseNothing'
    <2>1. OpenWireIsOwned'
      BY <1>1, <1>2 DEF OpenWireIsOwned, OnWire, Removed
    <2>2. OpenConnectionsLoseNothing'
      BY <1>1 DEF OpenConnectionsLoseNothing, Removed, Complete
    <2> QED
      BY <2>1, <2>2
  <1>7. SentWasTaken'
    <2>1. \A x \in Messages :
            pc'[x] \in {"queued", "reading", "read"}
              => pc[x] \in {"queued", "reading", "read"}
      BY <1>2
    <2> QED
      BY <1>1, <1>4, <2>1 DEF SentWasTaken
  <1>8. TakenWasSent'
    <2>1. \A x \in Messages :
            pc'[x] \in {"reading", "read"}
              => pc[x] \in {"reading", "read"} \/ 1 .. taken[x] = {}
      BY <1>2 DEF QueuedAtZero
    <2> QED
      BY <1>1, <1>4, <2>1 DEF TakenWasSent
  <1>9. RemovingIsDone'
    BY <1>1, <1>2, <1>4 DEF RemovingIsDone, Complete
  <1>10. /\ EachMessageOnceInOrder' /\ SentTwiceOnlyAfterFailure'
         /\ ThreadLostOnlyToFailedSend'
    BY <1>1, WireKept
  <1> QED
    BY <1>3, <1>5, <1>6, <1>7, <1>8, <1>9, <1>10

-----------------------------------------------------------------------------
(* Steps of drain_buf that send, that finish, and that give up.            *)

(* send() returns after the sentinel: what it took was all accepted, since *)
(* neither a raw socket that is up nor a web socket drops a chunk.         *)
LEMMA SendReturnsKeeps ==
  ASSUME IInv, NEW c \in Conns, NEW m \in Messages, SendReturns(c, m)
  PROVE  IInv'
  <1> USE DEF IInv
  <1>1. /\ UNCHANGED <<q, files, fresh, writing, held>>
        /\ UNCHANGED <<link, watcher, read, taken, wire, stuck>>
        /\ m \in held[c] /\ pc[m] = "read" /\ taken[m] = Chunks[m]
        /\ link[c] = "up" \/ c \in WebSockets
        /\ pc' = [pc EXCEPT ![m] = "removing"]
    BY DEF SendReturns, SentinelIsNext, buffer
  <1>2. /\ \A x \in Messages : x # m => pc'[x] = pc[x]
        /\ pc'[m] = "removing"
        /\ pc' \in [Messages -> {"idle", "start", "queued", "reading", "read",
                                 "removing"}]
    BY <1>1 DEF TypeOK
  <1>3. /\ \A d \in Conns : \A x \in held[d] : x \in Messages
        /\ \A d \in Conns : m \in held[d] => d = c
    BY <1>1 DEF TypeOK, OwnedOnce
  <1>4. Complete(c, m)
    <2>1. Chunks[m] \in 1 .. taken[m]
      BY <1>1, ChunksAssumption
    <2> QED
      BY <1>1, <2>1 DEF TakenWasSent, Complete
  <1>5. TypeOK'
    BY <1>1, <1>2 DEF TypeOK
  <1>6. NoneHeldBefore' /\ OwnedOnce' /\ DrainedIsHeld' /\ QueuedAtZero'
    BY <1>1, <1>2 DEF NoneHeldBefore, OwnedOnce, DrainedIsHeld, QueuedAtZero
  <1>7. OpenWireIsOwned' /\ OpenConnectionsLoseNothing'
    <2>1. OpenWireIsOwned'
      BY <1>1, <1>2 DEF OpenWireIsOwned, OnWire, Removed
    <2>2. OpenConnectionsLoseNothing'
      BY <1>1 DEF OpenConnectionsLoseNothing, Removed, Complete
    <2> QED
      BY <2>1, <2>2
  <1>8. SentWasTaken'
    BY <1>1, <1>2, <1>3 DEF SentWasTaken
  <1>9. TakenWasSent'
    <2>1. \A d \in Conns : \A x \in held[d] :
            pc'[x] \in {"reading", "read"} => pc[x] \in {"reading", "read"}
      BY <1>2, <1>3
    <2> QED
      BY <1>1, <2>1, TakenKept
  <1>10. RemovingIsDone'
    <2>1. \A d \in Conns : \A x \in held[d] :
            pc'[x] = "removing" => pc[x] = "removing" \/ Complete(d, x)
      BY <1>2, <1>3, <1>4
    <2> QED
      BY <1>1, <2>1 DEF RemovingIsDone, Complete
  <1>11. /\ EachMessageOnceInOrder' /\ SentTwiceOnlyAfterFailure'
         /\ ThreadLostOnlyToFailedSend'
    BY <1>1, WireKept
  <1> QED
    BY <1>5, <1>6, <1>7, <1>8, <1>9, <1>10, <1>11

(* The chunk after those that were sent continues its message.             *)
LEMMA NextContinues ==
  ASSUME NEW s, NEW i, NEW m, NEW t \in Nat,
         s[i][1] = m, s[i][2] = t + 1, t + 1 \in 1 .. Chunks[m],
         \A j \in 1 .. i - 1 : s[j][1] = m => s[j][2] < t + 1,
         t + 1 > 1 => \E j \in 1 .. i - 1 : s[j] = <<m, t>>
  PROVE  ContinuesItsMessage(s, i)
  <1>1. s[i][2] - 1 = t
    OBVIOUS
  <1>2. s[i][2] \in 1 .. Chunks[s[i][1]]
    OBVIOUS
  <1>3. \A j \in 1 .. i - 1 : s[j][1] = s[i][1] => s[j][2] < s[i][2]
    OBVIOUS
  <1>4. s[i][2] > 1 => \E j \in 1 .. i - 1 : s[j] = <<s[i][1], s[i][2] - 1>>
    BY <1>1
  <1> QED
    BY ONLY <1>2, <1>3, <1>4 DEF ContinuesItsMessage

(* send() passes a chunk to the transport: the next one of its message, of *)
(* which the wire holds all it has taken and nothing else.                 *)
LEMMA SendChunkKeeps ==
  ASSUME IInv, NEW c \in Conns, NEW m \in Messages, SendChunk(c, m)
  PROVE  IInv'
  <1> USE DEF IInv
  <1>1. /\ UNCHANGED <<q, files, fresh, writing, held>>
        /\ UNCHANGED <<link, watcher, pc, read, stuck>>
        /\ m \in held[c] /\ pc[m] \in {"reading", "read"}
        /\ taken[m] < read[m] /\ taken[m] < Chunks[m]
        /\ link[c] = "up" \/ c \notin WebSockets
        /\ taken' = [taken EXCEPT ![m] = @ + 1]
    BY DEF SendChunk, ChunkWaits, buffer
  <1>2. /\ \A x \in Messages : x # m => taken'[x] = taken[x]
        /\ taken[m] \in Nat /\ taken'[m] = taken[m] + 1
    BY <1>1 DEF TypeOK
  <1>3. /\ \A d \in Conns : \A x \in held[d] : x \in Messages
        /\ \A d \in Conns : m \in held[d] => d = c
        /\ m \in files
    BY <1>1 DEF TypeOK, OwnedOnce
  <1>4. /\ taken' \in [Messages -> Nat]
        /\ \A x \in Messages : /\ taken'[x] <= Chunks[x]
                               /\ read'[x] - taken'[x] \in 0 .. BridgeCapacity
    <2>1. \A x \in Messages :
            /\ read[x] \in Nat /\ taken[x] \in Nat
            /\ read[x] - taken[x] \in 0 .. 1 /\ taken[x] <= Chunks[x]
            /\ Chunks[x] \in Nat
      BY ChunksAssumption DEF TypeOK, BridgeCapacity
    <2>2. taken[m] + 1 <= Chunks[m] /\ read[m] - (taken[m] + 1) \in 0 .. 1
      BY <1>1, <2>1
    <2>3. taken' \in [Messages -> Nat]
      BY <1>1, <2>1 DEF TypeOK
    <2> QED
      BY <1>1, <1>2, <2>1, <2>2, <2>3 DEF BridgeCapacity
  <1>5. NoneHeldBefore' /\ OwnedOnce' /\ DrainedIsHeld' /\ QueuedAtZero'
    BY <1>1, <1>2 DEF NoneHeldBefore, OwnedOnce, DrainedIsHeld, QueuedAtZero
  <1>6. CASE link[c] # "up"
    <2>1. wire' = wire /\ c \notin WebSockets
      BY <1>1, <1>6 DEF SendChunk
    <2>2. TypeOK'
      BY <1>1, <1>4, <2>1 DEF TypeOK
    <2>3. OpenWireIsOwned'
      BY <1>1, <2>1 DEF OpenWireIsOwned, OnWire, Removed
    <2>4. OpenConnectionsLoseNothing' /\ RemovingIsDone'
      <3>1. OpenConnectionsLoseNothing'
        BY <1>1, <2>1 DEF OpenConnectionsLoseNothing, Removed, Complete
      <3>2. RemovingIsDone'
        BY <1>1, <2>1 DEF RemovingIsDone, Complete
      <3> QED
        BY <3>1, <3>2
    <2>5. SentWasTaken'
      <3>1. \A d \in Conns : \A i \in DOMAIN wire[d] : wire[d][i][2] \in Nat
        BY DEF TypeOK
      <3> QED
        BY <1>1, <1>2, <1>3, <2>1, <3>1 DEF SentWasTaken
    <2>6. TakenWasSent'
      BY <1>1, <1>2, <1>3, <1>6, <2>1 DEF TakenWasSent
    <2>7. /\ EachMessageOnceInOrder' /\ SentTwiceOnlyAfterFailure'
          /\ ThreadLostOnlyToFailedSend'
      BY <1>1, <2>1, WireKept
    <2> QED
      BY <1>5, <2>2, <2>3, <2>4, <2>5, <2>6, <2>7
  <1>7. CASE link[c] = "up"
    <2> DEFINE n == Len(wire[c])
               chunk == <<m, taken[m] + 1>>
    <2>1. /\ wire' = [wire EXCEPT ![c] = Append(@, chunk)]
          /\ wire \in [Conns -> Seq(Messages \X Nat)]
          /\ chunk \in Messages \X Nat
      BY <1>1, <1>2, <1>7 DEF SendChunk, TypeOK
    <2>2. wire' \in [Conns -> Seq(Messages \X Nat)]
      BY <2>1
    <2>3. /\ n \in Nat
          /\ DOMAIN wire[c] = 1 .. n /\ DOMAIN wire'[c] = 1 .. n + 1
          /\ \A i \in 1 .. n : wire'[c][i] = wire[c][i]
          /\ wire'[c][n + 1] = chunk
          /\ \A d \in Conns : d # c => wire'[d] = wire[d]
          /\ \A d \in Conns : \A i \in DOMAIN wire[d] :
               wire[d][i] \in Messages \X Nat
      BY <2>1
    <2>4. \A i \in 1 .. n + 1 : i \in 1 .. n \/ i = n + 1
      BY <2>3
    <2>5. n + 1 \in 1 .. n + 1 /\ \A i \in 1 .. n : i \in 1 .. n + 1
      BY <2>3
    <2>6. chunk[1] = m /\ chunk[2] = taken[m] + 1
      OBVIOUS
    <2>7. \A d \in Conns : link[d] # "closed" /\ OnWire(d, m) => d = c
      BY <1>3 DEF OpenWireIsOwned, Removed
    <2> HIDE DEF n, chunk
    <2>8. TypeOK'
      BY <1>1, <1>4, <2>2 DEF TypeOK
    <2>9. \A d \in Conns : \A x : Complete(d, x) => Complete(d, x)'
      BY <2>3, <2>5 DEF Complete
    <2>10. \A d \in Conns : \A x :
             Complete(d, x)' => Complete(d, x) \/ (d = c /\ x = m)
      <3> SUFFICES ASSUME NEW d \in Conns, NEW x, NEW i \in DOMAIN wire'[d],
                          wire'[d][i] = <<x, Chunks[x]>>
                   PROVE  Complete(d, x) \/ (d = c /\ x = m)
        BY DEF Complete
      <3>1. CASE d = c /\ i = n + 1
        BY <2>3, <2>6, <3>1
      <3>2. CASE ~(d = c /\ i = n + 1)
        BY <2>3, <2>4, <3>2 DEF Complete
      <3> QED
        BY <3>1, <3>2
    <2>11. \A d \in Conns : \A x : OnWire(d, x)' => OnWire(d, x) \/ (d = c /\ x = m)
      BY <2>3, <2>4, <2>6 DEF OnWire
    <2>12. EachMessageOnceInOrder'
      <3> SUFFICES ASSUME NEW d \in Conns, NEW i \in DOMAIN wire'[d]
                   PROVE  ContinuesItsMessage(wire'[d], i)
        BY DEF EachMessageOnceInOrder
      <3>1. CASE d # c
        BY <2>3, <3>1 DEF EachMessageOnceInOrder
      <3>2. CASE d = c /\ i \in 1 .. n
        <4>1. \A j \in 1 .. i - 1 : j \in 1 .. n /\ wire'[c][j] = wire[c][j]
          BY <2>3, <3>2
        <4>2. ContinuesItsMessage(wire[c], i) /\ wire'[c][i] = wire[c][i]
          BY <2>3, <3>2 DEF EachMessageOnceInOrder
        <4> QED
          BY <3>2, <4>1, <4>2 DEF ContinuesItsMessage
      <3>3. CASE d = c /\ i = n + 1
        <4>1. 1 .. i - 1 = 1 .. n /\ wire'[c][i] = chunk
          BY <2>3, <3>3
        <4>2. taken[m] + 1 \in 1 .. Chunks[m]
          BY <1>1, <1>2, ChunksAssumption
        <4>3. \A j \in 1 .. n : wire'[c][j][1] = m => wire'[c][j][2] < taken[m] + 1
          <5>1. \A j \in 1 .. n : wire[c][j][2] \in Nat
            BY <2>3
          <5>2. \A j \in 1 .. n : wire[c][j][1] = m => wire[c][j][2] <= taken[m]
            BY <1>1, <2>3 DEF SentWasTaken
          <5>3. \A j \in 1 .. n : wire'[c][j] = wire[c][j]
            BY <2>3
          <5>4. \A j \in 1 .. n : wire[c][j][1] = m => wire[c][j][2] < taken[m] + 1
            BY <1>2, <5>1, <5>2
          <5> QED
            BY <5>3, <5>4
        <4>4. taken[m] + 1 > 1 => \E j \in 1 .. n : wire'[c][j] = <<m, taken[m]>>
          <5>1. taken[m] + 1 > 1 => taken[m] \in 1 .. taken[m]
            BY <1>2
          <5>2. \A k \in 1 .. taken[m] : \E j \in DOMAIN wire[c] : wire[c][j] = <<m, k>>
            BY <1>1, <1>7 DEF TakenWasSent
          <5>3. DOMAIN wire[c] = 1 .. n /\ \A j \in 1 .. n : wire'[c][j] = wire[c][j]
            BY <2>3
          <5> QED
            BY <5>1, <5>2, <5>3
        <4>5. wire'[c][i][1] = m /\ wire'[c][i][2] = taken[m] + 1
          BY <2>6, <4>1
        <4>6. ContinuesItsMessage(wire'[c], i)
          <5>1. \A j \in 1 .. i - 1 :
                  wire'[c][j][1] = m => wire'[c][j][2] < taken[m] + 1
            BY <4>1, <4>3
          <5>2. taken[m] + 1 > 1
                  => \E j \in 1 .. i - 1 : wire'[c][j] = <<m, taken[m]>>
            BY <4>1, <4>4
          <5> DEFINE s == wire'[c]
                     t == taken[m]
          <5>3. /\ t \in Nat /\ s[i][1] = m /\ s[i][2] = t + 1
                /\ t + 1 \in 1 .. Chunks[m]
                /\ \A j \in 1 .. i - 1 : s[j][1] = m => s[j][2] < t + 1
                /\ t + 1 > 1 => \E j \in 1 .. i - 1 : s[j] = <<m, t>>
            BY <1>2, <4>2, <4>5, <5>1, <5>2
          <5> HIDE DEF s, t
          <5>4. ContinuesItsMessage(s, i)
            BY ONLY <5>3, NextContinues
          <5> QED
            BY <5>4 DEF s
        <4> QED
          BY <3>3, <4>6
      <3> QED
        BY <2>3, <2>4, <3>1, <3>2, <3>3
    <2>13. OpenWireIsOwned'
      BY <1>1, <2>11 DEF OpenWireIsOwned, Removed
    <2>14. SentWasTaken'
      <3> SUFFICES ASSUME NEW d \in Conns, NEW x \in held[d],
                          pc[x] \in {"queued", "reading", "read"},
                          NEW i \in DOMAIN wire'[d], wire'[d][i][1] = x
                   PROVE  wire'[d][i][2] <= taken'[x]
        BY <1>1 DEF SentWasTaken
      <3>1. CASE d = c /\ i = n + 1
        BY <1>2, <2>3, <2>6, <3>1
      <3>2. CASE ~(d = c /\ i = n + 1)
        <4>1. i \in DOMAIN wire[d] /\ wire'[d][i] = wire[d][i]
          BY <2>3, <2>4, <3>2
        <4>2. wire[d][i][2] \in Nat /\ wire[d][i][2] <= taken[x]
          BY <2>3, <4>1 DEF SentWasTaken
        <4> QED
          BY <1>2, <1>3, <4>1, <4>2
      <3> QED
        BY <3>1, <3>2
    <2>15. TakenWasSent'
      <3> SUFFICES ASSUME NEW d \in Conns, NEW x \in held[d],
                          pc[x] \in {"reading", "read"},
                          link[d] = "up" \/ d \in WebSockets,
                          NEW k \in 1 .. taken'[x]
                   PROVE  \E i \in DOMAIN wire'[d] : wire'[d][i] = <<x, k>>
        BY <1>1 DEF TakenWasSent
      <3>1. CASE x = m /\ k = taken[m] + 1
        BY <1>3, <2>3, <2>5, <3>1 DEF chunk
      <3>2. CASE ~(x = m /\ k = taken[m] + 1)
        <4>1. k \in 1 .. taken[x]
          BY <1>2, <1>3, <3>2
        <4>2. PICK i \in DOMAIN wire[d] : wire[d][i] = <<x, k>>
          BY <4>1 DEF TakenWasSent
        <4>3. i \in DOMAIN wire'[d] /\ wire'[d][i] = wire[d][i]
          BY <2>3, <2>5
        <4> QED
          BY <4>2, <4>3
      <3> QED
        BY <3>1, <3>2
    <2>16. RemovingIsDone' /\ OpenConnectionsLoseNothing'
      BY <1>1, <2>9 DEF RemovingIsDone, OpenConnectionsLoseNothing, Removed
    <2>17. SentTwiceOnlyAfterFailure'
      <3>1. \A d \in Conns : Complete(d, m) => OnWire(d, m)
        BY DEF Complete, OnWire
      <3> QED
        BY <1>1, <2>7, <2>10, <3>1 DEF SentTwiceOnlyAfterFailure
    <2>18. ThreadLostOnlyToFailedSend'
      <3>1. \A lost \in stuck : lost[1] \in Conns /\ link[lost[1]] = "closed"
        BY DEF TypeOK, ThreadLostOnlyToFailedSend
      <3>2. \A lost \in stuck : lost[1] # c
        BY <1>7, <3>1
      <3> QED
        BY <1>1, <2>10, <3>1, <3>2 DEF ThreadLostOnlyToFailedSend
    <2> QED
      BY <1>5, <2>8, <2>12, <2>13, <2>14, <2>15, <2>16, <2>17, <2>18
  <1> QED
    BY <1>6, <1>7

(* The except branch of drain_buf, whatever became of the reader's thread: *)
(* the message is queued again, nobody drains it, and its connection is    *)
(* closed.                                                                 *)
LEMMA PutBackKeeps ==
  ASSUME IInv, NEW c \in Conns, NEW m \in Messages,
         SendRaises(c, m) \/ ReaderRaises(c, m)
  PROVE  IInv'
  <1> USE DEF IInv
  <1>1. /\ UNCHANGED <<files, fresh, writing>>
        /\ UNCHANGED <<watcher, read, taken, wire>>
        /\ m \in held[c] /\ held' = [held EXCEPT ![c] = @ \ {m}]
        /\ q' = Append(q, m)
        /\ pc' = [pc EXCEPT ![m] = "idle"]
        /\ link' = [link EXCEPT ![c] = "closed"]
    BY PutIdentEffect DEF SendRaises, ReaderRaises, PutBackAndClose
  <1>2. /\ m \notin fresh /\ m \notin writing /\ m \in files /\ m \notin ToSet(q)
        /\ \A d \in Conns : m \in held[d] => d = c
        /\ \A d \in Conns : \A x \in held[d] : x \in Messages
        /\ q \in Seq(Messages) /\ Distinct(q)
    BY <1>1 DEF TypeOK, OwnedOnce
  <1>3. /\ q' \in Seq(Messages) /\ Distinct(q')
        /\ ToSet(q') = ToSet(q) \union {m}
    BY <1>1, <1>2, Queued
  <1>4. /\ \A d \in Conns : held'[d] \subseteq held[d] /\ m \notin held'[d]
        /\ \A d \in Conns : \A x \in held[d] : x # m => x \in held'[d]
        /\ \A x \in Messages : x # m => pc'[x] = pc[x]
        /\ pc'[m] = "idle"
        /\ link'[c] = "closed" /\ \A d \in Conns : d # c => link'[d] = link[d]
    BY <1>1, <1>2 DEF TypeOK
  <1>5. /\ \A lost \in stuck' : lost \in stuck \/ lost = <<c, m>>
        /\ <<c, m>> \in stuck' => \/ <<c, m>> \in stuck
                                  \/ /\ c \in WebSockets
                                     /\ pc[m] \in {"reading", "read"}
                                     /\ taken[m] + 1 < Chunks[m]
    <2>1. CASE ReaderRaises(c, m)
      BY <2>1 DEF ReaderRaises
    <2>2. CASE SendRaises(c, m)
      <3>1. \A lost \in stuck' : lost \in stuck \/ lost = <<c, m>>
        BY <2>2 DEF SendRaises
      <3>2. ASSUME <<c, m>> \in stuck', <<c, m>> \notin stuck
            PROVE  taken[m] + 1 < Chunks[m]
        BY <2>2, <3>2 DEF SendRaises, BlocksForEver
      <3>3. taken[m] \in Nat /\ Chunks[m] \in Nat
        BY ChunksAssumption DEF TypeOK
      <3>4. ASSUME taken[m] + 1 < Chunks[m]
            PROVE  c \in WebSockets /\ pc[m] \in {"reading", "read"}
        BY <2>2, <3>3, <3>4 DEF SendRaises, ChunkWaits, SentinelIsNext
      <3> QED
        BY <3>1, <3>2, <3>4
    <2> QED
      BY <2>1, <2>2
  <1>6. TypeOK'
    <2>1. /\ held' \in [Conns -> SUBSET Messages]
          /\ link' \in [Conns -> {"none", "up", "broken", "closed"}]
          /\ pc' \in [Messages -> {"idle", "start", "queued", "reading", "read",
                                   "removing"}]
      BY <1>1 DEF TypeOK
    <2>2. stuck' \in SUBSET (Conns \X Messages)
      BY <1>5 DEF TypeOK
    <2> QED
      BY <1>1, <1>3, <2>1, <2>2 DEF TypeOK
  <1>7. NoneHeldBefore' /\ DrainedIsHeld' /\ QueuedAtZero'
    <2>1. NoneHeldBefore'
      BY <1>1, <1>4 DEF NoneHeldBefore
    <2>2. DrainedIsHeld'
      BY <1>4 DEF DrainedIsHeld
    <2>3. QueuedAtZero'
      BY <1>1, <1>4 DEF QueuedAtZero
    <2> QED
      BY <2>1, <2>2, <2>3
  <1>8. OwnedOnce'
    <2>1. \A x \in ToSet(q') : x \notin fresh /\ x \notin writing /\ x \in files
      BY <1>2, <1>3 DEF OwnedOnce
    <2>2. \A d \in Conns : \A x \in held'[d] :
            /\ x \notin fresh /\ x \notin writing /\ x \in files
            /\ x \notin ToSet(q')
            /\ \A e \in Conns : x \in held'[e] => e = d
      BY <1>3, <1>4 DEF OwnedOnce
    <2> QED
      BY <1>1, <1>3, <2>1, <2>2 DEF OwnedOnce
  <1>9. OpenWireIsOwned'
    <2>1. \A d \in Conns : d # c /\ link[d] # "closed" => ~OnWire(d, m)
      BY <1>2 DEF OpenWireIsOwned, Removed
    <2> QED
      BY <1>1, <1>4, <2>1 DEF OpenWireIsOwned, OnWire, Removed
  <1>10. SentWasTaken'
    BY <1>1, <1>2, <1>4 DEF SentWasTaken
  <1>11. TakenWasSent' /\ RemovingIsDone'
    <2>1. \A d \in Conns : /\ link'[d] = "up" => link[d] = "up"
                           /\ link[d] = "closed" => link'[d] = "closed"
      BY <1>4
    <2>2. \A d \in Conns : \A x \in held'[d] : x \in held[d] /\ pc'[x] = pc[x]
      BY <1>2, <1>4
    <2>3. wire' = wire /\ taken' = taken
      BY <1>1
    <2>4. TakenWasSent'
      BY <2>1, <2>2, <2>3, TakenKept
    <2>5. RemovingIsDone'
      BY <2>1, <2>2, <2>3, RemovingKept
    <2> QED
      BY <2>4, <2>5
  <1>12. EachMessageOnceInOrder' /\ SentTwiceOnlyAfterFailure'
    <2>1. EachMessageOnceInOrder'
      BY <1>1 DEF EachMessageOnceInOrder
    <2>2. SentTwiceOnlyAfterFailure'
      BY <1>1, <1>4 DEF SentTwiceOnlyAfterFailure, Complete
    <2> QED
      BY <2>1, <2>2
  <1>13. OpenConnectionsLoseNothing'
    BY <1>1, <1>4 DEF OpenConnectionsLoseNothing, Removed, Complete
  <1>14. ThreadLostOnlyToFailedSend'
    <2>1. \A lost \in stuck : lost[1] \in Conns
      BY DEF TypeOK
    <2>2. \A lost \in stuck :
            /\ lost[1] \in WebSockets /\ link'[lost[1]] = "closed"
            /\ Chunks[lost[2]] > 1 /\ ~Complete(lost[1], lost[2])
      BY <1>4, <2>1 DEF ThreadLostOnlyToFailedSend
    <2>3. ASSUME c \in WebSockets, pc[m] \in {"reading", "read"},
                 taken[m] + 1 < Chunks[m]
          PROVE  Chunks[m] > 1 /\ ~Complete(c, m)
      <3>1. taken[m] \in Nat /\ Chunks[m] \in Nat
        BY ChunksAssumption DEF TypeOK
      <3>2. \A i \in DOMAIN wire[c] : wire[c][i] = <<m, Chunks[m]>>
                                        => Chunks[m] <= taken[m]
        BY <1>1, <2>3 DEF SentWasTaken
      <3> QED
        BY <2>3, <3>1, <3>2 DEF Complete
    <2>4. /\ <<c, m>>[1] = c /\ <<c, m>>[2] = m
          /\ \A d, x : Complete(d, x)' <=> Complete(d, x)
      BY <1>1 DEF Complete
    <2> QED
      BY <1>4, <1>5, <2>2, <2>3, <2>4 DEF ThreadLostOnlyToFailedSend
  <1> QED
    BY <1>6, <1>7, <1>8, <1>9, <1>10, <1>11, <1>12, <1>13, <1>14

(* drain_buf removes the file of a message it has sent, or of one whose    *)
(* connection was closed.                                                  *)
LEMMA RemoveFileKeeps ==
  ASSUME IInv, NEW c \in Conns, NEW m \in Messages, RemoveFile(c, m)
  PROVE  IInv'
  <1> USE DEF IInv
  <1>1. /\ UNCHANGED <<q, fresh, writing>>
        /\ UNCHANGED <<link, watcher, read, taken, wire, stuck>>
        /\ m \in held[c] /\ held' = [held EXCEPT ![c] = @ \ {m}]
        /\ files' = files \ {m}
        /\ pc[m] = "removing" /\ pc' = [pc EXCEPT ![m] = "idle"]
    BY ReleaseEffect DEF RemoveFile
  <1>2. /\ m \notin fresh /\ m \notin writing /\ m \notin ToSet(q)
        /\ \A d \in Conns : m \in held[d] => d = c
        /\ \A d \in Conns : \A x \in held[d] : x \in Messages
        /\ Complete(c, m) \/ link[c] = "closed"
    BY <1>1 DEF TypeOK, OwnedOnce, RemovingIsDone
  <1>3. /\ \A d \in Conns : held'[d] \subseteq held[d] /\ m \notin held'[d]
        /\ \A d \in Conns : \A x \in held[d] : x # m => x \in held'[d]
        /\ \A x \in Messages : x # m => pc'[x] = pc[x]
        /\ pc'[m] = "idle"
        /\ \A x : Removed(x)' <=> Removed(x) \/ x = m
    BY <1>1, <1>2 DEF TypeOK, Removed
  <1>4. TypeOK'
    BY <1>1 DEF TypeOK
  <1>5. NoneHeldBefore' /\ DrainedIsHeld' /\ QueuedAtZero'
    <2>1. NoneHeldBefore'
      BY <1>1, <1>3 DEF NoneHeldBefore
    <2>2. DrainedIsHeld'
      BY <1>3 DEF DrainedIsHeld
    <2>3. QueuedAtZero'
      BY <1>1, <1>3 DEF QueuedAtZero
    <2> QED
      BY <2>1, <2>2, <2>3
  <1>6. OwnedOnce'
    BY <1>1, <1>2, <1>3 DEF OwnedOnce
  <1>7. OpenWireIsOwned'
    BY <1>1, <1>3 DEF OpenWireIsOwned, OnWire
  <1>8. SentWasTaken'
    BY <1>1, <1>2, <1>3 DEF SentWasTaken
  <1>9. \A d \in Conns : \A x \in held'[d] : x \in held[d] /\ pc'[x] = pc[x]
    BY <1>2, <1>3
  <1>10. TakenWasSent' /\ RemovingIsDone'
    BY <1>1, <1>9, TakenKept, RemovingKept
  <1>11. /\ EachMessageOnceInOrder' /\ SentTwiceOnlyAfterFailure'
         /\ ThreadLostOnlyToFailedSend'
    BY <1>1, WireKept
  <1>12. OpenConnectionsLoseNothing'
    BY <1>1, <1>2, <1>3 DEF OpenConnectionsLoseNothing, Complete
  <1> QED
    BY <1>4, <1>5, <1>6, <1>7, <1>8, <1>10, <1>11, <1>12

-----------------------------------------------------------------------------

(* Every step keeps the invariant.                                         *)
LEMMA NextIInv == IInv /\ [Next]_vars => IInv'
  <1> SUFFICES ASSUME IInv, [Next]_vars PROVE IInv'
    OBVIOUS
  <1>1. ASSUME NEW m \in Messages,
               PutBegin(m) \/ PutEnd(m) \/ ReaderStart(m) \/ ReaderPut(m)
        PROVE  IInv'
    BY <1>1, PutKeeps, ReaderKeeps
  <1>2. ASSUME NEW c \in Conns,
               \/ Connect(c) \/ Break(c) \/ EndOfStream(c)
               \/ Get(c) \/ Spawn(c) \/ Timeout(c) \/ Cancel(c)
        PROVE  IInv'
    BY <1>2, ConnectionKeeps, GetKeeps, SpawnKeeps
  <1>3. ASSUME NEW c \in Conns, NEW m \in Messages,
               DrainStep(c, m) \/ ReaderRaises(c, m)
        PROVE  IInv'
    BY <1>3, DrainStartKeeps, SendChunkKeeps, SendReturnsKeeps, PutBackKeeps,
       RemoveFileKeeps DEF DrainStep
  <1>4. CASE UNCHANGED vars
    <2>1. /\ UNCHANGED <<q, files, fresh, writing, held>>
          /\ UNCHANGED <<link, watcher, pc, read, taken, wire, stuck>>
      BY <1>4 DEF vars, buffer, drains
    <2>2. TypeOK' /\ OwnedOnce' /\ NoneHeldBefore'
      BY <2>1 DEF IInv, TypeOK, OwnedOnce, NoneHeldBefore
    <2>3. DrainedIsHeld' /\ QueuedAtZero' /\ SentWasTaken' /\ TakenWasSent'
      BY <2>1 DEF IInv, DrainedIsHeld, QueuedAtZero, SentWasTaken, TakenWasSent
    <2>4. OpenWireIsOwned' /\ RemovingIsDone'
      BY <2>1 DEF IInv, OpenWireIsOwned, OnWire, Removed, RemovingIsDone, Complete
    <2>5. OpenConnectionsLoseNothing'
      BY <2>1 DEF IInv, OpenConnectionsLoseNothing, Removed, Complete
    <2>6. /\ EachMessageOnceInOrder' /\ SentTwiceOnlyAfterFailure'
          /\ ThreadLostOnlyToFailedSend'
      BY <2>1, WireKept
    <2> QED
      BY <2>2, <2>3, <2>4, <2>5, <2>6 DEF IInv
  <1> QED
    BY <1>1, <1>2, <1>3, <1>4 DEF Next

(* Every reachable state satisfies the inductive invariant.                *)
LEMMA LinkInvariant == Spec => []IInv
  <1> QED
    BY InitIInv, NextIInv, PTL DEF Spec

(* The connections, the drains and the bridge queues stay well typed.      *)
THEOREM LinkTypes == Spec => []TypeOK
  <1>1. IInv => TypeOK
    BY DEF IInv
  <1> QED
    BY <1>1, LinkInvariant, PTL

(* On every connection the chunks of each message are sent in order,       *)
(* without gaps and once, however many drains interleave.                  *)
THEOREM ChunksInOrder == Spec => []EachMessageOnceInOrder
  <1>1. IInv => EachMessageOnceInOrder
    BY DEF IInv
  <1> QED
    BY <1>1, LinkInvariant, PTL

(* A second complete copy of a message costs a connection.                 *)
THEOREM CopyCostsConnection == Spec => []SentTwiceOnlyAfterFailure
  <1>1. IInv => SentTwiceOnlyAfterFailure
    BY DEF IInv
  <1> QED
    BY <1>1, LinkInvariant, PTL

(* As long as no connection closes, a removed file was sent to its end.    *)
THEOREM NothingLostWhileOpen == Spec => []OpenConnectionsLoseNothing
  <1>1. IInv => OpenConnectionsLoseNothing
    BY DEF IInv
  <1> QED
    BY <1>1, LinkInvariant, PTL

(* A thread of the pool is lost only to a long payload whose send failed.  *)
THEOREM LostThread == Spec => []ThreadLostOnlyToFailedSend
  <1>1. IInv => ThreadLostOnlyToFailedSend
    BY DEF IInv
  <1> QED
    BY <1>1, LinkInvariant, PTL
=============================================================================
