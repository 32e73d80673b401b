--------------------------- MODULE DurableBuffer ----------------------------
(***************************************************************************)
(* receptor.buffers.file.DurableBuffer: the queue of messages waiting for  *)
(* one peer.  The payload of a message is a file, the queue is in memory,  *)
(* and a background task copies the queue to a manifest file.  Messages    *)
(* are taken by the watch_queue tasks of the connections to that peer      *)
(* (the Consumers), and a task of the node sweeps expired ones.            *)
(*                                                                         *)
(* Every action is one stretch of code between two suspension points of    *)
(* the event loop, or the completion of a call in the thread pool.         *)
(*                                                                         *)
(* A definition written just before the one it differs from (Loaded...,    *)
(* Kept..., ...Keeping, ...Cleaning) is a mistake the code does not make:  *)
(* a mutant with which a property below has to fail.                       *)
(***************************************************************************)
EXTENDS Naturals, SequencesExt

CONSTANTS
  Messages,     \* one member per call of put(): the item's path is a new uuid
  Consumers,    \* connections whose watch_queue and drain_buf use the buffer
  TTL,          \* the five minutes added to the time of put()
  MaxNow,       \* bound on the clock
  MaxFaults     \* bound on failed file operations and restarts

ASSUME TTLAssumption == TTL \in Nat
ASSUME ClockAssumption == MaxNow \in Nat
ASSUME FaultAssumption == MaxFaults \in Nat
ASSUME OwnersAssumption == {"producer", "buffer", "gone"} \intersect Consumers = {}

VARIABLES
  q,            \* self.q
  files,        \* the messages whose payload file is complete on disk
  manifest,     \* the manifest file: the queue it was written from
  dirty,        \* self._manifest_dirty (_manifest_clean is its negation)
  writer,       \* manifest_writer: "idle", or "writing" with the lock held
  snapshot,     \* the queue the running write serialised
  ready,        \* self.ready
  fresh,        \* messages put() has not been called with
  writing,      \* calls of put() whose file write is in the thread pool
  held,         \* held[c]: messages get() handed to c and c still owns
  deadline,     \* item["expire_time"]
  now,          \* datetime.utcnow()
  sweeper,      \* Manifest.watch_expire, the only caller of expire_all
  faults        \* failed file operations and restarts so far

vars == <<q, files, manifest, dirty, writer, snapshot, ready, fresh, writing,
          held, deadline, now, sweeper, faults>>

Holding == UNION {held[c] : c \in Consumers}

(* is_expired: strictly later than the deadline.                           *)
Expired(m) == deadline[m] < now

Init ==
  /\ q = <<>> /\ manifest = <<>> /\ snapshot = <<>>
  /\ files = {} /\ writing = {} /\ fresh = Messages
  /\ held = [c \in Consumers |-> {}]
  /\ deadline = [m \in Messages |-> 0]
  /\ dirty = FALSE /\ ready = FALSE
  /\ writer = "idle" /\ sweeper = "alive"
  /\ now = 0 /\ faults = 0

(* _read_manifest ends in "finally: return []": whatever the manifest      *)
(* holds, and whether it can be read or not, no item is loaded.            *)
LoadedJunk == <<"junk">>
LoadedManifest == manifest
LoadedItems == <<>>

StartManifest ==
  /\ ~ready
  /\ q' = q \o LoadedItems
  /\ ready' = TRUE
  /\ UNCHANGED <<files, manifest, dirty, writer, snapshot, fresh, writing,
                 held, deadline, now, sweeper, faults>>

(* put() before and after the write in the thread pool.                    *)
PutBegin(m) ==
  /\ ready
  /\ m \in fresh
  /\ fresh' = fresh \ {m}
  /\ writing' = writing \union {m}
  /\ deadline' = [deadline EXCEPT ![m] = now + TTL]
  /\ UNCHANGED <<q, files, manifest, dirty, writer, snapshot, ready, held,
                 now, sweeper, faults>>

PutEnd(m) ==
  /\ m \in writing
  /\ writing' = writing \ {m}
  /\ files' = files \union {m}
  /\ q' = Append(q, m)
  /\ dirty' = TRUE
  /\ UNCHANGED <<manifest, writer, snapshot, ready, fresh, held, deadline,
                 now, sweeper, faults>>

(* The write raises: put() does too, and its caller still has the message  *)
(* but never calls again with it.                                          *)
PutFail(m) ==
  /\ m \in writing
  /\ faults < MaxFaults
  /\ faults' = faults + 1
  /\ writing' = writing \ {m}
  /\ UNCHANGED <<q, files, manifest, dirty, writer, snapshot, ready, fresh,
                 held, deadline, now, sweeper>>

(* get().  For an expired item expire() reads self._deferrer, an attribute *)
(* the object does not have, and the AttributeError leaves get(): the item *)
(* is off the queue and its file stays.                                    *)
Get(c) ==
  /\ ready
  /\ q # <<>>
  /\ q' = Tail(q)
  /\ dirty' = TRUE
  /\ held' = IF Expired(Head(q)) THEN held
             ELSE [held EXCEPT ![c] = @ \union {Head(q)}]
  /\ UNCHANGED <<files, manifest, writer, snapshot, ready, fresh, writing,
                 deadline, now, sweeper, faults>>

PutIdentKeeping(c, m) ==
  /\ m \in held[c]
  /\ q' = Append(q, m)
  /\ dirty' = TRUE
  /\ UNCHANGED <<files, manifest, writer, snapshot, ready, fresh, writing,
                 held, deadline, now, sweeper, faults>>

(* put_ident(): drain_buf gives back the item it could not send.           *)
PutIdent(c, m) ==
  /\ m \in held[c]
  /\ held' = [held EXCEPT ![c] = @ \ {m}]
  /\ q' = Append(q, m)
  /\ dirty' = TRUE
  /\ UNCHANGED <<files, manifest, writer, snapshot, ready, fresh, writing,
                 deadline, now, sweeper, faults>>

(* drain_buf removes the file of an item it is done with.                  *)
Release(c, m) ==
  /\ m \in held[c]
  /\ held' = [held EXCEPT ![c] = @ \ {m}]
  /\ files' = files \ {m}
  /\ UNCHANGED <<q, manifest, dirty, writer, snapshot, ready, fresh, writing,
                 deadline, now, sweeper, faults>>

(* The sweep has moved the first n items when it stops.                    *)
SweepStopsAfter(n) ==
  /\ \A i \in 1 .. n : ~Expired(q[i])
  /\ n < Len(q) => Expired(q[n + 1])

KeptReversed(s, n) == Reverse(SubSeq(s, 1, n))
KeptButLast(s, n) == SubSeq(s, 1, n - 1)
Kept(s, n) == SubSeq(s, 1, n)

(* expire_all(), with the manifest lock, in one stretch: the items move to *)
(* a new queue until expire() raises on the first expired one.  Then the   *)
(* rest of the old queue is dropped with it, dirty() is not reached, and   *)
(* the exception ends watch_expire.                                        *)
ExpireAll ==
  /\ sweeper = "alive"
  /\ writer = "idle"
  /\ \E n \in 0 .. Len(q) :
       /\ SweepStopsAfter(n)
       /\ q' = Kept(q, n)
       /\ dirty' = (dirty \/ n = Len(q))
       /\ sweeper' = IF n = Len(q) THEN "alive" ELSE "dead"
  /\ UNCHANGED <<files, manifest, writer, snapshot, ready, fresh, writing,
                 held, deadline, now, faults>>

(* manifest_writer: from the lock to the write, and after the write.       *)
WriterBegin ==
  /\ ready
  /\ dirty
  /\ writer = "idle"
  /\ writer' = "writing"
  /\ snapshot' = q
  /\ UNCHANGED <<q, files, manifest, dirty, ready, fresh, writing, held,
                 deadline, now, sweeper, faults>>

(* clean() also clears a dirty() that came while the write was running.    *)
WriterEnd ==
  /\ writer = "writing"
  /\ writer' = "idle"
  /\ manifest' = snapshot
  /\ dirty' = FALSE
  /\ snapshot' = <<>>
  /\ UNCHANGED <<q, files, ready, fresh, writing, held, deadline, now,
                 sweeper, faults>>

WriterFailCleaning ==
  /\ writer = "writing"
  /\ faults < MaxFaults
  /\ faults' = faults + 1
  /\ writer' = "idle"
  /\ snapshot' = <<>>
  /\ dirty' = FALSE
  /\ UNCHANGED <<q, files, manifest, ready, fresh, writing, held, deadline,
                 now, sweeper>>

(* The write raises, before or after open() truncated the manifest.        *)
WriterFail ==
  /\ writer = "writing"
  /\ faults < MaxFaults
  /\ faults' = faults + 1
  /\ writer' = "idle"
  /\ snapshot' = <<>>
  /\ manifest' \in {manifest, <<>>}
  /\ UNCHANGED <<q, files, dirty, ready, fresh, writing, held, deadline, now,
                 sweeper>>

Tick ==
  /\ now < MaxNow
  /\ now' = now + 1
  /\ UNCHANGED <<q, files, manifest, dirty, writer, snapshot, ready, fresh,
                 writing, held, deadline, sweeper, faults>>

(* The process stops and is started again (__init__): what was in memory   *)
(* is lost, a manifest write in progress leaves the old, an empty or the   *)
(* new file, and a put in progress may leave a complete payload file.      *)
Restart ==
  /\ faults < MaxFaults
  /\ faults' = faults + 1
  /\ q' = <<>> /\ writing' = {} /\ snapshot' = <<>>
  /\ held' = [c \in Consumers |-> {}]
  /\ ready' = FALSE /\ dirty' = FALSE
  /\ writer' = "idle" /\ sweeper' = "alive"
  /\ manifest' \in IF writer = "writing" THEN {manifest, <<>>, snapshot}
                   ELSE {manifest}
  /\ \E complete \in SUBSET writing : files' = files \union complete
  /\ UNCHANGED <<fresh, deadline, now>>

Use(c) == Get(c) \/ \E m \in Messages : PutIdent(c, m) \/ Release(c, m)

Next ==
  \/ StartManifest
  \/ \E m \in Messages : PutBegin(m) \/ PutEnd(m) \/ PutFail(m)
  \/ \E c \in Consumers : Use(c)
  \/ ExpireAll
  \/ WriterBegin \/ WriterEnd \/ WriterFail
  \/ Tick
  \/ Restart

(* The event loop runs the tasks that can run, and a call in the thread    *)
(* pool returns: start_manifest and manifest_writer make progress.  Nobody *)
(* is obliged to call put or get, or to stop the process.                  *)
Fairness ==
  /\ WF_vars(StartManifest)
  /\ WF_vars(WriterBegin)
  /\ WF_vars(WriterEnd \/ WriterFail)

Spec == Init /\ [][Next]_vars /\ Fairness

-----------------------------------------------------------------------------

(* The state of the buffer is well typed.                                  *)
TypeOK ==
  /\ q \in Seq(Messages)
  /\ manifest \in Seq(Messages) /\ snapshot \in Seq(Messages)
  /\ files \in SUBSET Messages
  /\ fresh \in SUBSET Messages /\ writing \in SUBSET Messages
  /\ held \in [Consumers -> SUBSET Messages]
  /\ deadline \in [Messages -> Nat]
  /\ now \in Nat /\ faults \in Nat
  /\ dirty \in BOOLEAN /\ ready \in BOOLEAN
  /\ writer \in {"idle", "writing"}
  /\ sweeper \in {"alive", "dead"}

(* A message has at most one owner: it is on the queue at most once, and   *)
(* it is not both on the queue and with a connection, or with two          *)
(* connections, or still being put, in any interleaving of put, get,       *)
(* put_ident, the sweep and restarts.                                      *)
NoDuplicates(s) == \A i, j \in DOMAIN s : s[i] = s[j] => i = j
OwnersDisjoint ==
  /\ fresh \intersect writing = {}
  /\ (fresh \union writing) \intersect (ToSet(q) \union Holding) = {}
  /\ ToSet(q) \intersect Holding = {}
  /\ \A c, d \in Consumers : c # d => held[c] \intersect held[d] = {}
OneOwner == NoDuplicates(q) /\ OwnersDisjoint

(* Whoever takes an item off the queue finds its payload file: drain_buf   *)
(* opens item["path"] for every item get() returned.                       *)
StoredFileExists == ToSet(q) \union Holding \subseteq files

(* While the manifest has something to record, the loss of an update by    *)
(* clean() aside, what is not yet handed over reaches the disk: a message  *)
(* queued when the writer finds the buffer dirty is in the manifest at     *)
(* some later time, or off the queue.  Failed writes leave dirty set.      *)
Recorded(m) == m \in ToSet(manifest) \/ m \notin ToSet(q)
DirtyIsRecorded ==
  \A m \in Messages :
    (dirty /\ writer = "idle" /\ m \in ToSet(q)) ~> Recorded(m)

Before(s, a, b) == \E i, j \in DOMAIN s : i < j /\ s[i] = a /\ s[j] = b

(* Two messages that stay on the queue stay in their order, through gets,  *)
(* returns of unsent items and the rebuilding of the queue by the sweep.   *)
OrderKept ==
  [][\A a, b \in ToSet(q) \intersect ToSet(q') :
       Before(q, a, b) => Before(q', a, b)]_vars

(* The complete list of the ways a message leaves the queue: a connection  *)
(* takes it; it has expired; an expired message ahead of it aborted the    *)
(* sweep; the process restarted.                                           *)
TakenBySweep(m) ==
  /\ sweeper = "alive" /\ sweeper' = "dead"
  /\ \E a \in ToSet(q) : Expired(a) /\ Before(q, a, m)
LeavesForAReason ==
  [][\A m \in ToSet(q) \ ToSet(q') :
       m \in Holding' \/ Expired(m) \/ TakenBySweep(m) \/ ~ready']_vars

(* docs/intro.rst says messages are stored until connectivity is restored, *)
(* and dropped at their timeout: a message leaves the queue only to a      *)
(* connection, or expired.  The code loses others.                         *)
StoredUntilTakenOrExpired ==
  [][\A m \in ToSet(q) \ ToSet(q') : m \in Holding' \/ Expired(m)]_vars

(* The manifest is there to be read back: get() copes with "something bad  *)
(* in the durable buffer manifest" (file.py:82-83) and docs/intro.rst says *)
(* stored messages wait for connectivity or their timeout.  A message that *)
(* the manifest records and whose payload is on disk is on the queue again *)
(* once a restarted buffer is ready.  The code loads nothing.              *)
ManifestIsReadBack ==
  [][~ready /\ ready' => ToSet(manifest) \intersect files \subseteq ToSet(q')]_vars

(* The buffer implements the abstract account of message ownership: a      *)
(* message that was delivered, expired or lost never reappears, and none   *)
(* is handed out while somebody else owns it.                              *)
OwnerOf(m) ==
  IF m \in fresh \union writing THEN "producer"
  ELSE IF m \in ToSet(q) THEN "buffer"
  ELSE IF m \in Holding THEN CHOOSE c \in Consumers : m \in held[c]
  ELSE "gone"

Custody == INSTANCE MessageCustody WITH owner <- [m \in Messages |-> OwnerOf(m)]
CustodySpec == Custody!Spec
=============================================================================
