-------------------------- MODULE ConnectionsProofs -------------------------
(***************************************************************************)
(* Proofs about Registry and Connections.  Of the registry alone, for any  *)
(* connections to any peers, any number of days, failed writes and         *)
(* recalculations under way: who writes the manifest is alone with it, the *)
(* manifest forgets no peer but for a reason, and the direct edges follow  *)
(* the connections.  Of the connections, over any transports and with any  *)
(* number of faults: what they do to the registry is what Registry says    *)
(* may be done to it, so that those results hold of it; and a connection   *)
(* is registered exactly while its Worker serves it.                       *)
(***************************************************************************)
EXTENDS Connections, TLAPS, SequenceTheorems

(* ------------------------------ the registry --------------------------- *)

Busy == {"wants", "has", "writes"}

(* Who has read the manifest to write it has read what it still says, and  *)
(* the file is truncated only while somebody writes it.                    *)
LockInv ==
  /\ \A t \in Tasks : step[t] \in {"has", "writes"} => snapshot[t] = manifest
  /\ torn => \E t \in Tasks : step[t] = "writes"

(* The lock's queue holds those who want it, each once.                    *)
QueueInv ==
  /\ \A i \in DOMAIN waiting : step[waiting[i]] = "wants"
  /\ \A i, j \in DOMAIN waiting : waiting[i] = waiting[j] => i = j
  /\ \A t \in Tasks : step[t] = "wants" => \E i \in DOMAIN waiting : waiting[i] = t

(* What a task does to the manifest fits where it is in update_connections *)
(* or remove_connection, and the list of its peer.                         *)
TaskInv ==
  /\ step[Sweep] \in Busy => how[Sweep] = "expire"
  /\ \A c \in Conns :
       /\ how[c] \in {"update", "remove"}
       /\ how[c] = "remove" => Peer[c] \in Ephemeral
       /\ step[c] # "dead" /\ (step[c] \in Busy <=> stage[c] \in {"adding", "removing"})
       /\ c \in members[Peer[c]] <=> stage[c] \in {"adding", "in", "raised"}

Inv == RegistryTypeOK /\ LockInv /\ QueueInv /\ TaskInv

-----------------------------------------------------------------------------
(* Sequences.                                                              *)

(* Who comes last in the queue, or among the recalculations.               *)
LEMMA AppendOf ==
  ASSUME NEW S, NEW s \in Seq(S), NEW x \in S
  PROVE  /\ Append(s, x) \in Seq(S) /\ Len(Append(s, x)) = Len(s) + 1 /\ Len(s) \in Nat
         /\ DOMAIN s = 1 .. Len(s) /\ DOMAIN Append(s, x) = 1 .. Len(s) + 1
         /\ \A i \in DOMAIN s : Append(s, x)[i] = s[i]
         /\ Append(s, x)[Len(s) + 1] = x
<1>1. Append(s, x) \in Seq(S) /\ Len(Append(s, x)) = Len(s) + 1
  BY AppendProperties
<1>2. Len(s) \in Nat /\ DOMAIN s = 1 .. Len(s)
  BY LenProperties
<1>3. DOMAIN Append(s, x) = 1 .. Len(s) + 1
  BY <1>1, LenProperties
<1>4. \A i \in 1 .. Len(s) : Append(s, x)[i] = s[i]
  BY AppendProperties
<1>5. Append(s, x)[Len(s) + 1] = x
  BY AppendProperties
<1> QED
  BY <1>1, <1>2, <1>3, <1>4, <1>5

(* What is left of a queue when the first has gone.                        *)
LEMMA TailOf ==
  ASSUME NEW S, NEW s \in Seq(S), s # <<>>
  PROVE  /\ Tail(s) \in Seq(S) /\ Len(s) \in Nat \ {0}
         /\ Head(s) = s[1] /\ Head(s) \in S /\ DOMAIN s = 1 .. Len(s)
         /\ DOMAIN Tail(s) = 1 .. Len(s) - 1
         /\ \A i \in DOMAIN Tail(s) : Tail(s)[i] = s[i + 1]
<1>1. Len(s) \in Nat \ {0} /\ DOMAIN s = 1 .. Len(s)
  BY EmptySeq, LenProperties
<1>2. Tail(s) \in Seq(S) /\ Len(Tail(s)) = Len(s) - 1 /\ Head(s) = s[1]
  BY HeadTailProperties
<1>3. DOMAIN Tail(s) = 1 .. Len(s) - 1
  BY <1>2, LenProperties
<1>4. \A i \in 1 .. Len(s) - 1 : Tail(s)[i] = s[i + 1]
  BY HeadTailProperties
<1>5. s[1] \in S
  BY <1>1, ElementOfSeq
<1> QED
  BY <1>1, <1>2, <1>3, <1>4, <1>5

(* The recalculations that are left when one has installed its edges.      *)
LEMMA RemoveAtOf ==
  ASSUME NEW S, NEW s \in Seq(S), NEW i \in DOMAIN s
  PROVE  /\ RemoveAt(s, i) \in Seq(S) /\ Len(RemoveAt(s, i)) = Len(s) - 1
         /\ \A k \in 1 .. Len(s) - 1 :
              RemoveAt(s, i)[k] = IF k < i THEN s[k] ELSE s[k + 1]
<1> DEFINE front == SubSeq(s, 1, i - 1)
           back == SubSeq(s, i + 1, Len(s))
<1>1. Len(s) \in Nat /\ i \in 1 .. Len(s)
  BY LenProperties
<1>2. front \in Seq(S) /\ Len(front) = i - 1
      /\ \A k \in 1 .. i - 1 : front[k] = s[k]
  BY <1>1, SubSeqProperties
<1>3. back \in Seq(S) /\ Len(back) = Len(s) - i
      /\ \A k \in 1 .. Len(s) - i : back[k] = s[i + k]
  BY <1>1, SubSeqProperties
<1>4. RemoveAt(s, i) = front \o back
  BY DEF RemoveAt
<1> HIDE DEF front, back
<1>5. front \o back \in Seq(S) /\ Len(front \o back) = Len(s) - 1
  BY <1>1, <1>2, <1>3, ConcatProperties
<1>6. ASSUME NEW k \in 1 .. Len(s) - 1
      PROVE  (front \o back)[k] = IF k < i THEN s[k] ELSE s[k + 1]
  <2>1. k \in 1 .. Len(front) + Len(back)
    BY <1>1, <1>2, <1>3
  <2>2. (front \o back)[k] = IF k <= Len(front) THEN front[k] ELSE back[k - Len(front)]
    BY ONLY <1>2, <1>3, <2>1, ConcatProperties
  <2>3. CASE k < i
    <3>1. k <= Len(front) /\ k \in 1 .. i - 1
      BY <1>1, <1>2, <2>3
    <3> QED
      BY ONLY <1>2, <2>2, <2>3, <3>1
  <2>4. CASE ~(k < i)
    <3> DEFINE j == k - Len(front)
    <3>1. ~(k <= Len(front)) /\ j \in 1 .. Len(s) - i /\ i + j = k + 1
      BY <1>1, <1>2, <2>4
    <3>2. (front \o back)[k] = back[j]
      BY ONLY <2>2, <3>1
    <3> HIDE DEF j
    <3>3. back[j] = s[i + j]
      BY ONLY <1>3, <3>1
    <3> QED
      BY ONLY <2>4, <3>1, <3>2, <3>3
  <2> QED
    BY ONLY <2>3, <2>4
<1> QED
  BY <1>4, <1>5, <1>6

-----------------------------------------------------------------------------
(* The tasks.                                                              *)

LEMMA InitInv == RegistryInit => Inv
<1> SUFFICES ASSUME RegistryInit PROVE Inv
  OBVIOUS
<1>1. RegistryTypeOK
  <2>1. waiting \in Seq(Tasks)
    BY EmptySeq DEF RegistryInit
  <2>2. reads \in Seq([near : SUBSET Peers, far : SUBSET Peers, read : BOOLEAN])
    BY EmptySeq DEF RegistryInit
  <2> QED
    BY <2>1, <2>2 DEF RegistryInit, RegistryTypeOK
<1>2. LockInv /\ QueueInv
  BY DEF RegistryInit, LockInv, QueueInv
<1>3. TaskInv
  BY SweepAssumption DEF RegistryInit, TaskInv, Busy, Tasks, Peers
<1> QED
  BY <1>1, <1>2, <1>3 DEF Inv

(* A task that has not asked for the lock goes to the end of its queue.    *)
LEMMA Enqueues ==
  ASSUME Inv, NEW t \in Tasks, NEW what \in {"update", "remove", "expire"},
         step[t] = "idle", Changes(t, what)
  PROVE  /\ QueueInv' /\ LockInv'
         /\ waiting' \in Seq(Tasks)
         /\ how' \in [Tasks -> {"update", "remove", "expire"}]
         /\ step' \in [Tasks -> {"idle", "wants", "has", "writes", "dead"}]
         /\ \A u \in Tasks : step'[u] \in {"has", "writes"} => lock = u
         /\ how'[t] = what /\ step'[t] = "wants"
         /\ \A u \in Tasks : u # t => how'[u] = how[u] /\ step'[u] = step[u]
<1>1. waiting \in Seq(Tasks) /\ step \in [Tasks -> {"idle", "wants", "has", "writes", "dead"}]
      /\ how \in [Tasks -> {"update", "remove", "expire"}]
  BY DEF Inv, RegistryTypeOK
<1>2. waiting' = Append(waiting, t) /\ step' = [step EXCEPT ![t] = "wants"]
      /\ how' = [how EXCEPT ![t] = what] /\ UNCHANGED <<snapshot, lock, manifest, torn>>
  BY DEF Changes
<1>3. /\ Append(waiting, t) \in Seq(Tasks) /\ Len(waiting) \in Nat
      /\ DOMAIN waiting = 1 .. Len(waiting)
      /\ DOMAIN Append(waiting, t) = 1 .. Len(waiting) + 1
      /\ \A i \in DOMAIN waiting : Append(waiting, t)[i] = waiting[i]
      /\ Append(waiting, t)[Len(waiting) + 1] = t
  BY <1>1, AppendOf
<1>4. \A u \in Tasks : step'[u] = IF u = t THEN "wants" ELSE step[u]
  BY <1>1, <1>2
<1>5. \A u \in Tasks : u # t => how'[u] = how[u]
  BY <1>1, <1>2
<1>6. \A i \in DOMAIN waiting : waiting[i] # t /\ waiting[i] \in Tasks
  BY <1>1, <1>3, ElementOfSeq DEF Inv, QueueInv
<1>7. QueueInv'
  <2>1. \A i \in DOMAIN waiting' : step'[waiting'[i]] = "wants"
    BY <1>2, <1>3, <1>4, <1>6 DEF Inv, QueueInv
  <2>2. \A i, j \in DOMAIN waiting' : waiting'[i] = waiting'[j] => i = j
    BY <1>2, <1>3, <1>6 DEF Inv, QueueInv
  <2>3. ASSUME NEW u \in Tasks, step'[u] = "wants"
        PROVE  \E i \in DOMAIN waiting' : waiting'[i] = u
    <3>1. CASE u = t
      BY <1>2, <1>3, <3>1
    <3>2. CASE u # t
      <4>1. PICK i \in DOMAIN waiting : waiting[i] = u
        BY <1>4, <2>3, <3>2 DEF Inv, QueueInv
      <4> QED
        BY <1>2, <1>3, <4>1
    <3> QED
      BY <3>1, <3>2
  <2> QED
    BY <2>1, <2>2, <2>3 DEF QueueInv
<1>8. LockInv'
  <2>1. torn => \E u \in Tasks : step'[u] = "writes"
    BY <1>4 DEF Inv, LockInv
  <2> QED
    BY <1>2, <1>4, <2>1 DEF Inv, LockInv
<1> QED
  BY <1>1, <1>2, <1>3, <1>4, <1>5, <1>7, <1>8 DEF Inv, RegistryTypeOK

(* update_connections() puts the connection into the list of its peer.     *)
LEMMA RegisterInv ==
  ASSUME Inv, NEW c \in Conns, Register(c)
  PROVE  Inv'
<1>1. c \in Tasks /\ Peer[c] \in Peers /\ c # Sweep
  BY SweepAssumption DEF Tasks, Peers
<1>2. stage[c] = "out" /\ step[c] = "idle"
  BY <1>1 DEF Register, Inv, TaskInv, RegistryTypeOK, Busy
<1>3. Changes(c, "update") /\ stage' = [stage EXCEPT ![c] = "adding"]
      /\ members' = [members EXCEPT ![Peer[c]] = @ \union {c}]
      /\ keys' = keys \union {Peer[c]}
      /\ UNCHANGED <<keysThen, day, routeVars, ephemeral, spoiled>>
  BY DEF Register
<1>4. /\ QueueInv' /\ LockInv'
      /\ waiting' \in Seq(Tasks)
      /\ how' \in [Tasks -> {"update", "remove", "expire"}]
      /\ step' \in [Tasks -> {"idle", "wants", "has", "writes", "dead"}]
      /\ \A u \in Tasks : step'[u] \in {"has", "writes"} => lock = u
      /\ how'[c] = "update" /\ step'[c] = "wants"
      /\ \A u \in Tasks : u # c => how'[u] = how[u] /\ step'[u] = step[u]
  BY <1>1, <1>2, <1>3, Enqueues
<1>5. UNCHANGED <<snapshot, lock, manifest, torn>>
  BY <1>3 DEF Changes
<1>6. members' \in [Peers -> SUBSET Conns]
  BY <1>1, <1>3 DEF Inv, RegistryTypeOK
<1>7. RegistryTypeOK'
  BY <1>1, <1>3, <1>4, <1>5, <1>6 DEF Inv, RegistryTypeOK, routeVars
<1>8. TaskInv'
  <2>1. step'[Sweep] \in Busy => how'[Sweep] = "expire"
    BY <1>1, <1>4 DEF Inv, TaskInv, Tasks
  <2> SUFFICES ASSUME NEW d \in Conns
      PROVE  /\ how'[d] \in {"update", "remove"}
             /\ how'[d] = "remove" => Peer[d] \in Ephemeral
             /\ step'[d] # "dead"
             /\ (step'[d] \in Busy <=> stage'[d] \in {"adding", "removing"})
             /\ d \in members'[Peer[d]] <=> stage'[d] \in {"adding", "in", "raised"}
    BY <2>1 DEF TaskInv
  <2>2. Peer[d] \in Peers /\ d \in Tasks
    BY DEF Peers, Tasks
  <2>3. CASE d = c
    BY <1>1, <1>3, <1>4, <2>3 DEF Inv, RegistryTypeOK, Busy
  <2>4. CASE d # c
    <3>1. d \in members'[Peer[d]] <=> d \in members[Peer[d]]
      BY <1>1, <1>3, <2>2, <2>4 DEF Inv, RegistryTypeOK
    <3>2. stage'[d] = stage[d]
      BY <1>3, <2>4 DEF Inv, RegistryTypeOK
    <3> QED
      BY <1>4, <2>2, <2>4, <3>1, <3>2 DEF Inv, TaskInv
  <2> QED
    BY <2>3, <2>4
<1> QED
  BY <1>4, <1>7, <1>8 DEF Inv

(* remove_connection() takes it out again.                                 *)
LEMMA UnregisterInv ==
  ASSUME Inv, NEW c \in Conns, Unregister(c)
  PROVE  Inv'
<1>1. c \in Tasks /\ Peer[c] \in Peers /\ c # Sweep
  BY SweepAssumption DEF Tasks, Peers
<1>2. stage[c] \in {"in", "raised"} /\ step[c] = "idle"
  BY <1>1 DEF Unregister, Inv, TaskInv, RegistryTypeOK, Busy
<1>3. PICK what \in {"update", "remove"} :
        Changes(c, what) /\ (what = "remove" => Peer[c] \in ephemeral)
  BY DEF Unregister
<1>4. stage' = [stage EXCEPT ![c] = "removing"]
      /\ members' = [members EXCEPT ![Peer[c]] = @ \ {c}]
      /\ keysThen' = [keysThen EXCEPT ![c] = keys]
      /\ UNCHANGED <<keys, day, routeVars, ephemeral, spoiled>>
  BY DEF Unregister
<1>5. /\ QueueInv' /\ LockInv'
      /\ waiting' \in Seq(Tasks)
      /\ how' \in [Tasks -> {"update", "remove", "expire"}]
      /\ step' \in [Tasks -> {"idle", "wants", "has", "writes", "dead"}]
      /\ \A u \in Tasks : step'[u] \in {"has", "writes"} => lock = u
      /\ how'[c] = what /\ step'[c] = "wants"
      /\ \A u \in Tasks : u # c => how'[u] = how[u] /\ step'[u] = step[u]
  BY <1>1, <1>2, <1>3, Enqueues
<1>6. UNCHANGED <<snapshot, lock, manifest, torn>>
  BY <1>3 DEF Changes
<1>7. members' \in [Peers -> SUBSET Conns] /\ keysThen' \in [Conns -> SUBSET Peers]
  BY <1>1, <1>4 DEF Inv, RegistryTypeOK
<1>8. RegistryTypeOK'
  BY <1>1, <1>4, <1>5, <1>6, <1>7 DEF Inv, RegistryTypeOK, routeVars
<1>9. what = "remove" => Peer[c] \in Ephemeral
  BY <1>3 DEF Inv, RegistryTypeOK
<1>10. TaskInv'
  <2>1. step'[Sweep] \in Busy => how'[Sweep] = "expire"
    BY <1>1, <1>5 DEF Inv, TaskInv, Tasks
  <2> SUFFICES ASSUME NEW d \in Conns
      PROVE  /\ how'[d] \in {"update", "remove"}
             /\ how'[d] = "remove" => Peer[d] \in Ephemeral
             /\ step'[d] # "dead"
             /\ (step'[d] \in Busy <=> stage'[d] \in {"adding", "removing"})
             /\ d \in members'[Peer[d]] <=> stage'[d] \in {"adding", "in", "raised"}
    BY <2>1 DEF TaskInv
  <2>2. Peer[d] \in Peers /\ d \in Tasks
    BY DEF Peers, Tasks
  <2>3. CASE d = c
    BY <1>1, <1>4, <1>5, <1>9, <2>3 DEF Inv, RegistryTypeOK, Busy
  <2>4. CASE d # c
    <3>1. d \in members'[Peer[d]] <=> d \in members[Peer[d]]
      BY <1>1, <1>4, <2>2, <2>4 DEF Inv, RegistryTypeOK
    <3>2. stage'[d] = stage[d]
      BY <1>4, <2>4 DEF Inv, RegistryTypeOK
    <3> QED
      BY <1>5, <2>2, <2>4, <3>1, <3>2 DEF Inv, TaskInv
  <2> QED
    BY <2>3, <2>4
<1> QED
  BY <1>5, <1>8, <1>10 DEF Inv

(* What is written is a manifest.                                          *)
LEMMA NewContentsType ==
  ASSUME Inv, NEW t \in Tasks, step[t] \in Busy
  PROVE  NewContents(t) \in SUBSET Entries
<1>1. snapshot[t] \in SUBSET Entries /\ day \in Nat
  BY DEF Inv, RegistryTypeOK
<1>2. CASE t = Sweep
  <2>1. how[t] = "expire"
    BY <1>2 DEF Inv, TaskInv
  <2> QED
    BY <1>1, <2>1 DEF NewContents
<1>3. CASE t \in Conns
  <2>1. how[t] \in {"update", "remove"} /\ Peer[t] \in Peers
    BY <1>3 DEF Inv, TaskInv, Peers
  <2>2. Without(Peer[t], snapshot[t]) \subseteq Entries
    BY <1>1 DEF Without
  <2>3. [id |-> Peer[t], last |-> day] \in Entries
    BY <1>1, <2>1 DEF Entries
  <2> QED
    BY <2>1, <2>2, <2>3 DEF NewContents
<1> QED
  BY <1>2, <1>3 DEF Tasks

(* A step within an update of the manifest: the lists of connections and   *)
(* what the tasks are at stay.                                             *)
LEMMA StepsInside ==
  ASSUME TaskInv, NEW t \in Tasks, step[t] \in Busy,
         step \in [Tasks -> {"idle", "wants", "has", "writes", "dead"}],
         NEW where \in Busy, step' = [step EXCEPT ![t] = where],
         UNCHANGED <<how, members, stage>>
  PROVE  TaskInv'
<1>1. \A u \in Tasks : step'[u] = IF u = t THEN where ELSE step[u]
  OBVIOUS
<1>2. \A u \in Tasks : (step'[u] \in Busy <=> step[u] \in Busy)
                       /\ (step'[u] = "dead" <=> step[u] = "dead")
  BY <1>1 DEF Busy
<1> QED
  BY <1>2 DEF TaskInv, Tasks

(* The first in the queue gets the lock.                                   *)
LEMMA AcquireInv ==
  ASSUME Inv, NEW t \in Tasks, Acquire(t)
  PROVE  Inv'
<1>1. waiting \in Seq(Tasks) /\ waiting # <<>> /\ t = Head(waiting) /\ lock = Nobody
      /\ step \in [Tasks -> {"idle", "wants", "has", "writes", "dead"}]
      /\ snapshot \in [Tasks -> SUBSET Entries]
  BY DEF Inv, RegistryTypeOK, Acquire, IsUnlocked
<1>2. /\ Tail(waiting) \in Seq(Tasks) /\ Len(waiting) \in Nat \ {0}
      /\ Head(waiting) = waiting[1] /\ DOMAIN waiting = 1 .. Len(waiting)
      /\ DOMAIN Tail(waiting) = 1 .. Len(waiting) - 1
      /\ \A i \in DOMAIN Tail(waiting) : Tail(waiting)[i] = waiting[i + 1]
  BY <1>1, TailOf
<1>3. step[t] = "wants" /\ waiting[1] = t
  BY <1>1, <1>2 DEF Inv, QueueInv
<1>4. step' = [step EXCEPT ![t] = "has"] /\ lock' = t /\ waiting' = Tail(waiting)
      /\ snapshot' = [snapshot EXCEPT ![t] = Contents]
      /\ UNCHANGED <<listVars, how, manifest, torn, day, routeVars, ephemeral, spoiled>>
  BY DEF Acquire
<1>5. \A u \in Tasks : step'[u] = IF u = t THEN "has" ELSE step[u]
  BY <1>1, <1>4
<1>6. \A u \in Tasks : step[u] \notin {"has", "writes"}
  BY <1>1, SweepAssumption DEF Inv, RegistryTypeOK, Tasks
<1>7. torn = FALSE
  BY <1>6 DEF Inv, LockInv, RegistryTypeOK
<1>8. Contents = manifest
  BY <1>7 DEF Contents
<1>9. RegistryTypeOK'
  <2>1. step' \in [Tasks -> {"idle", "wants", "has", "writes", "dead"}]
    BY <1>1, <1>4
  <2>2. snapshot' \in [Tasks -> SUBSET Entries]
    BY <1>1, <1>4, <1>8 DEF Inv, RegistryTypeOK
  <2>3. \A u \in Tasks : step'[u] \in {"has", "writes"} => lock' = u
    BY <1>4, <1>5, <1>6
  <2> QED
    BY <1>2, <1>4, <2>1, <2>2, <2>3 DEF Inv, RegistryTypeOK, listVars, routeVars
<1>10. LockInv'
  <2>1. \A u \in Tasks : step'[u] \in {"has", "writes"} => u = t
    BY <1>5, <1>6
  <2>2. snapshot'[t] = manifest
    BY <1>1, <1>4, <1>8
  <2> QED
    BY <1>4, <1>7, <2>1, <2>2 DEF LockInv
<1>11. QueueInv'
  <2>1. \A i \in DOMAIN waiting' : i + 1 \in DOMAIN waiting /\ waiting'[i] = waiting[i + 1]
                                   /\ waiting[i + 1] # t /\ waiting[i + 1] \in Tasks
    <3> SUFFICES ASSUME NEW i \in 1 .. Len(waiting) - 1
                 PROVE  i + 1 \in DOMAIN waiting /\ waiting'[i] = waiting[i + 1]
                        /\ waiting[i + 1] # t /\ waiting[i + 1] \in Tasks
      BY <1>2, <1>4
    <3>1. i + 1 \in DOMAIN waiting /\ i + 1 # 1 /\ 1 \in DOMAIN waiting
      BY <1>2
    <3>2. waiting[i + 1] # t
      BY <1>3, <3>1 DEF Inv, QueueInv
    <3>3. waiting[i + 1] \in Tasks
      BY <1>1, <1>2, <3>1, ElementOfSeq
    <3> QED
      BY <1>2, <1>4, <3>1, <3>2, <3>3
  <2>2. \A i \in DOMAIN waiting' : step'[waiting'[i]] = "wants"
    BY <1>5, <2>1 DEF Inv, QueueInv
  <2>3. \A i, j \in DOMAIN waiting' : waiting'[i] = waiting'[j] => i = j
    BY <1>2, <1>4, <2>1 DEF Inv, QueueInv
  <2>4. ASSUME NEW u \in Tasks, step'[u] = "wants"
        PROVE  \E i \in DOMAIN waiting' : waiting'[i] = u
    <3>1. u # t /\ step[u] = "wants"
      BY <1>5, <2>4
    <3>2. PICK k \in DOMAIN waiting : waiting[k] = u
      BY <3>1 DEF Inv, QueueInv
    <3>3. k \in 2 .. Len(waiting)
      BY <1>2, <1>3, <3>1, <3>2
    <3>4. k - 1 \in DOMAIN waiting' /\ waiting'[k - 1] = waiting[k]
      BY <1>2, <1>4, <3>3
    <3> QED
      BY <3>2, <3>4
  <2> QED
    BY <2>2, <2>3, <2>4 DEF QueueInv
<1>12. TaskInv'
  BY <1>1, <1>3, <1>4, StepsInside DEF Inv, Busy, listVars
<1> QED
  BY <1>9, <1>10, <1>11, <1>12 DEF Inv

(* The queue does not mind a task that neither leaves nor joins it.        *)
LEMMA QueueStays ==
  ASSUME Inv, NEW t \in Tasks, step[t] # "wants", NEW where, where # "wants",
         step' = [step EXCEPT ![t] = where], UNCHANGED waiting
  PROVE  QueueInv'
<1>1. waiting \in Seq(Tasks) /\ step \in [Tasks -> {"idle", "wants", "has", "writes", "dead"}]
  BY DEF Inv, RegistryTypeOK
<1>2. \A i \in DOMAIN waiting : waiting[i] \in Tasks /\ waiting[i] # t
  BY <1>1, LenProperties, ElementOfSeq DEF Inv, QueueInv
<1>3. \A u \in Tasks : step'[u] = IF u = t THEN where ELSE step[u]
  BY <1>1
<1> QED
  BY <1>2, <1>3 DEF Inv, QueueInv

LEMMA WriteBeginsInv ==
  ASSUME Inv, NEW t \in Tasks, WriteBegins(t)
  PROVE  Inv'
<1>1. step[t] = "has" /\ step' = [step EXCEPT ![t] = "writes"] /\ torn' = TRUE
      /\ UNCHANGED <<listVars, how, snapshot, lock, waiting, manifest>>
      /\ UNCHANGED <<day, routeVars, ephemeral, spoiled>>
  BY DEF WriteBegins
<1>2. step \in [Tasks -> {"idle", "wants", "has", "writes", "dead"}]
  BY DEF Inv, RegistryTypeOK
<1>3. \A u \in Tasks : step'[u] = IF u = t THEN "writes" ELSE step[u]
  BY <1>1, <1>2
<1>4. RegistryTypeOK'
  <2>1. step' \in [Tasks -> {"idle", "wants", "has", "writes", "dead"}]
    BY <1>1, <1>2
  <2>2. \A u \in Tasks : step'[u] \in {"has", "writes"} => lock' = u
    BY <1>1, <1>3 DEF Inv, RegistryTypeOK
  <2> QED
    BY <1>1, <2>1, <2>2 DEF Inv, RegistryTypeOK, listVars, routeVars
<1>5. LockInv'
  BY <1>1, <1>3 DEF Inv, LockInv
<1>6. QueueInv'
  BY <1>1, QueueStays
<1>7. TaskInv'
  BY <1>1, <1>2, StepsInside DEF Inv, Busy, listVars
<1> QED
  BY <1>4, <1>5, <1>6, <1>7 DEF Inv

LEMMA WatchExpireInv ==
  ASSUME Inv, WatchExpire
  PROVE  Inv'
<1>1. Sweep \in Tasks /\ Sweep \notin Conns
  BY SweepAssumption DEF Tasks
<1>2. step[Sweep] = "idle" /\ Changes(Sweep, "expire")
      /\ UNCHANGED <<listVars, day, routeVars, ephemeral, spoiled>>
  BY DEF WatchExpire, Wakes
<1>3. /\ QueueInv' /\ LockInv'
      /\ waiting' \in Seq(Tasks)
      /\ how' \in [Tasks -> {"update", "remove", "expire"}]
      /\ step' \in [Tasks -> {"idle", "wants", "has", "writes", "dead"}]
      /\ \A u \in Tasks : step'[u] \in {"has", "writes"} => lock = u
      /\ how'[Sweep] = "expire" /\ step'[Sweep] = "wants"
      /\ \A u \in Tasks : u # Sweep => how'[u] = how[u] /\ step'[u] = step[u]
  BY <1>1, <1>2, Enqueues
<1>4. UNCHANGED <<snapshot, lock, manifest, torn>>
  BY <1>2 DEF Changes
<1>5. RegistryTypeOK'
  BY <1>2, <1>3, <1>4 DEF Inv, RegistryTypeOK, listVars, routeVars
<1>6. TaskInv'
  BY <1>1, <1>2, <1>3 DEF Inv, TaskInv, Tasks, listVars
<1> QED
  BY <1>3, <1>5, <1>6 DEF Inv

(* Whoever releases the lock was alone with the file.                      *)
LEMMA Releases ==
  ASSUME Inv, NEW t \in Tasks, step[t] \in {"has", "writes"},
         NEW where \in {"idle", "dead"}, step' = [step EXCEPT ![t] = where],
         ~torn', UNCHANGED waiting
  PROVE  /\ LockInv' /\ QueueInv'
         /\ step' \in [Tasks -> {"idle", "wants", "has", "writes", "dead"}]
         /\ \A u \in Tasks : step'[u] \notin {"has", "writes"}
         /\ \A u \in Tasks : step'[u] = IF u = t THEN where ELSE step[u]
<1>1. step \in [Tasks -> {"idle", "wants", "has", "writes", "dead"}]
  BY DEF Inv, RegistryTypeOK
<1>2. \A u \in Tasks : step'[u] = IF u = t THEN where ELSE step[u]
  BY <1>1
<1>3. \A u \in Tasks : step[u] \in {"has", "writes"} => u = t
  BY DEF Inv, RegistryTypeOK
<1>4. \A u \in Tasks : step'[u] \notin {"has", "writes"}
  BY <1>2, <1>3
<1>5. QueueInv'
  BY QueueStays
<1> QED
  BY <1>1, <1>2, <1>4, <1>5 DEF LockInv

LEMMA NothingExpiredInv ==
  ASSUME Inv, NothingExpired
  PROVE  Inv'
<1>1. Sweep \in Tasks /\ Sweep \notin Conns
  BY SweepAssumption DEF Tasks
<1>2. step[Sweep] = "has" /\ step' = [step EXCEPT ![Sweep] = "idle"]
      /\ UNCHANGED <<listVars, how, snapshot, waiting, manifest, torn>>
      /\ UNCHANGED <<day, routeVars, ephemeral, spoiled>>
  BY DEF NothingExpired
<1>3. ~torn'
  <2>1. \A u \in Tasks : step[u] # "writes"
    BY <1>1, <1>2 DEF Inv, RegistryTypeOK
  <2> QED
    BY <1>2, <2>1 DEF Inv, LockInv
<1>4. /\ LockInv' /\ QueueInv'
      /\ step' \in [Tasks -> {"idle", "wants", "has", "writes", "dead"}]
      /\ \A u \in Tasks : step'[u] \notin {"has", "writes"}
      /\ \A u \in Tasks : step'[u] = IF u = Sweep THEN "idle" ELSE step[u]
  BY <1>1, <1>2, <1>3, Releases
<1>5. RegistryTypeOK'
  BY <1>2, <1>4 DEF Inv, RegistryTypeOK, listVars, routeVars
<1>6. TaskInv'
  BY <1>1, <1>2, <1>4 DEF Inv, TaskInv, Tasks, Busy, listVars
<1> QED
  BY <1>4, <1>5, <1>6 DEF Inv

(* What follows a write, or its failure, for the connection it was for.    *)
LEMMA ProceedsInv ==
  ASSUME Inv, NEW t \in Tasks, step[t] \in {"has", "writes"},
         NEW added \in {"in", "raised"}, Proceeds(t, added),
         NEW where \in {"idle", "dead"}, step' = [step EXCEPT ![t] = where],
         where = "dead" => t = Sweep, torn' = FALSE,
         manifest' \in SUBSET Entries, timer' \in BOOLEAN,
         ephemeral' \subseteq ephemeral, spoiled' \subseteq spoiled \union {"failed"}
  PROVE  Inv'
<1>1. /\ LockInv' /\ QueueInv'
      /\ step' \in [Tasks -> {"idle", "wants", "has", "writes", "dead"}]
      /\ \A u \in Tasks : step'[u] \notin {"has", "writes"}
      /\ \A u \in Tasks : step'[u] = IF u = t THEN where ELSE step[u]
  BY Releases DEF Proceeds
<1>2. stage' = [c \in Conns |->
        IF c # t THEN stage[c] ELSE IF stage[c] = "adding" THEN added ELSE "removed"]
      /\ UNCHANGED <<members, keys, keysThen, how, snapshot, waiting, day, reads, edges>>
  BY DEF Proceeds
<1>3. stage' \in [Conns -> {"out", "adding", "in", "raised", "removing", "removed"}]
  BY <1>2 DEF Inv, RegistryTypeOK
<1>5. TaskInv'
  <2>1. step'[Sweep] \in Busy => how'[Sweep] = "expire"
    BY <1>1, <1>2 DEF Inv, TaskInv, Tasks, Busy
  <2>2. \A c \in Conns :
          /\ step'[c] # "dead" /\ (step'[c] \in Busy <=> stage'[c] \in {"adding", "removing"})
          /\ c \in members'[Peer[c]] <=> stage'[c] \in {"adding", "in", "raised"}
    <3> SUFFICES ASSUME NEW c \in Conns
        PROVE  /\ step'[c] # "dead"
               /\ (step'[c] \in Busy <=> stage'[c] \in {"adding", "removing"})
               /\ c \in members'[Peer[c]] <=> stage'[c] \in {"adding", "in", "raised"}
      OBVIOUS
    <3>1. c \in Tasks /\ c # Sweep
      BY SweepAssumption DEF Tasks
    <3>2. CASE c = t
      <4>1. stage[c] \in {"adding", "removing"}
        BY <3>2 DEF Inv, TaskInv, Busy
      <4>2. where = "idle" /\ step'[c] = "idle"
        BY <1>1, <3>1, <3>2
      <4>3. stage'[c] = IF stage[c] = "adding" THEN added ELSE "removed"
        BY <1>2, <3>2
      <4> QED
        BY <1>2, <4>1, <4>2, <4>3 DEF Inv, TaskInv, Busy
    <3>3. CASE c # t
      BY <1>1, <1>2, <3>1, <3>3 DEF Inv, TaskInv
    <3> QED
      BY <3>2, <3>3
  <2> QED
    BY <1>2, <2>1, <2>2 DEF Inv, TaskInv
<1>6. RegistryTypeOK'
  BY <1>1, <1>2, <1>3 DEF Inv, RegistryTypeOK
<1> QED
  BY <1>1, <1>5, <1>6 DEF Inv

LEMMA WriteEndsInv ==
  ASSUME Inv, NEW t \in Tasks, WriteEnds(t)
  PROVE  Inv'
<1>1. step[t] = "writes" /\ step' = [step EXCEPT ![t] = "idle"] /\ torn' = FALSE
      /\ manifest' = NewContents(t) /\ Proceeds(t, "in")
  BY DEF WriteEnds
<1>2. NewContents(t) \in SUBSET Entries
  BY <1>1, NewContentsType DEF Busy
<1>3. timer' \in BOOLEAN /\ ephemeral' \subseteq ephemeral /\ spoiled' \subseteq spoiled
  BY DEF WriteEnds, WakesSender, Inv, RegistryTypeOK
<1> QED
  BY <1>1, <1>2, <1>3, ProceedsInv

LEMMA WriteFailsInv ==
  ASSUME Inv, NEW t \in Tasks, WriteFails(t)
  PROVE  Inv'
<1>1. step[t] \in {"has", "writes"} /\ torn' = FALSE /\ Proceeds(t, "raised")
      /\ step' = [step EXCEPT ![t] = IF t = Sweep THEN "dead" ELSE "idle"]
      /\ spoiled' = spoiled \union {"failed"} /\ UNCHANGED <<timer, ephemeral>>
  BY DEF WriteFails
<1>2. manifest' \in SUBSET Entries
  BY DEF WriteFails, Inv, RegistryTypeOK
<1>3. timer' \in BOOLEAN
  BY <1>1 DEF Inv, RegistryTypeOK
<1>4. CASE t = Sweep
  BY <1>1, <1>2, <1>3, <1>4, ProceedsInv
<1>5. CASE t # Sweep
  BY <1>1, <1>2, <1>3, <1>5, ProceedsInv
<1> QED
  BY <1>4, <1>5

ReadTypes == [near : SUBSET Peers, far : SUBSET Peers, read : BOOLEAN]

(* Recalculations change nothing but what is installed.                    *)
LEMMA RoutingInv ==
  ASSUME Inv, Routing \/ \E p \in Peers : Hear(p)
  PROVE  Inv'
<1>1. UNCHANGED <<listVars, fileVars, day>>
  BY DEF Routing, Check, Hear, ReadManifest, Install
<1>2. LockInv' /\ QueueInv' /\ TaskInv'
  BY <1>1 DEF Inv, LockInv, QueueInv, TaskInv, listVars, fileVars
<1>3. reads \in Seq(ReadTypes)
  BY DEF Inv, RegistryTypeOK, ReadTypes
<1>4. Collected \in Seq(ReadTypes)
  <2>1. [near |-> Connected, far |-> {}, read |-> FALSE] \in ReadTypes
    BY DEF ReadTypes, Connected
  <2> QED
    BY <1>3, <2>1, AppendOf DEF Collected
<1>5. timer' \in BOOLEAN
  BY DEF Routing, Check, Hear, ReadManifest, Install, Inv, RegistryTypeOK
<1>6. ephemeral' \subseteq Ephemeral /\ spoiled' \subseteq {"failed", "torn", "overtaken"}
  BY DEF Routing, Check, Hear, ReadManifest, Install, Inv, RegistryTypeOK
<1>7. reads' \in Seq(ReadTypes) /\ edges' \in [near : SUBSET Peers, far : SUBSET Peers]
  <2>1. CASE Check \/ \E p \in Peers : Hear(p)
    BY <1>4, <2>1 DEF Check, Hear, Inv, RegistryTypeOK
  <2>2. ASSUME NEW i \in DOMAIN reads, ReadManifest(i)
        PROVE  reads' \in Seq(ReadTypes) /\ edges' \in [near : SUBSET Peers, far : SUBSET Peers]
    <3>1. i \in 1 .. Len(reads) /\ Len(reads) \in Nat
      BY <1>3, LenProperties
    <3>2. reads[i] \in ReadTypes
      BY <1>3, <3>1, ElementOfSeq
    <3>3. Ids(Contents) \subseteq Peers
      BY DEF Contents, Ids, Inv, RegistryTypeOK, Entries
    <3>4. reads' = [reads EXCEPT ![i] = [near |-> reads[i].near, far |-> Ids(Contents), read |-> TRUE]]
      BY <2>2, <3>2 DEF ReadManifest, ReadTypes
    <3>5. [near |-> reads[i].near, far |-> Ids(Contents), read |-> TRUE] \in ReadTypes
      BY <3>2, <3>3 DEF ReadTypes
    <3>6. reads' \in Seq(ReadTypes)
      BY <1>3, <3>1, <3>4, <3>5, ExceptSeq
    <3> QED
      BY <2>2, <3>6 DEF ReadManifest, Inv, RegistryTypeOK
  <2>3. ASSUME NEW i \in DOMAIN reads, Install(i)
        PROVE  reads' \in Seq(ReadTypes) /\ edges' \in [near : SUBSET Peers, far : SUBSET Peers]
    <3>1. reads[i] \in ReadTypes
      BY <1>3, LenProperties, ElementOfSeq
    <3>2. reads' \in Seq(ReadTypes)
      BY <1>3, <2>3, RemoveAtOf DEF Install
    <3> QED
      BY <2>3, <3>1, <3>2 DEF Install, ReadTypes
  <2> QED
    BY <2>1, <2>2, <2>3 DEF Routing
<1>8. RegistryTypeOK'
  BY <1>1, <1>5, <1>6, <1>7 DEF Inv, RegistryTypeOK, ReadTypes, listVars, fileVars
<1> QED
  BY <1>2, <1>8 DEF Inv

LEMMA NextInv == Inv /\ [RegistryNext]_registryVars => Inv'
<1> SUFFICES ASSUME Inv, [RegistryNext]_registryVars PROVE Inv'
  OBVIOUS
<1>1. CASE UNCHANGED registryVars
  BY <1>1 DEF Inv, RegistryTypeOK, LockInv, QueueInv, TaskInv,
     registryVars, listVars, fileVars, routeVars
<1>2. CASE NextDay
  BY <1>2 DEF NextDay, Inv, RegistryTypeOK, LockInv, QueueInv, TaskInv,
     listVars, fileVars, routeVars
<1> QED
  BY <1>1, <1>2, RegisterInv, UnregisterInv, AcquireInv, WriteBeginsInv, WriteEndsInv,
     NothingExpiredInv, WatchExpireInv, WriteFailsInv, RoutingInv DEF RegistryNext, Filing

(* Who has read the manifest to change it holds its lock, alone.           *)
THEOREM RegistryTypes == RegistrySpec => []RegistryTypeOK
<1>1. Inv => RegistryTypeOK
  BY DEF Inv
<1> QED
  BY <1>1, InitInv, NextInv, PTL DEF RegistrySpec

-----------------------------------------------------------------------------
(* The manifest.                                                           *)

(* A step that takes a peer out of the manifest has a reason to.           *)
KeepsPeers ==
  \A e \in manifest : e.id \notin Ids(manifest') =>
    \/ e.last < day \/ e.id \in Ephemeral \/ "failed" \in spoiled'

(* Writing what was read, changed for one peer, forgets no other.          *)
LEMMA WriteKeepsPeers ==
  ASSUME Inv, NEW t \in Tasks, WriteEnds(t)
  PROVE  KeepsPeers
<1> SUFFICES ASSUME NEW e \in manifest, e.id \notin Ids(manifest'),
                    e.id \notin Ephemeral
             PROVE  e.last < day
  BY DEF KeepsPeers
<1>1. manifest' = NewContents(t) /\ snapshot[t] = manifest /\ step[t] = "writes"
  BY DEF WriteEnds, Inv, LockInv
<1>2. e \notin NewContents(t)
  BY <1>1 DEF Ids
<1>3. e.last \in Nat /\ day \in Nat
  BY DEF Inv, RegistryTypeOK, Entries
<1>4. CASE t = Sweep
  <2>1. how[t] = "expire"
    BY <1>1, <1>4 DEF Inv, TaskInv, Busy
  <2> QED
    BY <1>1, <1>2, <1>3, <2>1 DEF NewContents
<1>5. CASE t \in Conns /\ how[t] = "update"
  <2>1. e.id = Peer[t]
    BY <1>1, <1>2, <1>5 DEF NewContents, Without
  <2>2. [id |-> Peer[t], last |-> day] \in manifest'
    BY <1>1, <1>5 DEF NewContents
  <2> QED
    BY <2>1, <2>2 DEF Ids
<1>6. CASE t \in Conns /\ how[t] = "remove"
  <2>1. e.id = Peer[t] /\ Peer[t] \in Ephemeral
    BY <1>1, <1>2, <1>6 DEF NewContents, Without, Inv, TaskInv
  <2> QED
    BY <2>1
<1> QED
  BY <1>4, <1>5, <1>6 DEF Tasks, Inv, TaskInv

LEMMA NextKeepsPeers == Inv /\ [RegistryNext]_registryVars => [KeepsPeers]_registryVars
<1> SUFFICES ASSUME Inv, RegistryNext PROVE KeepsPeers
  OBVIOUS
<1>1. manifest' = manifest => KeepsPeers
  BY DEF KeepsPeers, Ids
<1>2. ASSUME NEW t \in Tasks, WriteFails(t) PROVE KeepsPeers
  BY <1>2 DEF WriteFails, KeepsPeers
<1>3. ASSUME NEW t \in Tasks, Acquire(t) \/ WriteBegins(t) PROVE manifest' = manifest
  BY <1>3 DEF Acquire, WriteBegins
<1>4. ASSUME NEW c \in Conns, Register(c) \/ Unregister(c) PROVE manifest' = manifest
  BY <1>4 DEF Register, Unregister, Changes
<1>5. NothingExpired \/ WatchExpire \/ NextDay => manifest' = manifest
  BY DEF NothingExpired, WatchExpire, Changes, NextDay, fileVars
<1>6. Routing \/ (\E p \in Peers : Hear(p)) => manifest' = manifest
  BY DEF Routing, Check, ReadManifest, Install, Hear, fileVars
<1> QED
  BY <1>1, <1>2, <1>3, <1>4, <1>5, <1>6, WriteKeepsPeers DEF RegistryNext, Filing

(* However the connections' updates and the sweep interleave, a peer stays *)
(* in the manifest until nothing was heard of it for a day, it was         *)
(* ephemeral, or a write failed.                                           *)
THEOREM ManifestKeepsPeers == RegistrySpec => ManifestRemembers
<1>1. ManifestRemembers <=> [][KeepsPeers]_registryVars
  BY DEF ManifestRemembers, KeepsPeers
<1> QED
  BY <1>1, InitInv, NextInv, NextKeepsPeers, PTL DEF RegistrySpec

-----------------------------------------------------------------------------
(* The routes.                                                             *)

(* The connections whose update will wake route_send_check.                *)
Wakers == {c \in Conns :
  step[c] \in Busy /\ (stage[c] = "adding" \/ how[c] = "remove" \/ KeysSame(c))}

Pending == timer \/ Wakers # {}

(* What is installed, or will be at last, is up to date.                   *)
NearKnown ==
  IF reads = <<>> THEN edges.near = Connected
                  ELSE reads[Len(reads)].near = Connected
FarKnown ==
  IF reads = <<>> THEN Ids(manifest) \subseteq edges.near \union edges.far
  ELSE LET last == reads[Len(reads)] IN
       last.read => Ids(manifest) \subseteq last.near \union last.far

(* A key that came after t began to remove its connection is that of a     *)
(* connection which still waits for the lock, behind t.                    *)
Behind(t, c) ==
  /\ stage[c] = "adding" /\ step[c] = "wants"
  /\ \A i \in DOMAIN waiting : waiting[i] = t =>
       \E j \in DOMAIN waiting : i < j /\ waiting[j] = c

NewcomersBehind ==
  \A t \in Conns : stage[t] = "removing" /\ ~KeysSame(t) => \E c \in Conns : Behind(t, c)

UpToDate ==
  /\ spoiled \subseteq {"torn"} => Pending \/ NearKnown
  /\ spoiled = {} => Pending \/ FarKnown

RouteInv == Inv /\ NewcomersBehind /\ UpToDate

LEMMA InitRoutes == RegistryInit => RouteInv
<1> SUFFICES ASSUME RegistryInit PROVE NewcomersBehind /\ UpToDate
  BY InitInv DEF RouteInv
<1> QED
  BY DEF RegistryInit, NewcomersBehind, UpToDate, NearKnown, FarKnown, Connected, Ids

(* A task that joins the queue joins it behind the others.                 *)
LEMMA JoinsBehind ==
  ASSUME Inv, NewcomersBehind, NEW u \in Tasks, step[u] = "idle",
         waiting' = Append(waiting, u), step' = [step EXCEPT ![u] = "wants"],
         NEW t \in Conns, t # u, stage[t] = "removing", ~KeysSame(t),
         \A c \in Conns : c # u => stage'[c] = stage[c]
  PROVE  \E c \in Conns : Behind(t, c)'
<1>1. waiting \in Seq(Tasks) /\ step \in [Tasks -> {"idle", "wants", "has", "writes", "dead"}]
  BY DEF Inv, RegistryTypeOK
<1>2. /\ Len(waiting) \in Nat /\ DOMAIN waiting = 1 .. Len(waiting)
      /\ DOMAIN waiting' = 1 .. Len(waiting) + 1
      /\ \A i \in DOMAIN waiting : waiting'[i] = waiting[i]
      /\ waiting'[Len(waiting) + 1] = u
  BY <1>1, AppendOf
<1>3. PICK c \in Conns : Behind(t, c)
  BY DEF NewcomersBehind
<1>4. c # u /\ c \in Tasks
  BY <1>3 DEF Behind, Tasks
<1>5. stage'[c] = "adding" /\ step'[c] = "wants"
  BY <1>1, <1>3, <1>4 DEF Behind
<1>6. ASSUME NEW i \in DOMAIN waiting', waiting'[i] = t
      PROVE  \E j \in DOMAIN waiting' : i < j /\ waiting'[j] = c
  <2>1. i \in DOMAIN waiting /\ waiting[i] = t
    BY <1>2, <1>6
  <2>2. PICK j \in DOMAIN waiting : i < j /\ waiting[j] = c
    BY <1>3, <2>1 DEF Behind
  <2> QED
    BY <1>2, <2>2
<1> QED
  BY <1>5, <1>6 DEF Behind

(* A task that neither joins nor leaves the queue changes nothing there.   *)
LEMMA StaysBehind ==
  ASSUME Inv, NewcomersBehind, NEW u \in Tasks, step[u] # "wants",
         NEW where, step' = [step EXCEPT ![u] = where], UNCHANGED <<waiting, keys, keysThen>>,
         \A c \in Conns : c # u => stage'[c] = stage[c],
         u \in Conns => stage'[u] # "removing"
           \/ (stage'[u] = stage[u] /\ stage[u] = "removing")
  PROVE  NewcomersBehind'
<1> SUFFICES ASSUME NEW t \in Conns, stage'[t] = "removing", ~KeysSame(t)'
             PROVE  \E c \in Conns : Behind(t, c)'
  BY DEF NewcomersBehind
<1>1. stage[t] = "removing" /\ ~KeysSame(t)
  BY DEF KeysSame
<1>2. PICK c \in Conns : Behind(t, c)
  BY <1>1 DEF NewcomersBehind
<1>3. c # u /\ c \in Tasks
  BY <1>2 DEF Behind, Tasks
<1>4. step'[c] = "wants" /\ stage'[c] = "adding"
  BY <1>2, <1>3 DEF Behind, Inv, RegistryTypeOK
<1> QED
  BY <1>2, <1>4 DEF Behind

(* Nothing that wakes goes away, nothing that routes rest on changes.      *)
LEMMA StaysUpToDate ==
  ASSUME UpToDate, Wakers \subseteq Wakers', UNCHANGED <<timer, reads, edges, members>>,
         spoiled \subseteq spoiled', Ids(manifest') \subseteq Ids(manifest)
  PROVE  UpToDate'
<1>1. Pending => Pending'
  BY DEF Pending
<1>2. NearKnown => NearKnown'
  BY DEF NearKnown, Connected
<1>3. FarKnown => FarKnown'
  BY DEF FarKnown
<1> QED
  BY <1>1, <1>2, <1>3 DEF UpToDate

LEMMA RegisterRoutes ==
  ASSUME RouteInv, NEW c \in Conns, Register(c)
  PROVE  NewcomersBehind' /\ UpToDate'
<1>1. Inv /\ NewcomersBehind /\ c \in Tasks
  BY DEF RouteInv, Tasks
<1>2. stage[c] = "out" /\ step[c] = "idle"
  BY <1>1 DEF Register, Inv, TaskInv, RegistryTypeOK, Busy
<1>3. waiting' = Append(waiting, c) /\ step' = [step EXCEPT ![c] = "wants"]
      /\ stage' = [stage EXCEPT ![c] = "adding"] /\ UNCHANGED keysThen
  BY DEF Register, Changes
<1>4. waiting \in Seq(Tasks) /\ step \in [Tasks -> {"idle", "wants", "has", "writes", "dead"}]
      /\ stage \in [Conns -> {"out", "adding", "in", "raised", "removing", "removed"}]
  BY <1>1 DEF Inv, RegistryTypeOK
<1>5. step'[c] = "wants" /\ stage'[c] = "adding"
      /\ \A d \in Conns : d # c => stage'[d] = stage[d]
  BY <1>1, <1>3, <1>4
<1>6. ASSUME NEW t \in Conns, stage'[t] = "removing" PROVE Behind(t, c)'
  <2>1. t # c
    BY <1>5, <1>6
  <2>2. /\ Len(waiting) \in Nat /\ DOMAIN waiting = 1 .. Len(waiting)
        /\ DOMAIN waiting' = 1 .. Len(waiting) + 1
        /\ \A i \in DOMAIN waiting : waiting'[i] = waiting[i]
        /\ waiting'[Len(waiting) + 1] = c
    BY <1>1, <1>3, <1>4, AppendOf
  <2>3. \A i \in DOMAIN waiting' : waiting'[i] = t => i < Len(waiting) + 1
    BY <2>1, <2>2
  <2>4. Len(waiting) + 1 \in DOMAIN waiting'
    BY <2>2
  <2> QED
    BY <1>5, <2>2, <2>3, <2>4 DEF Behind
<1>7. c \in Wakers'
  BY <1>5 DEF Wakers, Busy
<1> QED
  BY <1>6, <1>7 DEF NewcomersBehind, UpToDate, Pending

LEMMA UnregisterRoutes ==
  ASSUME RouteInv, NEW c \in Conns, Unregister(c)
  PROVE  NewcomersBehind' /\ UpToDate'
<1>1. Inv /\ NewcomersBehind /\ c \in Tasks
  BY DEF RouteInv, Tasks
<1>2. stage[c] \in {"in", "raised"} /\ step[c] = "idle"
  BY <1>1 DEF Unregister, Inv, TaskInv, RegistryTypeOK, Busy
<1>3. waiting' = Append(waiting, c) /\ step' = [step EXCEPT ![c] = "wants"]
      /\ stage' = [stage EXCEPT ![c] = "removing"]
      /\ keysThen' = [keysThen EXCEPT ![c] = keys] /\ UNCHANGED keys
  BY DEF Unregister, Changes
<1>4. step \in [Tasks -> {"idle", "wants", "has", "writes", "dead"}]
      /\ stage \in [Conns -> {"out", "adding", "in", "raised", "removing", "removed"}]
      /\ keysThen \in [Conns -> SUBSET Peers]
  BY <1>1 DEF Inv, RegistryTypeOK
<1>5. step'[c] = "wants" /\ KeysSame(c)'
      /\ \A d \in Conns : d # c => stage'[d] = stage[d] /\ keysThen'[d] = keysThen[d]
  BY <1>1, <1>3, <1>4 DEF KeysSame
<1>6. ASSUME NEW t \in Conns, stage'[t] = "removing", ~KeysSame(t)'
      PROVE  \E d \in Conns : Behind(t, d)'
  <2>1. t # c
    BY <1>5, <1>6
  <2>2. stage[t] = "removing" /\ ~KeysSame(t)
    BY <1>3, <1>5, <1>6, <2>1 DEF KeysSame
  <2> QED
    BY <1>1, <1>2, <1>3, <1>5, <2>1, <2>2, JoinsBehind
<1>7. c \in Wakers'
  BY <1>5 DEF Wakers, Busy
<1> QED
  BY <1>6, <1>7 DEF NewcomersBehind, UpToDate, Pending

(* The newcomer that t has behind it does not get the lock before t.       *)
LEMMA AcquireRoutes ==
  ASSUME RouteInv, NEW u \in Tasks, Acquire(u)
  PROVE  NewcomersBehind' /\ UpToDate'
<1>1. Inv /\ NewcomersBehind /\ UpToDate
  BY DEF RouteInv
<1>2. waiting \in Seq(Tasks) /\ waiting # <<>> /\ u = Head(waiting) /\ lock = Nobody
      /\ step \in [Tasks -> {"idle", "wants", "has", "writes", "dead"}]
      /\ step' = [step EXCEPT ![u] = "has"] /\ waiting' = Tail(waiting)
      /\ UNCHANGED <<members, keys, stage, keysThen, how, manifest, timer, reads, edges, spoiled>>
  BY <1>1 DEF Inv, RegistryTypeOK, Acquire, IsUnlocked, listVars, routeVars
<1>3. /\ Len(waiting) \in Nat \ {0} /\ Head(waiting) = waiting[1]
      /\ DOMAIN waiting = 1 .. Len(waiting) /\ DOMAIN waiting' = 1 .. Len(waiting) - 1
      /\ \A i \in DOMAIN waiting' : waiting'[i] = waiting[i + 1]
  BY <1>2, TailOf
<1>4. step[u] = "wants" /\ waiting[1] = u
  BY <1>1, <1>2, <1>3 DEF Inv, QueueInv
<1>5. \A c \in Conns : step'[c] = IF c = u THEN "has" ELSE step[c]
  BY <1>2 DEF Tasks
<1>6. ASSUME NEW t \in Conns, stage'[t] = "removing", ~KeysSame(t)'
      PROVE  \E c \in Conns : Behind(t, c)'
  <2>1. PICK c \in Conns : Behind(t, c)
    BY <1>1, <1>2, <1>6 DEF NewcomersBehind, KeysSame
  <2>2. t \in Tasks /\ step[t] \in Busy
    BY <1>1, <1>2, <1>6 DEF Inv, TaskInv, Tasks
  <2>3. step[t] = "wants"
    BY <1>1, <1>2, <2>2, SweepAssumption DEF Inv, RegistryTypeOK, Busy, Tasks
  <2>4. PICK k \in DOMAIN waiting : waiting[k] = t
    BY <1>1, <2>2, <2>3 DEF Inv, QueueInv
  <2>5. PICK l \in DOMAIN waiting : k < l /\ waiting[l] = c
    BY <2>1, <2>4 DEF Behind
  <2>6. c # u
    <3>1. l # 1 /\ 1 \in DOMAIN waiting
      BY <1>3, <2>4, <2>5
    <3> QED
      BY <1>1, <1>4, <2>5, <3>1 DEF Inv, QueueInv
  <2>7. stage'[c] = "adding" /\ step'[c] = "wants"
    BY <1>2, <1>5, <2>1, <2>6 DEF Behind
  <2>8. ASSUME NEW i \in DOMAIN waiting', waiting'[i] = t
        PROVE  \E j \in DOMAIN waiting' : i < j /\ waiting'[j] = c
    <3>1. i + 1 \in DOMAIN waiting /\ waiting[i + 1] = t
      BY <1>3, <2>8
    <3>2. PICK j \in DOMAIN waiting : i + 1 < j /\ waiting[j] = c
      BY <2>1, <3>1 DEF Behind
    <3>3. j - 1 \in DOMAIN waiting' /\ i < j - 1 /\ waiting'[j - 1] = waiting[j]
      BY <1>3, <2>8, <3>2
    <3> QED
      BY <3>2, <3>3
  <2> QED
    BY <2>7, <2>8 DEF Behind
<1>7. Wakers \subseteq Wakers'
  BY <1>2, <1>4, <1>5 DEF Wakers, Busy, KeysSame
<1>8. UpToDate'
  BY <1>1, <1>2, <1>7, StaysUpToDate DEF Ids
<1> QED
  BY <1>6, <1>8 DEF NewcomersBehind

LEMMA SweepRoutes ==
  ASSUME RouteInv, WatchExpire \/ NothingExpired
  PROVE  NewcomersBehind' /\ UpToDate'
<1>1. Inv /\ NewcomersBehind /\ UpToDate /\ Sweep \in Tasks /\ Sweep \notin Conns
  BY SweepAssumption DEF RouteInv, Tasks
<1>2. UNCHANGED <<listVars, manifest, timer, reads, edges, spoiled>>
  BY DEF WatchExpire, NothingExpired, Changes, routeVars
<1>3. \A c \in Conns : step'[c] = step[c] /\ how'[c] = how[c]
  <2> SUFFICES ASSUME NEW c \in Conns PROVE step'[c] = step[c] /\ how'[c] = how[c]
    OBVIOUS
  <2>1. c \in Tasks /\ c # Sweep
    BY <1>1 DEF Tasks
  <2>2. step \in [Tasks -> {"idle", "wants", "has", "writes", "dead"}]
        /\ how \in [Tasks -> {"update", "remove", "expire"}]
    BY <1>1 DEF Inv, RegistryTypeOK
  <2>3. CASE WatchExpire
    <3>1. how' = [how EXCEPT ![Sweep] = "expire"] /\ step' = [step EXCEPT ![Sweep] = "wants"]
      BY <2>3 DEF WatchExpire, Changes
    <3> QED
      BY <2>1, <2>2, <3>1
  <2>4. CASE NothingExpired
    <3>1. how' = how /\ step' = [step EXCEPT ![Sweep] = "idle"]
      BY <2>4 DEF NothingExpired
    <3> QED
      BY <2>1, <2>2, <3>1
  <2> QED
    BY <2>3, <2>4
<1>4. Wakers \subseteq Wakers'
  BY <1>2, <1>3 DEF Wakers, KeysSame, listVars
<1>5. UpToDate'
  BY <1>1, <1>2, <1>4, StaysUpToDate DEF listVars, Ids
<1>6. CASE WatchExpire
  <2>1. step[Sweep] = "idle" /\ waiting' = Append(waiting, Sweep)
        /\ step' = [step EXCEPT ![Sweep] = "wants"]
    BY <1>6 DEF WatchExpire, Wakes, Changes
  <2>2. ASSUME NEW t \in Conns, stage'[t] = "removing", ~KeysSame(t)'
        PROVE  \E c \in Conns : Behind(t, c)'
    BY <1>1, <1>2, <2>1, <2>2, JoinsBehind DEF listVars, KeysSame
  <2> QED
    BY <1>5, <2>2 DEF NewcomersBehind
<1>7. CASE NothingExpired
  <2>1. step[Sweep] # "wants" /\ step' = [step EXCEPT ![Sweep] = "idle"]
        /\ UNCHANGED <<waiting, keys, keysThen, stage>>
    BY <1>7 DEF NothingExpired, listVars
  <2>2. NewcomersBehind'
    BY <1>1, <2>1, StaysBehind
  <2> QED
    BY <1>5, <2>2
<1> QED
  BY <1>6, <1>7

LEMMA WriteBeginsRoutes ==
  ASSUME RouteInv, NEW t \in Tasks, WriteBegins(t)
  PROVE  NewcomersBehind' /\ UpToDate'
<1>1. Inv /\ NewcomersBehind /\ UpToDate
  BY DEF RouteInv
<1>2. step[t] = "has" /\ step' = [step EXCEPT ![t] = "writes"]
      /\ UNCHANGED <<members, keys, stage, keysThen, how, waiting, manifest>>
      /\ UNCHANGED <<timer, reads, edges, spoiled>>
  BY DEF WriteBegins, listVars, routeVars
<1>3. \A c \in Conns : step'[c] = IF c = t THEN "writes" ELSE step[c]
  BY <1>1, <1>2 DEF Inv, RegistryTypeOK, Tasks
<1>4. Wakers \subseteq Wakers'
  BY <1>2, <1>3 DEF Wakers, Busy, KeysSame
<1>5. UpToDate'
  BY <1>1, <1>2, <1>4, StaysUpToDate DEF Ids
<1>6. NewcomersBehind'
  BY <1>1, <1>2, StaysBehind
<1> QED
  BY <1>5, <1>6

(* A task that goes on after its write, or its failure.                    *)
LEMMA ProceedsBehind ==
  ASSUME RouteInv, NEW t \in Tasks, step[t] # "wants", NEW added \in {"in", "raised"},
         Proceeds(t, added), NEW where, step' = [step EXCEPT ![t] = where]
  PROVE  NewcomersBehind'
<1>1. Inv /\ NewcomersBehind
  BY DEF RouteInv
<1>2. UNCHANGED <<waiting, keys, keysThen>>
      /\ \A c \in Conns : stage'[c] =
           IF c # t THEN stage[c] ELSE IF stage[c] = "adding" THEN added ELSE "removed"
  BY DEF Proceeds
<1>3. t \in Conns => stage'[t] # "removing"
  BY <1>2
<1> QED
  BY <1>1, <1>2, <1>3, StaysBehind

LEMMA WriteEndsRoutes ==
  ASSUME RouteInv, NEW t \in Tasks, WriteEnds(t)
  PROVE  NewcomersBehind' /\ UpToDate'
<1>1. Inv /\ NewcomersBehind /\ UpToDate
  BY DEF RouteInv
<1>2. step[t] = "writes" /\ step' = [step EXCEPT ![t] = "idle"] /\ Proceeds(t, "in")
      /\ manifest' = NewContents(t) /\ timer' = (timer \/ WakesSender(t))
  BY DEF WriteEnds
<1>3. NewcomersBehind'
  BY <1>2, ProceedsBehind
<1>4. CASE WakesSender(t)
  <2>1. timer'
    BY <1>2, <1>4
  <2> QED
    BY <1>3, <2>1 DEF UpToDate, Pending
<1>5. CASE ~WakesSender(t) /\ t \in Conns
  <2>1. stage[t] = "removing" /\ ~KeysSame(t)
    BY <1>1, <1>2, <1>5 DEF WakesSender, Inv, TaskInv, Busy
  <2>2. PICK c \in Conns : Behind(t, c)
    BY <1>1, <1>5, <2>1 DEF NewcomersBehind
  <2>3. c # t /\ c \in Tasks /\ stage[c] = "adding" /\ step[c] = "wants"
    BY <1>2, <2>2 DEF Behind, Tasks
  <2>4. stage'[c] = "adding" /\ step'[c] = "wants"
    BY <1>1, <1>2, <2>3 DEF Proceeds, Inv, RegistryTypeOK
  <2>5. c \in Wakers'
    BY <2>4 DEF Wakers, Busy
  <2> QED
    BY <1>3, <2>5 DEF UpToDate, Pending
<1>6. CASE t = Sweep
  <2>1. ~WakesSender(t) /\ t \notin Conns
    BY <1>6, SweepAssumption DEF WakesSender
  <2>2. how[t] = "expire" /\ snapshot[t] = manifest
    BY <1>1, <1>2, <1>6 DEF Inv, TaskInv, LockInv, Busy
  <2>3. manifest' \subseteq manifest
    BY <1>2, <2>2 DEF NewContents
  <2>4. \A c \in Conns : step'[c] = step[c] /\ stage'[c] = stage[c]
    BY <1>1, <1>2, <2>1 DEF Proceeds, Inv, RegistryTypeOK
  <2>5. UNCHANGED <<reads, edges, members, keys, keysThen, how>>
    BY <1>2 DEF Proceeds
  <2>6. Wakers \subseteq Wakers'
    BY <2>4, <2>5 DEF Wakers, KeysSame
  <2>7. UNCHANGED timer
    BY <1>1, <1>2, <2>1 DEF Inv, RegistryTypeOK
  <2>8. spoiled' = spoiled
    BY <2>1 DEF WriteEnds
  <2>9. UpToDate'
    BY <1>1, <2>3, <2>5, <2>6, <2>7, <2>8, StaysUpToDate DEF Ids
  <2> QED
    BY <1>3, <2>9
<1> QED
  BY <1>4, <1>5, <1>6 DEF Tasks

LEMMA WriteFailsRoutes ==
  ASSUME RouteInv, NEW t \in Tasks, WriteFails(t)
  PROVE  NewcomersBehind' /\ UpToDate'
<1>1. NewcomersBehind'
  BY ProceedsBehind DEF WriteFails
<1>2. "failed" \in spoiled'
  BY DEF WriteFails
<1> QED
  BY <1>1, <1>2 DEF UpToDate

LEMMA SameBehind ==
  ASSUME NewcomersBehind, UNCHANGED <<listVars, waiting, step>>
  PROVE  NewcomersBehind'
  BY DEF NewcomersBehind, Behind, KeysSame, listVars

(* A recalculation starts with the connections as they are, and has yet to *)
(* read the manifest.                                                      *)
LEMMA CollectRoutes ==
  ASSUME RouteInv, Check \/ \E p \in Peers : Hear(p)
  PROVE  NewcomersBehind' /\ UpToDate'
<1>1. Inv /\ NewcomersBehind
  BY DEF RouteInv
<1>2. reads' = Collected /\ UNCHANGED <<listVars, fileVars>>
  BY DEF Check, Hear
<1> DEFINE new == [near |-> Connected, far |-> {}, read |-> FALSE]
<1>3. reads \in Seq(ReadTypes) /\ new \in ReadTypes
  BY <1>1 DEF Inv, RegistryTypeOK, ReadTypes, Connected
<1>4. reads' = Append(reads, new)
  BY <1>2 DEF Collected
<1> HIDE DEF new
<1>5. Len(reads') = Len(reads) + 1 /\ reads'[Len(reads) + 1] = new /\ reads' # <<>>
  BY <1>3, <1>4, AppendProperties
<1>6. new.near = Connected' /\ new.read = FALSE
  BY <1>2 DEF new, Connected, listVars
<1>7. NearKnown' /\ FarKnown'
  BY <1>5, <1>6 DEF NearKnown, FarKnown
<1>8. NewcomersBehind'
  BY <1>1, <1>2, SameBehind DEF fileVars
<1> QED
  BY <1>7, <1>8 DEF UpToDate

LEMMA ReadManifestRoutes ==
  ASSUME RouteInv, NEW i \in DOMAIN reads, ReadManifest(i)
  PROVE  NewcomersBehind' /\ UpToDate'
<1>1. Inv /\ NewcomersBehind /\ UpToDate
  BY DEF RouteInv
<1>2. UNCHANGED <<listVars, fileVars, day, timer, edges, ephemeral>>
      /\ reads' = [reads EXCEPT ![i] = [near |-> @.near, far |-> Ids(Contents), read |-> TRUE]]
      /\ spoiled' = IF torn THEN spoiled \union {"torn"} ELSE spoiled
  BY DEF ReadManifest
<1>3. reads \in Seq(ReadTypes)
  BY <1>1 DEF Inv, RegistryTypeOK, ReadTypes
<1>4. i \in 1 .. Len(reads) /\ Len(reads) \in Nat /\ reads # <<>> /\ reads' # <<>>
      /\ DOMAIN reads = 1 .. Len(reads)
  <2>1. i \in 1 .. Len(reads) /\ Len(reads) \in Nat /\ DOMAIN reads = 1 .. Len(reads)
    BY <1>3, LenProperties
  <2>2. reads # <<>>
    BY <2>1
  <2>3. DOMAIN reads' = DOMAIN reads
    BY <1>2
  <2> QED
    BY <2>1, <2>2, <2>3
<1>5. Len(reads') = Len(reads)
      /\ \A k \in 1 .. Len(reads) : reads'[k] =
           IF k = i THEN [near |-> reads[i].near, far |-> Ids(Contents), read |-> TRUE]
                    ELSE reads[k]
  <2>1. DOMAIN reads' = 1 .. Len(reads)
    BY <1>2, <1>4
  <2>2. Len(reads') = Len(reads)
    BY <1>4, <2>1
  <2> QED
    BY <1>2, <1>4, <2>2
<1>6. Wakers = Wakers' /\ Connected = Connected'
  BY <1>2 DEF Wakers, Connected, KeysSame, listVars, fileVars
<1>7. NearKnown => NearKnown'
  BY <1>4, <1>5, <1>6 DEF NearKnown
<1>8. FarKnown => FarKnown' \/ torn
  <2>1. torn \/ Contents = manifest
    BY DEF Contents
  <2>2. manifest' = manifest
    BY <1>2 DEF fileVars
  <2>3. CASE i = Len(reads)
    <3>1. reads'[Len(reads')] = [near |-> reads[i].near, far |-> Ids(Contents), read |-> TRUE]
      BY <1>4, <1>5, <2>3
    <3>2. ~torn => Ids(manifest') = Ids(Contents)
      BY <2>1, <2>2
    <3> QED
      BY <1>4, <3>1, <3>2 DEF FarKnown
  <2>4. CASE i # Len(reads)
    <3>1. reads'[Len(reads')] = reads[Len(reads)]
      BY <1>4, <1>5, <2>4
    <3>2. Ids(manifest') = Ids(manifest)
      BY <2>2
    <3> QED
      BY <1>4, <3>1, <3>2 DEF FarKnown
  <2> QED
    BY <2>3, <2>4
<1>9. UpToDate'
  BY <1>1, <1>2, <1>6, <1>7, <1>8 DEF UpToDate, Pending
<1>10. NewcomersBehind'
  BY <1>1, <1>2, SameBehind DEF fileVars
<1> QED
  BY <1>9, <1>10

LEMMA InstallRoutes ==
  ASSUME RouteInv, NEW i \in DOMAIN reads, Install(i)
  PROVE  NewcomersBehind' /\ UpToDate'
<1>1. Inv /\ NewcomersBehind /\ UpToDate
  BY DEF RouteInv
<1>2. UNCHANGED <<listVars, fileVars, day, timer, ephemeral>> /\ reads[i].read
      /\ edges' = [near |-> reads[i].near, far |-> reads[i].far \ reads[i].near]
      /\ reads' = RemoveAt(reads, i)
      /\ spoiled' = IF i > 1 THEN spoiled \union {"overtaken"} ELSE spoiled
  BY DEF Install
<1>3. reads \in Seq(ReadTypes)
  BY <1>1 DEF Inv, RegistryTypeOK, ReadTypes
<1>4. i \in 1 .. Len(reads) /\ Len(reads) \in Nat /\ reads # <<>>
  <2>1. i \in 1 .. Len(reads) /\ Len(reads) \in Nat
    BY <1>3, LenProperties
  <2> QED
    BY <2>1
<1>5. reads' \in Seq(ReadTypes) /\ Len(reads') = Len(reads) - 1
      /\ \A k \in 1 .. Len(reads) - 1 :
           reads'[k] = IF k < i THEN reads[k] ELSE reads[k + 1]
  BY <1>2, <1>3, RemoveAtOf
<1>6. Wakers = Wakers' /\ Connected = Connected' /\ Ids(manifest) = Ids(manifest')
  BY <1>2 DEF Wakers, Connected, KeysSame, listVars, fileVars, Ids
<1>7. NewcomersBehind'
  BY <1>1, <1>2, SameBehind DEF fileVars
<1>8. ASSUME i > 1 PROVE UpToDate'
  BY <1>2, <1>8 DEF UpToDate
<1>9. ASSUME i = 1, Len(reads) = 1 PROVE UpToDate'
  <2>1. reads' = <<>>
    BY <1>5, <1>9, EmptySeq
  <2>2. NearKnown => NearKnown'
    BY <1>2, <1>4, <1>6, <1>9, <2>1 DEF NearKnown
  <2>3. FarKnown => FarKnown'
    BY <1>2, <1>4, <1>6, <1>9, <2>1 DEF FarKnown
  <2> QED
    BY <1>1, <1>2, <1>6, <1>9, <2>2, <2>3 DEF UpToDate, Pending
<1>10. ASSUME i = 1, Len(reads) > 1 PROVE UpToDate'
  <2>1. reads'[Len(reads')] = reads[Len(reads)]
    BY <1>4, <1>5, <1>10
  <2>2. reads' # <<>>
    BY <1>4, <1>5, <1>10
  <2>3. (NearKnown => NearKnown') /\ (FarKnown => FarKnown')
    BY <1>4, <1>6, <2>1, <2>2 DEF NearKnown, FarKnown
  <2> QED
    BY <1>1, <1>2, <1>6, <1>10, <2>3 DEF UpToDate, Pending
<1>11. UpToDate'
  BY <1>4, <1>8, <1>9, <1>10
<1> QED
  BY <1>7, <1>11

LEMMA NextRoutes == RouteInv /\ [RegistryNext]_registryVars => RouteInv'
<1> SUFFICES ASSUME RouteInv, [RegistryNext]_registryVars
             PROVE  NewcomersBehind' /\ UpToDate'
  BY NextInv DEF RouteInv
<1>1. CASE UNCHANGED registryVars \/ NextDay
  <2>1. UNCHANGED <<listVars, fileVars, routeVars, spoiled>>
    BY <1>1 DEF registryVars, NextDay
  <2>2. NewcomersBehind'
    BY <2>1, SameBehind DEF RouteInv, fileVars
  <2>3. Wakers = Wakers'
    BY <2>1 DEF Wakers, KeysSame, listVars, fileVars
  <2>4. UpToDate'
    BY <2>1, <2>3, StaysUpToDate DEF RouteInv, listVars, fileVars, routeVars, Ids
  <2> QED
    BY <2>2, <2>4
<1>2. CASE RegistryNext /\ ~NextDay
  BY <1>2, RegisterRoutes, UnregisterRoutes, AcquireRoutes, SweepRoutes, WriteBeginsRoutes,
     WriteEndsRoutes, WriteFailsRoutes, CollectRoutes, ReadManifestRoutes, InstallRoutes
     DEF RegistryNext, Filing, Routing
<1> QED
  BY <1>1, <1>2

(* Once nothing is under way, the edges of cost 1 are those to the peers   *)
(* with a connection, and every peer in the manifest has an edge, but for  *)
(* the histories the property names: whatever the order of handshakes,     *)
(* removals that break off, sweeps and recalculations.                     *)
THEOREM RoutesFollow == RegistrySpec => []RoutesFollowConnections
<1>1. RouteInv => RoutesFollowConnections
  <2> SUFFICES ASSUME RouteInv, Quiet PROVE RoutesFollowConnections
    BY DEF RoutesFollowConnections
  <2>1. ~timer /\ reads = <<>> /\ Wakers = {}
    BY DEF Quiet, Wakers, Busy
  <2>2. spoiled \subseteq {"torn"} => edges.near = Connected
    BY <2>1 DEF RouteInv, UpToDate, Pending, NearKnown
  <2>3. Ids(Contents) \subseteq Ids(manifest)
    BY DEF Contents, Ids
  <2>4. spoiled = {} => Ids(Contents) \subseteq edges.near \union edges.far
    BY <2>1, <2>3 DEF RouteInv, UpToDate, Pending, FarKnown
  <2> QED
    BY <2>2, <2>4 DEF RoutesFollowConnections
<1> QED
  BY <1>1, InitRoutes, NextRoutes, PTL DEF RegistrySpec
-----------------------------------------------------------------------------

(* ---------------------------- the connections -------------------------- *)

(* Each step of the connections is one of the registry, or leaves it alone. *)
LEMMA StepOfRegistry == [Next]_vars => [RegistryNext]_registryVars
<1> SUFFICES ASSUME [Next]_vars PROVE [RegistryNext]_registryVars
  OBVIOUS
<1>1. CASE UNCHANGED vars
  BY <1>1 DEF vars
<1>2. ASSUME NEW c \in Conns,
             Dial(c) \/ DialPlain(c) \/ RegisteredThere(c) \/ LeaveThere(c)
               \/ DialFails(c) \/ RegisteringFailsThere(c) \/ LinkBreaks(c)
      PROVE  UNCHANGED registryVars
  BY <1>2 DEF Dial, DialPlain, RegisteredThere, LeaveThere, DialFails,
     RegisteringFailsThere, LinkBreaks
<1>3. ASSUME NEW c \in Conns, NEW s \in Sides,
             ReceiveEnds(c, s) \/ HiTimesOut(c, s) \/ ReceiveIsReset(c, s)
               \/ ReceiveFails(c, s) \/ SendFails(c, s)
      PROVE  UNCHANGED registryVars
  BY <1>3 DEF ReceiveEnds, HiTimesOut, ReceiveIsReset, ReceiveFails, SendFails
<1>4. ASSUME NEW c \in Conns, LeaveHere(c) PROVE RegistryNext
  BY <1>4 DEF LeaveHere, RegistryNext
<1>5. ASSUME NEW c \in Conns, NEW s \in Sides, GetHi(c, s)
      PROVE  RegistryNext \/ UNCHANGED registryVars
  BY <1>5 DEF GetHi, RegistryNext
<1>6. ASSUME NEW t \in Tasks, Files(t) \/ Written(t) \/ NotWritten(t) PROVE RegistryNext
  BY <1>6 DEF Files, Written, NotWritten, RegistryNext, Filing
<1>7. SweepEnds \/ Routes \/ SweepBegins \/ DayPasses => RegistryNext
  BY DEF SweepEnds, Routes, SweepBegins, DayPasses, RegistryNext
<1>8. ASSUME NEW p \in Peers, HearOf(p) PROVE RegistryNext
  BY <1>8 DEF HearOf, RegistryNext
<1> QED
  BY <1>1, <1>2, <1>3, <1>4, <1>5, <1>6, <1>7, <1>8 DEF Next, Runs

(* What the connections do to the registry is what Registry says may be    *)
(* done to it.                                                             *)
THEOREM RegistryInUse == Spec => RegistrySpec
<1>1. Init => RegistryInit
  BY DEF Init
<1> QED
  BY <1>1, StepOfRegistry, PTL DEF Spec, RegistrySpec

(* With handshakes, failures and redials driving the registry: a peer      *)
(* leaves the manifest only for a reason.                                  *)
THEOREM ManifestInUse == Spec => ManifestRemembers
  BY RegistryInUse, ManifestKeepsPeers, PTL

(* With handshakes, failures and redials driving the registry: when        *)
(* nothing is under way the direct edges are those to the peers connected, *)
(* and the peers in the manifest have one.                                 *)
THEOREM RoutesInUse == Spec => []RoutesFollowConnections
  BY RegistryInUse, RoutesFollow, PTL

-----------------------------------------------------------------------------

Places == {"none", "waiting", "registering", "serving", "failed", "leaving", "gone"}

WorkerTypes ==
  /\ pc \in [Conns -> [Sides -> Places]]
  /\ hi \in [Conns -> SUBSET Sides] /\ open \in [Conns -> SUBSET Sides]
  /\ deaf \in [Conns -> SUBSET Sides] /\ broken \subseteq Conns

(* Where the Worker at this node is and how far its connection is in the   *)
(* registry fit.                                                           *)
Fits(where, how_far) ==
  /\ where \in {"none", "waiting"} => how_far = "out"
  /\ where = "registering" => how_far = "adding"
  /\ where = "serving" => how_far = "in"
  /\ where = "failed" => how_far \in {"in", "raised"}
  /\ where = "leaving" => how_far = "removing"
  /\ where = "gone" => how_far \in {"out", "removed"}

(* A client that has not dialled has no server either.                     *)
NotDialled(c) == pc[c]["here"] = "none" <=> pc[c]["there"] = "none"

Linked == \A c \in Conns : Fits(pc[c]["here"], stage[c]) /\ NotDialled(c)

ConnInv == Inv /\ WorkerTypes /\ Linked

LEMMA InitConn == Init => ConnInv
  BY InitInv DEF Init, RegistryInit, ConnInv, WorkerTypes, Linked, Fits, NotDialled,
     Sides, Places

(* One Worker goes on, the others stay.                                    *)
LEMMA OneGoes ==
  ASSUME WorkerTypes, NEW c \in Conns, NEW s \in Sides, NEW where \in Places,
         Goes(c, s, where)
  PROVE  /\ pc' \in [Conns -> [Sides -> Places]]
         /\ \A d \in Conns : d # c => pc'[d] = pc[d]
         /\ pc'[c][s] = where /\ \A t \in Sides : t # s => pc'[c][t] = pc[c][t]
  BY DEF Goes, WorkerTypes

LEMMA GoodbyeTypes ==
  ASSUME WorkerTypes, NEW c \in Conns, NEW s \in Sides, Goodbye(c, s)
  PROVE  open' \in [Conns -> SUBSET Sides] /\ Goes(c, s, "gone")
  BY DEF Goodbye, WorkerTypes, Left

LEMMA StartsTypes ==
  ASSUME WorkerTypes, NEW c \in Conns, NEW s \in Sides, Starts(c, s)
  PROVE  /\ hi' \in [Conns -> SUBSET Sides]
         /\ Goes(c, s, "serving") \/ Goes(c, s, "failed")
  BY DEF Starts, WorkerTypes
(* Only c goes on, in its Workers and in the registry.                     *)
LEMMA OnlyOne ==
  ASSUME Linked, NEW c \in Conns,
         \A d \in Conns : d # c => pc'[d] = pc[d] /\ stage'[d] = stage[d],
         Fits(pc'[c]["here"], stage'[c]), NotDialled(c)'
  PROVE  Linked'
  BY DEF Linked, NotDialled

(* The Worker at s goes on, and what the registry says of c still fits.    *)
LEMMA WorkerGoes ==
  ASSUME ConnInv, NEW c \in Conns, NEW s \in Sides, NEW where \in Places,
         Goes(c, s, where), pc[c][s] # "none", where # "none",
         \A d \in Conns : d # c => stage'[d] = stage[d],
         s = "here" => Fits(where, stage'[c]),
         s = "there" => stage'[c] = stage[c]
  PROVE  pc' \in [Conns -> [Sides -> Places]] /\ Linked'
<1>1. WorkerTypes /\ Linked
  BY DEF ConnInv
<1>2. /\ pc' \in [Conns -> [Sides -> Places]]
      /\ \A d \in Conns : d # c => pc'[d] = pc[d]
      /\ pc'[c][s] = where /\ \A t \in Sides : t # s => pc'[c][t] = pc[c][t]
  BY <1>1, OneGoes
<1>3. pc[c]["here"] # "none" /\ pc[c]["there"] # "none"
  BY <1>1 DEF Linked, NotDialled, Sides
<1>4. NotDialled(c)'
  BY <1>2, <1>3 DEF NotDialled, Sides
<1>5. Fits(pc'[c]["here"], stage'[c])
  <2>1. CASE s = "here"
    BY <1>2, <2>1
  <2>2. CASE s = "there"
    BY <1>1, <1>2, <2>2 DEF Linked, Sides
  <2> QED
    BY <2>1, <2>2 DEF Sides
<1> QED
  BY <1>1, <1>2, <1>4, <1>5, OnlyOne

LEMMA DialConn ==
  ASSUME ConnInv, NEW c \in Conns, Dial(c) \/ DialPlain(c) \/ DialFails(c)
  PROVE  WorkerTypes' /\ Linked'
<1>1. WorkerTypes /\ Linked /\ stage' = stage
  BY DEF ConnInv, Dial, DialPlain, DialFails, registryVars, listVars
<1>2. Client[c] \in Sides /\ Other(Client[c]) \in Sides
  BY ConnectionsAssumption DEF Sides, Other
<1>3. pc[c]["here"] = "none" /\ pc[c]["there"] = "none" /\ stage[c] = "out"
  BY <1>1, <1>2 DEF Dial, DialPlain, DialFails, MayDial, Sides, Linked, NotDialled, Fits
<1>4. pc' \in [Conns -> [Sides -> Places]] /\ \A d \in Conns : d # c => pc'[d] = pc[d]
  <2>1. pc \in [Conns -> [Sides -> Places]] /\ {"waiting", "gone"} \subseteq Places
    BY <1>1 DEF WorkerTypes, Places
  <2>2. CASE Dial(c)
    <3>1. pc' = [pc EXCEPT ![c] = [s \in Sides |-> "waiting"]]
      BY <2>2 DEF Dial
    <3> QED
      BY ONLY <2>1, <3>1, c \in Conns
  <2>3. CASE DialFails(c)
    <3>1. pc' = [pc EXCEPT ![c] = [s \in Sides |-> "gone"]]
      BY <2>3 DEF DialFails
    <3> QED
      BY ONLY <2>1, <3>1, c \in Conns
  <2>4. CASE DialPlain(c)
    <3>1. pc' = [pc EXCEPT ![c][Client[c]] = "waiting", ![c][Other(Client[c])] = "gone"]
      BY <2>4 DEF DialPlain
    <3> QED
      BY ONLY <1>2, <2>1, <3>1, c \in Conns
  <2> QED
    BY <2>2, <2>3, <2>4
<1>5. \A s \in Sides : pc'[c][s] \in {"waiting", "gone"}
  <2>1. CASE Dial(c) \/ DialFails(c)
    BY <1>1, <2>1 DEF Dial, DialFails, WorkerTypes
  <2>2. CASE DialPlain(c)
    <3>1. pc' = [pc EXCEPT ![c][Client[c]] = "waiting", ![c][Other(Client[c])] = "gone"]
      BY <2>2 DEF DialPlain
    <3>2. \A s \in Sides : s = Client[c] \/ s = Other(Client[c])
      BY <1>2 DEF Sides, Other
    <3> QED
      BY <1>1, <1>2, <3>1, <3>2 DEF WorkerTypes
  <2> QED
    BY <2>1, <2>2
<1>6. Linked'
  <2>1. NotDialled(c)' /\ Fits(pc'[c]["here"], stage'[c])
    BY <1>1, <1>3, <1>5 DEF NotDialled, Fits, Sides
  <2> QED
    BY <1>1, <1>4, <2>1, OnlyOne
<1>7. WorkerTypes'
  BY <1>1, <1>2, <1>4 DEF WorkerTypes, Dial, DialPlain, DialFails
<1> QED
  BY <1>6, <1>7

LEMMA GetHiConn ==
  ASSUME ConnInv, NEW c \in Conns, NEW s \in Sides, GetHi(c, s)
  PROVE  WorkerTypes' /\ Linked'
<1>1. pc[c][s] = "waiting" /\ Goes(c, s, "registering") /\ UNCHANGED <<hi, open, deaf, broken>>
  BY DEF GetHi
<1>2. CASE s = "here"
  <2>1. stage' = [stage EXCEPT ![c] = "adding"]
    BY <1>2 DEF GetHi, Register
  <2>2. stage'[c] = "adding" /\ \A d \in Conns : d # c => stage'[d] = stage[d]
    BY <2>1 DEF ConnInv, Inv, RegistryTypeOK
  <2> QED
    BY <1>1, <1>2, <2>2, WorkerGoes DEF Fits, Places, ConnInv, WorkerTypes
<1>3. CASE s # "here"
  <2>1. stage' = stage
    BY <1>3 DEF GetHi, registryVars, listVars
  <2> QED
    BY <1>1, <1>3, <2>1, WorkerGoes DEF Places, ConnInv, WorkerTypes
<1> QED
  BY <1>2, <1>3

LEMMA HiTimesOutConn ==
  ASSUME ConnInv, NEW c \in Conns, NEW s \in Sides, HiTimesOut(c, s)
  PROVE  WorkerTypes' /\ Linked'
<1>1. pc[c][s] = "waiting" /\ Goodbye(c, s) /\ UNCHANGED <<stage, hi, deaf, broken>>
  BY DEF HiTimesOut, WaitsForHi, registryVars, listVars
<1>2. Goes(c, s, "gone") /\ open' \in [Conns -> SUBSET Sides]
  BY <1>1, GoodbyeTypes DEF ConnInv
<1>3. s = "here" => Fits("gone", stage'[c])
  BY <1>1 DEF ConnInv, Linked, Fits
<1> QED
  BY <1>1, <1>2, <1>3, WorkerGoes DEF Places, ConnInv, WorkerTypes

LEMMA ThereConn ==
  ASSUME ConnInv, NEW c \in Conns,
         RegisteredThere(c) \/ RegisteringFailsThere(c) \/ LeaveThere(c)
  PROVE  WorkerTypes' /\ Linked'
<1>1. stage' = stage /\ pc[c]["there"] # "none" /\ "there" \in Sides
  BY DEF RegisteredThere, RegisteringFailsThere, LeaveThere, IsOver, registryVars,
     listVars, Sides
<1>2. \E where \in Places \ {"none"} : Goes(c, "there", where)
  BY DEF RegisteredThere, RegisteringFailsThere, LeaveThere, Starts, Goodbye, Places
<1>3. hi' \in [Conns -> SUBSET Sides] /\ open' \in [Conns -> SUBSET Sides]
      /\ UNCHANGED <<deaf, broken>>
  BY <1>1, GoodbyeTypes, StartsTypes
     DEF RegisteredThere, RegisteringFailsThere, LeaveThere, ConnInv, WorkerTypes
<1>4. "there" # "here"
  OBVIOUS
<1> QED
  BY <1>1, <1>2, <1>3, <1>4, WorkerGoes DEF ConnInv, WorkerTypes

(* Steps of the transports, which move no Worker.                          *)
LEMMA TransportConn ==
  ASSUME ConnInv, NEW c \in Conns,
         LinkBreaks(c) \/ \E s \in Sides : ReceiveEnds(c, s) \/ ReceiveIsReset(c, s)
                                            \/ ReceiveFails(c, s) \/ SendFails(c, s)
  PROVE  WorkerTypes' /\ Linked'
<1>1. UNCHANGED <<stage, pc, hi>>
  BY DEF LinkBreaks, ReceiveEnds, ReceiveIsReset, ReceiveFails, SendFails,
     registryVars, listVars
<1>2. WorkerTypes'
  BY <1>1 DEF ConnInv, WorkerTypes, LinkBreaks, ReceiveEnds, ClosedBy, ReceiveIsReset,
     ReceiveFails, SendFails
<1>3. Linked'
  BY <1>1 DEF ConnInv, Linked, NotDialled
<1> QED
  BY <1>2, <1>3

LEMMA LeaveHereConn ==
  ASSUME ConnInv, NEW c \in Conns, LeaveHere(c)
  PROVE  WorkerTypes' /\ Linked'
<1>1. pc[c]["here"] # "none" /\ Goes(c, "here", "leaving") /\ "here" \in Sides
      /\ UNCHANGED <<hi, open, deaf, broken>>
  BY DEF LeaveHere, IsOver, Sides
<1>2. stage' = [stage EXCEPT ![c] = "removing"]
  BY DEF LeaveHere, Unregister
<1>3. stage'[c] = "removing" /\ \A d \in Conns : d # c => stage'[d] = stage[d]
  BY <1>2 DEF ConnInv, Inv, RegistryTypeOK
<1> QED
  BY <1>1, <1>3, WorkerGoes DEF Fits, Places, ConnInv, WorkerTypes

(* The task of a connection whose write is over.                           *)
LEMMA TaskGoesOn ==
  ASSUME ConnInv, NEW c \in Conns, NEW added \in {"in", "raised"},
         step[c] = "writes", Proceeds(c, added)
  PROVE  /\ \A d \in Conns : d # c => stage'[d] = stage[d]
         /\ Finishes(c) => stage'[c] = "removed"
         /\ ~Finishes(c) => pc[c]["here"] = "registering" /\ stage'[c] = added
<1>1. stage[c] \in {"adding", "removing"}
  BY DEF ConnInv, Inv, TaskInv, Busy
<1>2. pc[c]["here"] \in Places
  BY DEF ConnInv, WorkerTypes, Sides
<1>3. Fits(pc[c]["here"], stage[c])
  BY DEF ConnInv, Linked
<1> QED
  BY <1>1, <1>2, <1>3 DEF Proceeds, Finishes, Fits, Places

LEMMA WrittenConn ==
  ASSUME ConnInv, NEW t \in Tasks, Written(t)
  PROVE  WorkerTypes' /\ Linked'
<1>1. WriteEnds(t) /\ UNCHANGED <<deaf, broken>> /\ "here" \in Sides
  BY DEF Written, Sides
<1>2. step[t] = "writes" /\ Proceeds(t, "in")
  BY <1>1 DEF WriteEnds
<1>3. CASE t = Sweep
  <2>1. UNCHANGED <<pc, hi, open>> /\ \A c \in Conns : stage'[c] = stage[c]
    BY <1>2, <1>3, SweepAssumption DEF Written, Proceeds
  <2> QED
    BY <1>1, <2>1 DEF ConnInv, WorkerTypes, Linked, NotDialled
<1>4. CASE t # Sweep /\ Finishes(t)
  <2>1. t \in Conns /\ Goodbye(t, "here") /\ UNCHANGED hi
    BY <1>4 DEF Written, Tasks
  <2>2. Goes(t, "here", "gone") /\ open' \in [Conns -> SUBSET Sides]
    BY <1>1, <2>1, GoodbyeTypes DEF ConnInv
  <2>3. stage'[t] = "removed" /\ \A d \in Conns : d # t => stage'[d] = stage[d]
    BY <1>2, <1>4, <2>1, TaskGoesOn
  <2>4. pc[t]["here"] # "none"
    BY <1>4 DEF Finishes
  <2> QED
    BY <1>1, <2>1, <2>2, <2>3, <2>4, WorkerGoes DEF Fits, Places, ConnInv, WorkerTypes
<1>5. CASE t # Sweep /\ ~Finishes(t)
  <2>1. t \in Conns /\ Starts(t, "here") /\ UNCHANGED open
    BY <1>5 DEF Written, Tasks
  <2>2. hi' \in [Conns -> SUBSET Sides]
        /\ (Goes(t, "here", "serving") \/ Goes(t, "here", "failed"))
    BY <1>1, <2>1, StartsTypes DEF ConnInv
  <2>3. stage'[t] = "in" /\ pc[t]["here"] # "none"
        /\ \A d \in Conns : d # t => stage'[d] = stage[d]
    BY <1>2, <1>5, <2>1, TaskGoesOn
  <2>4. Fits("serving", stage'[t]) /\ Fits("failed", stage'[t])
    BY <2>3 DEF Fits
  <2>5. pc' \in [Conns -> [Sides -> Places]] /\ Linked'
    BY <1>1, <2>1, <2>2, <2>3, <2>4, WorkerGoes DEF Places
  <2> QED
    BY <1>1, <2>1, <2>2, <2>5 DEF ConnInv, WorkerTypes
<1> QED
  BY <1>3, <1>4, <1>5

LEMMA NotWrittenConn ==
  ASSUME ConnInv, NEW t \in Tasks, NotWritten(t)
  PROVE  WorkerTypes' /\ Linked'
<1>1. WriteFails(t) /\ UNCHANGED <<hi, deaf, broken>> /\ "here" \in Sides
  BY DEF NotWritten, Sides
<1>2. Proceeds(t, "raised") /\ (t # Sweep => step[t] = "writes")
  BY <1>1 DEF WriteFails
<1>3. CASE t = Sweep
  <2>1. UNCHANGED <<pc, open>> /\ \A c \in Conns : stage'[c] = stage[c]
    BY <1>2, <1>3, SweepAssumption DEF NotWritten, Proceeds
  <2> QED
    BY <1>1, <2>1 DEF ConnInv, WorkerTypes, Linked, NotDialled
<1>4. CASE t # Sweep /\ Finishes(t)
  <2>1. t \in Conns /\ Goodbye(t, "here")
    BY <1>4 DEF NotWritten, Tasks
  <2>2. Goes(t, "here", "gone") /\ open' \in [Conns -> SUBSET Sides]
    BY <1>1, <2>1, GoodbyeTypes DEF ConnInv
  <2>3. stage'[t] = "removed" /\ \A d \in Conns : d # t => stage'[d] = stage[d]
    BY <1>2, <1>4, <2>1, TaskGoesOn
  <2>4. pc[t]["here"] # "none"
    BY <1>4 DEF Finishes
  <2> QED
    BY <1>1, <2>1, <2>2, <2>3, <2>4, WorkerGoes DEF Fits, Places, ConnInv, WorkerTypes
<1>5. CASE t # Sweep /\ ~Finishes(t)
  <2>1. t \in Conns /\ Goes(t, "here", "failed") /\ UNCHANGED open
    BY <1>5 DEF NotWritten, Tasks
  <2>2. stage'[t] = "raised" /\ pc[t]["here"] # "none"
        /\ \A d \in Conns : d # t => stage'[d] = stage[d]
    BY <1>2, <1>5, <2>1, TaskGoesOn
  <2> QED
    BY <1>1, <2>1, <2>2, WorkerGoes DEF Fits, Places, ConnInv, WorkerTypes
<1> QED
  BY <1>3, <1>4, <1>5

(* What the registry and its recalculations do for themselves.             *)
LEMMA RegistryConn ==
  ASSUME ConnInv,
         \/ SweepEnds \/ Routes \/ SweepBegins \/ DayPasses
         \/ \E t \in Tasks : Files(t)
         \/ \E p \in Peers : HearOf(p)
         \/ UNCHANGED vars
  PROVE  WorkerTypes' /\ Linked'
<1>1. UNCHANGED workerVars
  BY DEF SweepEnds, Routes, SweepBegins, DayPasses, Files, HearOf, vars, Frame
<1>2. Routes => UNCHANGED stage
  BY DEF Routes, Routing, Check, ReadManifest, Install, listVars
<1>3. SweepBegins => UNCHANGED stage
  BY DEF SweepBegins, WatchExpire, listVars
<1>4. SweepEnds \/ DayPasses \/ UNCHANGED vars => UNCHANGED stage
  BY DEF SweepEnds, NothingExpired, DayPasses, NextDay, vars, registryVars, listVars
<1>5. ASSUME NEW t \in Tasks, Files(t) PROVE UNCHANGED stage
  BY <1>5 DEF Files, Acquire, WriteBegins, listVars
<1>6. ASSUME NEW p \in Peers, HearOf(p) PROVE UNCHANGED stage
  BY <1>6 DEF HearOf, Hear, listVars
<1>7. UNCHANGED stage
  BY <1>2, <1>3, <1>4, <1>5, <1>6
<1> QED
  BY <1>1, <1>7 DEF ConnInv, WorkerTypes, Linked, NotDialled, workerVars

LEMMA NextConn == ConnInv /\ [Next]_vars => ConnInv'
<1> SUFFICES ASSUME ConnInv, [Next]_vars PROVE ConnInv'
  OBVIOUS
<1>1. Inv'
  BY StepOfRegistry, NextInv DEF ConnInv
<1>2. WorkerTypes' /\ Linked'
  BY DialConn, GetHiConn, HiTimesOutConn, ThereConn, TransportConn, LeaveHereConn,
     WrittenConn, NotWrittenConn, RegistryConn DEF Next, Runs
<1> QED
  BY <1>1, <1>2 DEF ConnInv

(* Connections and registry stay well typed together.                      *)
THEOREM ConnectionTypes == Spec => []TypeOK
<1>1. ConnInv => TypeOK
  BY DEF ConnInv, Inv, WorkerTypes, TypeOK, Places
<1> QED
  BY <1>1, InitConn, NextConn, PTL DEF Spec

(* Whichever step of the handshake, of the update of the manifest or of    *)
(* unregister fails, or comes late: a connection is in its peer's list     *)
(* from its registration until its Worker begins to leave, and no longer.  *)
THEOREM RegisteredExactly == Spec => []RegisteredWhileServed
<1>1. ConnInv => RegisteredWhileServed
  <2> SUFFICES ASSUME ConnInv, NEW c \in Conns
               PROVE  /\ c \in members[Peer[c]] <=>
                           pc[c]["here"] \in {"registering", "serving", "failed"}
                      /\ pc[c]["here"] = "gone" =>
                           stage[c] \in {"out", "removed"} /\ step[c] = "idle"
    BY DEF RegisteredWhileServed
  <2>1. Fits(pc[c]["here"], stage[c]) /\ pc[c]["here"] \in Places
    BY DEF ConnInv, Linked, WorkerTypes, Sides
  <2>2. c \in members[Peer[c]] <=> stage[c] \in {"adding", "in", "raised"}
    BY DEF ConnInv, Inv, TaskInv
  <2>3. step[c] \in {"idle", "wants", "has", "writes", "dead"} /\ step[c] # "dead"
    BY DEF ConnInv, Inv, TaskInv, RegistryTypeOK, Tasks
  <2>4. step[c] \in Busy <=> stage[c] \in {"adding", "removing"}
    BY DEF ConnInv, Inv, TaskInv
  <2> QED
    BY <2>1, <2>2, <2>3, <2>4 DEF Fits, Places, Busy
<1> QED
  BY <1>1, InitConn, NextConn, PTL DEF Spec
=============================================================================
