------------------------ MODULE DurableBufferProofs -------------------------
(***************************************************************************)
(* Proofs about DurableBuffer, for any messages, any connections, any      *)
(* expiry time and any number of faults: the invariants, the reasons for   *)
(* which a message leaves the queue, and that the buffer implements        *)
(* MessageCustody.                                                         *)
(***************************************************************************)
EXTENDS DurableBuffer, TLAPS, SequenceTheorems

-----------------------------------------------------------------------------
(* What the operations on the queue do to the set of its elements and to   *)
(* its freedom from duplicates.                                            *)

(* The queue of a process that starts is a queue.                          *)
LEMMA EmptyIsQueue == <<>> \in Seq(Messages)
  OBVIOUS

(* put_ident() adds its item to the queued ones.                           *)
LEMMA AppendElements ==
  ASSUME NEW S, NEW s \in Seq(S), NEW x
  PROVE  ToSet(Append(s, x)) = ToSet(s) \union {x}
  <1>1. DOMAIN Append(s, x) = DOMAIN s \union {Len(s) + 1}
    OBVIOUS
  <1>2. \A i \in DOMAIN s : Append(s, x)[i] = s[i]
    OBVIOUS
  <1>3. Append(s, x)[Len(s) + 1] = x
    OBVIOUS
  <1> QED
    BY <1>1, <1>2, <1>3 DEF ToSet

(* An item that was not queued is queued once.                             *)
LEMMA AppendNoDuplicates ==
  ASSUME NEW S, NEW s \in Seq(S), NEW x, NoDuplicates(s), x \notin ToSet(s)
  PROVE  NoDuplicates(Append(s, x))
  <1>1. DOMAIN Append(s, x) = 1 .. Len(s) + 1 /\ DOMAIN s = 1 .. Len(s)
    OBVIOUS
  <1>2. \A k \in 1 .. Len(s) : s[k] # x /\ Append(s, x)[k] = s[k]
    BY <1>1 DEF ToSet
  <1>3. Append(s, x)[Len(s) + 1] = x
    OBVIOUS
  <1>4. ASSUME NEW i \in 1 .. Len(s) + 1, NEW j \in 1 .. Len(s) + 1,
               Append(s, x)[i] = Append(s, x)[j]
        PROVE  i = j
    <2>1. CASE i \in 1 .. Len(s) /\ j \in 1 .. Len(s)
      BY <1>1, <1>2, <1>4, <2>1 DEF NoDuplicates
    <2>2. CASE i = Len(s) + 1 \/ j = Len(s) + 1
      BY <1>2, <1>3, <1>4, <2>2
    <2> QED
      BY <2>1, <2>2
  <1> QED
    BY <1>1, <1>4 DEF NoDuplicates

(* get() takes the first item away, and only that one.                     *)
LEMMA TailElements ==
  ASSUME NEW S, NEW s \in Seq(S), s # <<>>, NoDuplicates(s)
  PROVE  /\ Tail(s) \in Seq(S)
         /\ Head(s) \in ToSet(s)
         /\ ToSet(Tail(s)) = ToSet(s) \ {Head(s)}
         /\ NoDuplicates(Tail(s))
  <1>1. /\ Tail(s) \in Seq(S)
        /\ Len(s) \in Nat /\ Len(s) > 0
        /\ DOMAIN Tail(s) = 1 .. Len(s) - 1
        /\ \A i \in 1 .. Len(s) - 1 : Tail(s)[i] = s[i + 1]
        /\ Head(s) = s[1]
        /\ DOMAIN s = 1 .. Len(s)
    OBVIOUS
  <1>2. Head(s) \in ToSet(s)
    BY <1>1 DEF ToSet
  <1>3. NoDuplicates(Tail(s))
    BY <1>1 DEF NoDuplicates
  <1>4. ToSet(Tail(s)) \subseteq ToSet(s) \ {Head(s)}
    BY <1>1 DEF ToSet, NoDuplicates
  <1>5. ASSUME NEW x \in ToSet(s) \ {Head(s)} PROVE x \in ToSet(Tail(s))
    <2>1. PICK i \in 1 .. Len(s) : x = s[i]
      BY <1>1 DEF ToSet
    <2>2. i - 1 \in 1 .. Len(s) - 1 /\ Tail(s)[i - 1] = x
      BY <1>1, <2>1
    <2> QED
      BY <1>1, <2>2 DEF ToSet
  <1> QED
    BY <1>1, <1>2, <1>3, <1>4, <1>5

(* The sweep keeps a beginning of the queue.                               *)
LEMMA KeptElements ==
  ASSUME NEW S, NEW s \in Seq(S), NEW n \in 0 .. Len(s), NoDuplicates(s)
  PROVE  /\ Kept(s, n) \in Seq(S)
         /\ ToSet(Kept(s, n)) \subseteq ToSet(s)
         /\ NoDuplicates(Kept(s, n))
         /\ DOMAIN Kept(s, n) = 1 .. n
         /\ \A i \in 1 .. n : Kept(s, n)[i] = s[i]
  <1>1. /\ SubSeq(s, 1, n) \in Seq(S)
        /\ DOMAIN SubSeq(s, 1, n) = 1 .. n
        /\ \A i \in 1 .. n : SubSeq(s, 1, n)[i] = s[i]
        /\ 1 .. n \subseteq DOMAIN s
    OBVIOUS
  <1> QED
    BY <1>1 DEF Kept, ToSet, NoDuplicates

-----------------------------------------------------------------------------
(* What taking and giving back an item does to the set of items held.      *)

(* get() adds the item it returns to those its connection holds.           *)
LEMMA HoldingTake ==
  ASSUME held \in [Consumers -> SUBSET Messages], NEW c \in Consumers, NEW m,
         held' = [held EXCEPT ![c] = @ \union {m}]
  PROVE  Holding' = Holding \union {m}
  BY DEF Holding

(* A connection that gives an item back, or is done with it, no longer     *)
(* holds it, and no other did.                                             *)
LEMMA HoldingDrop ==
  ASSUME held \in [Consumers -> SUBSET Messages], NEW c \in Consumers,
         NEW m \in held[c], OwnersDisjoint,
         held' = [held EXCEPT ![c] = @ \ {m}]
  PROVE  Holding' = Holding \ {m}
  BY DEF Holding, OwnersDisjoint

-----------------------------------------------------------------------------
(* The inductive invariant.  Each part needs the others: an item can be    *)
(* queued without becoming a duplicate because it had a single owner, and  *)
(* its file exists because nobody else could remove it.                    *)

Inv == TypeOK /\ OneOwner /\ StoredFileExists

(* The buffer of a process that starts satisfies the invariant.            *)
LEMMA InitInv == Init => Inv
  <1> SUFFICES ASSUME Init PROVE Inv
    OBVIOUS
  <1>1. TypeOK
    <2>1. q \in Seq(Messages) /\ manifest \in Seq(Messages) /\ snapshot \in Seq(Messages)
      BY EmptyIsQueue DEF Init
    <2>2. /\ files = {} /\ writing = {} /\ fresh = Messages
          /\ held = [c \in Consumers |-> {}]
          /\ deadline = [m \in Messages |-> 0]
          /\ dirty = FALSE /\ ready = FALSE
          /\ writer = "idle" /\ sweeper = "alive"
          /\ now = 0 /\ faults = 0
      BY DEF Init
    <2> QED
      BY <2>1, <2>2 DEF TypeOK
  <1>2. Holding = {} /\ ToSet(q) = {}
    BY DEF Init, Holding, ToSet
  <1>3. OneOwner
    BY <1>2 DEF Init, OneOwner, OwnersDisjoint, NoDuplicates
  <1> QED
    BY <1>1, <1>2, <1>3 DEF Inv, StoredFileExists

(* Each step of put(), get(), put_ident(), the removal of a file, the      *)
(* sweep, the manifest writer and a restart preserves it.                  *)
LEMMA NextInv == Inv /\ [Next]_vars => Inv'
  <1> SUFFICES ASSUME Inv, [Next]_vars PROVE Inv'
    OBVIOUS
  <1> USE DEF Inv
  <1>1. CASE StartManifest
    <2>1. q' = q
      BY <1>1 DEF StartManifest, LoadedItems, TypeOK
    <2>2. UNCHANGED <<files, fresh, writing, held>> /\ TypeOK'
      BY <1>1, <2>1 DEF StartManifest, TypeOK
    <2> QED
      BY <2>1, <2>2
      DEF OneOwner, OwnersDisjoint, NoDuplicates, StoredFileExists, Holding, ToSet
  <1>2. ASSUME NEW m \in Messages, PutBegin(m) PROVE Inv'
    <2>1. TypeOK'
      BY <1>2, TTLAssumption DEF PutBegin, TypeOK
    <2>2. q' = q /\ Holding' = Holding
      BY <1>2 DEF PutBegin, Holding
    <2>3. m \notin ToSet(q) \union Holding
      BY <1>2 DEF PutBegin, OneOwner, OwnersDisjoint
    <2> QED
      BY <1>2, <2>1, <2>2, <2>3
      DEF PutBegin, OneOwner, OwnersDisjoint, NoDuplicates, StoredFileExists, ToSet
  <1>3. ASSUME NEW m \in Messages, PutEnd(m) PROVE Inv'
    <2>1. TypeOK'
      BY <1>3 DEF PutEnd, TypeOK
    <2>2. Holding' = Holding /\ q \in Seq(Messages)
      BY <1>3 DEF PutEnd, Holding, TypeOK
    <2>3. m \notin ToSet(q) \union Holding
      BY <1>3 DEF PutEnd, OneOwner, OwnersDisjoint
    <2>4. ToSet(q') = ToSet(q) \union {m} /\ NoDuplicates(q')
      BY <1>3, <2>2, <2>3, AppendElements, AppendNoDuplicates DEF PutEnd, OneOwner
    <2> QED
      BY <1>3, <2>1, <2>2, <2>3, <2>4
      DEF PutEnd, OneOwner, OwnersDisjoint, StoredFileExists
  <1>4. ASSUME NEW m \in Messages, PutFail(m) PROVE Inv'
    <2>1. TypeOK'
      BY <1>4 DEF PutFail, TypeOK
    <2>2. q' = q /\ Holding' = Holding
      BY <1>4 DEF PutFail, Holding
    <2> QED
      BY <1>4, <2>1, <2>2
      DEF PutFail, OneOwner, OwnersDisjoint, NoDuplicates, StoredFileExists, ToSet
  <1>5. ASSUME NEW c \in Consumers, Get(c) PROVE Inv'
    <2>1. /\ q \in Seq(Messages) /\ q # <<>> /\ q' = Tail(q)
          /\ NoDuplicates(q)
      BY <1>5 DEF Get, TypeOK, OneOwner
    <2>2. /\ q' \in Seq(Messages) /\ NoDuplicates(q')
          /\ Head(q) \in ToSet(q)
          /\ ToSet(q') = ToSet(q) \ {Head(q)}
      BY <2>1, TailElements
    <2>3. Head(q) \in Messages
      BY <2>1
    <2>4. TypeOK'
      BY <1>5, <2>2, <2>3 DEF Get, TypeOK
    <2>5. CASE Expired(Head(q))
      <3>1. held' = held /\ Holding' = Holding
        BY <1>5, <2>5 DEF Get, Holding
      <3> QED
        BY <1>5, <2>2, <2>4, <3>1
        DEF Get, OneOwner, OwnersDisjoint, StoredFileExists
    <2>6. CASE ~Expired(Head(q))
      <3>1. held' = [held EXCEPT ![c] = @ \union {Head(q)}]
        BY <1>5, <2>6 DEF Get
      <3>2. Holding' = Holding \union {Head(q)}
        BY <3>1, HoldingTake DEF TypeOK
      <3>3. \A d \in Consumers : Head(q) \notin held[d]
        BY <2>2 DEF OneOwner, OwnersDisjoint, Holding
      <3>4. \A d, e \in Consumers : d # e => held'[d] \intersect held'[e] = {}
        BY <3>1, <3>3 DEF TypeOK, OneOwner, OwnersDisjoint
      <3> QED
        BY <1>5, <2>2, <2>4, <3>2, <3>4
        DEF Get, OneOwner, OwnersDisjoint, StoredFileExists
    <2> QED
      BY <2>5, <2>6
  <1>6. ASSUME NEW c \in Consumers, NEW m \in Messages, PutIdent(c, m) PROVE Inv'
    <2>1. /\ q \in Seq(Messages) /\ q' = Append(q, m)
          /\ NoDuplicates(q) /\ m \in held[c] /\ m \in Holding
          /\ held' = [held EXCEPT ![c] = @ \ {m}]
      BY <1>6 DEF PutIdent, TypeOK, OneOwner, Holding
    <2>2. m \notin ToSet(q)
      BY <2>1 DEF OneOwner, OwnersDisjoint
    <2>3. ToSet(q') = ToSet(q) \union {m} /\ NoDuplicates(q')
      BY <2>1, <2>2, AppendElements, AppendNoDuplicates
    <2>4. TypeOK'
      BY <1>6 DEF PutIdent, TypeOK
    <2>5. Holding' = Holding \ {m}
      BY <2>1, HoldingDrop DEF TypeOK, OneOwner
    <2>6. \A d, e \in Consumers : d # e => held'[d] \intersect held'[e] = {}
      BY <2>1 DEF TypeOK, OneOwner, OwnersDisjoint
    <2> QED
      BY <1>6, <2>1, <2>3, <2>4, <2>5, <2>6
      DEF PutIdent, OneOwner, OwnersDisjoint, StoredFileExists
  <1>7. ASSUME NEW c \in Consumers, NEW m \in Messages, Release(c, m) PROVE Inv'
    <2>1. /\ m \in held[c] /\ m \in Holding /\ q' = q
          /\ held' = [held EXCEPT ![c] = @ \ {m}]
      BY <1>7 DEF Release, Holding
    <2>2. TypeOK'
      BY <1>7 DEF Release, TypeOK
    <2>3. Holding' = Holding \ {m}
      BY <2>1, HoldingDrop DEF TypeOK, OneOwner
    <2>4. \A d, e \in Consumers : d # e => held'[d] \intersect held'[e] = {}
      BY <2>1 DEF TypeOK, OneOwner, OwnersDisjoint
    <2>5. m \notin ToSet(q)
      BY <2>1 DEF OneOwner, OwnersDisjoint
    <2> QED
      BY <1>7, <2>1, <2>2, <2>3, <2>4, <2>5
      DEF Release, OneOwner, OwnersDisjoint, NoDuplicates, StoredFileExists, ToSet
  <1>8. CASE ExpireAll
    <2>1. PICK n \in 0 .. Len(q) : q' = Kept(q, n)
      BY <1>8 DEF ExpireAll
    <2>2. /\ q' \in Seq(Messages) /\ NoDuplicates(q')
          /\ ToSet(q') \subseteq ToSet(q)
      BY <2>1, KeptElements DEF TypeOK, OneOwner
    <2>3. TypeOK'
      BY <1>8, <2>2 DEF ExpireAll, TypeOK
    <2>4. Holding' = Holding
      BY <1>8 DEF ExpireAll, Holding
    <2> QED
      BY <1>8, <2>2, <2>3, <2>4
      DEF ExpireAll, OneOwner, OwnersDisjoint, StoredFileExists
  <1>9. CASE WriterBegin \/ WriterEnd \/ WriterFail \/ Tick \/ UNCHANGED vars
    <2>1. TypeOK'
      <3>1. CASE WriterBegin
        BY <3>1 DEF WriterBegin, TypeOK
      <3>2. CASE WriterEnd
        <4>1. manifest' \in Seq(Messages) /\ snapshot' \in Seq(Messages)
          BY <3>2, EmptyIsQueue DEF WriterEnd, TypeOK
        <4>2. /\ writer' = "idle" /\ dirty' = FALSE
              /\ UNCHANGED <<q, files, ready, fresh, writing, held, deadline,
                             now, sweeper, faults>>
          BY <3>2 DEF WriterEnd
        <4> QED
          BY <4>1, <4>2 DEF TypeOK
      <3>3. CASE WriterFail
        <4>1. manifest' = manifest \/ manifest' = <<>>
          BY <3>3 DEF WriterFail
        <4>2. manifest' \in Seq(Messages) /\ snapshot' \in Seq(Messages)
          BY <3>3, <4>1, EmptyIsQueue DEF WriterFail, TypeOK
        <4>3. faults' \in Nat /\ writer' = "idle"
          BY <3>3 DEF WriterFail, TypeOK
        <4>4. UNCHANGED <<q, files, dirty, ready, fresh, writing, held,
                          deadline, now, sweeper>>
          BY <3>3 DEF WriterFail
        <4> QED
          BY <4>2, <4>3, <4>4 DEF TypeOK
      <3>4. CASE Tick \/ UNCHANGED vars
        BY <3>4 DEF Tick, vars, TypeOK
      <3> QED
        BY <1>9, <3>1, <3>2, <3>3, <3>4
    <2>2. UNCHANGED <<q, files, fresh, writing, held>>
      BY <1>9 DEF WriterBegin, WriterEnd, WriterFail, Tick, vars
    <2> QED
      BY <2>1, <2>2
      DEF OneOwner, OwnersDisjoint, NoDuplicates, StoredFileExists, Holding, ToSet
  <1>10. CASE Restart
    <2>1. TypeOK'
      <3>1. manifest' = manifest \/ manifest' = <<>> \/ manifest' = snapshot
        BY <1>10 DEF Restart
      <3>2. manifest' \in Seq(Messages)
        BY <3>1, EmptyIsQueue DEF TypeOK
      <3>3. files' \in SUBSET Messages
        BY <1>10 DEF Restart, TypeOK
      <3>4. q' \in Seq(Messages) /\ snapshot' \in Seq(Messages)
        BY <1>10, EmptyIsQueue DEF Restart
      <3>5. /\ writing' = {} /\ held' = [c \in Consumers |-> {}]
            /\ ready' = FALSE /\ dirty' = FALSE
            /\ writer' = "idle" /\ sweeper' = "alive"
            /\ faults' = faults + 1 /\ UNCHANGED <<fresh, deadline, now>>
        BY <1>10 DEF Restart
      <3>6. /\ held' \in [Consumers -> SUBSET Messages]
            /\ writing' \in SUBSET Messages /\ fresh' \in SUBSET Messages
            /\ faults' \in Nat /\ now' \in Nat /\ deadline' \in [Messages -> Nat]
        BY <3>5 DEF TypeOK
      <3>7. /\ dirty' \in BOOLEAN /\ ready' \in BOOLEAN
            /\ writer' \in {"idle", "writing"} /\ sweeper' \in {"alive", "dead"}
        BY <3>5
      <3> QED
        BY <3>2, <3>3, <3>4, <3>6, <3>7 DEF TypeOK
    <2>2. /\ Holding' = {} /\ ToSet(q') = {} /\ q' = <<>>
          /\ \A d \in Consumers : held'[d] = {}
          /\ fresh' = fresh /\ writing' = {}
      BY <1>10 DEF Restart, Holding, ToSet
    <2> QED
      BY <2>1, <2>2 DEF OneOwner, OwnersDisjoint, NoDuplicates, StoredFileExists
  <1> QED
    BY <1>1, <1>2, <1>3, <1>4, <1>5, <1>6, <1>7, <1>8, <1>9, <1>10 DEF Next, Use

(* The inductive invariant holds in every state.                           *)
LEMMA Invariance == Spec => []Inv
  BY InitInv, NextInv, PTL DEF Spec

(* The state of the buffer is always well typed.                           *)
THEOREM TypeCorrect == Spec => []TypeOK
  BY Invariance, PTL DEF Inv

(* A message always has at most one owner.                                 *)
THEOREM OwnersAreUnique == Spec => []OneOwner
  BY Invariance, PTL DEF Inv

(* The payload file of every stored or held message is on disk.            *)
THEOREM StoredFilesExist == Spec => []StoredFileExists
  BY Invariance, PTL DEF Inv

-----------------------------------------------------------------------------
(* How messages leave the queue, and in which order they stay on it.       *)

(* Only get(), the sweep and a restart take messages off the queue.        *)
LEMMA OthersKeepQueue ==
  ASSUME Inv, [Next]_vars,
         ~ \E c \in Consumers : Get(c), ~ExpireAll, ~Restart
  PROVE  ToSet(q) \subseteq ToSet(q')
  <1>1. q \in Seq(Messages)
    BY DEF Inv, TypeOK
  <1>2. \A m : ToSet(q) \subseteq ToSet(Append(q, m))
    BY <1>1, AppendElements
  <1>3. CASE StartManifest
    BY <1>1, <1>3 DEF StartManifest, LoadedItems, ToSet
  <1>4. CASE \E m \in Messages : PutEnd(m) \/ \E c \in Consumers : PutIdent(c, m)
    BY <1>2, <1>4 DEF PutEnd, PutIdent
  <1>5. CASE UNCHANGED q
    BY <1>5 DEF ToSet
  <1> QED
    BY <1>3, <1>4, <1>5
    DEF Next, Use, vars, PutBegin, PutFail, Release, WriterBegin, WriterEnd,
        WriterFail, Tick

(* A message leaves the queue to a connection, expired, behind an expired  *)
(* one in the sweep that failed on it, or in a restart.                    *)
THEOREM LeavesOnlyForAReason == Spec => LeavesForAReason
  <1> DEFINE Reason(m) ==
        m \in Holding' \/ Expired(m) \/ TakenBySweep(m) \/ ~ready'
  <1>1. ASSUME Inv, [Next]_vars, NEW m \in ToSet(q) \ ToSet(q')
        PROVE  Reason(m)
    <2>1. q \in Seq(Messages) /\ NoDuplicates(q)
      BY <1>1 DEF Inv, TypeOK, OneOwner
    <2>2. CASE \E c \in Consumers : Get(c)
      <3>1. PICK c \in Consumers : Get(c)
        BY <2>2
      <3>2. m = Head(q)
        BY <1>1, <2>1, <3>1, TailElements DEF Get
      <3>3. CASE Expired(Head(q))
        BY <3>2, <3>3
      <3>4. CASE ~Expired(Head(q))
        <4>1. held' = [held EXCEPT ![c] = @ \union {Head(q)}]
          BY <3>1, <3>4 DEF Get
        <4>2. Holding' = Holding \union {Head(q)}
          BY <1>1, <4>1, HoldingTake DEF Inv, TypeOK
        <4> QED
          BY <3>2, <4>2
      <3> QED
        BY <3>3, <3>4
    <2>3. CASE ExpireAll
      <3>1. PICK n \in 0 .. Len(q) :
              /\ SweepStopsAfter(n) /\ q' = Kept(q, n)
              /\ sweeper' = IF n = Len(q) THEN "alive" ELSE "dead"
        BY <2>3 DEF ExpireAll
      <3>2. PICK i \in 1 .. Len(q) : m = q[i]
        BY <1>1, <2>1 DEF ToSet
      <3>3. i \notin 1 .. n
        <4>1. ASSUME i \in 1 .. n PROVE FALSE
          BY <1>1, <2>1, <3>1, <3>2, <4>1, KeptElements DEF ToSet
        <4> QED
          BY <4>1
      <3>4. n + 1 \in 1 .. Len(q) /\ Expired(q[n + 1]) /\ n + 1 <= i
        BY <2>1, <3>1, <3>3 DEF SweepStopsAfter
      <3>5. CASE i = n + 1
        BY <3>2, <3>4, <3>5
      <3>6. CASE n + 1 < i
        <4>1. q[n + 1] \in ToSet(q) /\ Before(q, q[n + 1], m)
          BY <2>1, <3>2, <3>4, <3>6 DEF ToSet, Before
        <4>2. sweeper = "alive" /\ sweeper' = "dead"
          BY <2>1, <2>3, <3>1, <3>4 DEF ExpireAll
        <4> QED
          BY <3>4, <4>1, <4>2 DEF TakenBySweep
      <3> QED
        BY <3>4, <3>5, <3>6
    <2>4. CASE Restart
      BY <2>4 DEF Restart
    <2> QED
      BY <1>1, <2>2, <2>3, <2>4, OthersKeepQueue
  <1>2. Inv /\ [Next]_vars
          => [\A m \in ToSet(q) \ ToSet(q') : Reason(m)]_vars
    BY <1>1
  <1> QED
    BY <1>2, Invariance, PTL DEF Spec, LeavesForAReason

(* Messages that stay on the queue keep their order.                       *)
THEOREM OrderIsKept == Spec => OrderKept
  <1>1. ASSUME Inv, [Next]_vars,
               NEW a \in ToSet(q) \intersect ToSet(q'),
               NEW b \in ToSet(q) \intersect ToSet(q'),
               Before(q, a, b)
        PROVE  Before(q', a, b)
    <2>1. q \in Seq(Messages) /\ NoDuplicates(q)
      BY <1>1 DEF Inv, TypeOK, OneOwner
    <2>2. PICK i \in 1 .. Len(q), j \in 1 .. Len(q) : i < j /\ q[i] = a /\ q[j] = b
      BY <1>1, <2>1 DEF Before
    <2>3. ASSUME NEW m, q' = Append(q, m) PROVE Before(q', a, b)
      <3>1. /\ DOMAIN q' = 1 .. Len(q) + 1
            /\ \A k \in 1 .. Len(q) : q'[k] = q[k]
        BY <2>1, <2>3
      <3> QED
        BY <2>2, <3>1 DEF Before
    <2>4. CASE \E c \in Consumers : Get(c)
      <3>1. q # <<>> /\ q' = Tail(q)
        BY <2>4 DEF Get
      <3>2. a # Head(q)
        BY <1>1, <2>1, <3>1, TailElements
      <3>3. i # 1
        BY <2>1, <2>2, <3>1, <3>2
      <3>4. /\ i - 1 \in DOMAIN q' /\ j - 1 \in DOMAIN q'
            /\ q'[i - 1] = a /\ q'[j - 1] = b
        BY <2>1, <2>2, <3>1, <3>3
      <3> QED
        BY <2>2, <3>4 DEF Before
    <2>5. CASE ExpireAll
      <3>1. PICK n \in 0 .. Len(q) : q' = Kept(q, n)
        BY <2>5 DEF ExpireAll
      <3>2. /\ DOMAIN q' = 1 .. n
            /\ \A k \in 1 .. n : q'[k] = q[k]
        BY <2>1, <3>1, KeptElements
      <3>3. PICK k \in 1 .. n : q'[k] = b
        BY <1>1, <3>2 DEF ToSet
      <3>4. k = j
        BY <2>1, <2>2, <3>2, <3>3 DEF NoDuplicates
      <3>5. i \in 1 .. n /\ j \in 1 .. n
        BY <2>2, <3>3, <3>4
      <3> QED
        BY <2>2, <3>2, <3>5 DEF Before
    <2>6. CASE Restart
      BY <1>1, <2>6 DEF Restart, ToSet
    <2>7. CASE StartManifest \/ UNCHANGED q
      <3>1. q' = q
        BY <2>1, <2>7 DEF StartManifest, LoadedItems
      <3> QED
        BY <1>1, <3>1 DEF Before
    <2> QED
      BY <1>1, <2>3, <2>4, <2>5, <2>6, <2>7
      DEF Next, Use, vars, PutBegin, PutEnd, PutFail, PutIdent, Release,
          WriterBegin, WriterEnd, WriterFail, Tick
  <1>2. Inv /\ [Next]_vars
          => [\A a, b \in ToSet(q) \intersect ToSet(q') :
                Before(q, a, b) => Before(q', a, b)]_vars
    BY <1>1
  <1> QED
    BY <1>2, Invariance, PTL DEF Spec, OrderKept

-----------------------------------------------------------------------------
(* The buffer implements MessageCustody.                                   *)

Owner == [m \in Messages |-> OwnerOf(m)]

(* Where a message is says who owns it.                                    *)
OwnerOfPlace ==
  \A m \in Messages :
    /\ m \in fresh \union writing => Owner[m] = "producer"
    /\ m \in ToSet(q) => Owner[m] = "buffer"
    /\ \A c \in Consumers : m \in held[c] => Owner[m] = c
    /\ m \notin fresh \union writing \union ToSet(q) \union Holding
         => Owner[m] = "gone"

(* The owners being disjoint, the abstract owner is the one place of the   *)
(* message.                                                                *)
LEMMA OwnerCases == Inv => OwnerOfPlace
  <1> SUFFICES ASSUME Inv, NEW m \in Messages
               PROVE  /\ m \in fresh \union writing => Owner[m] = "producer"
                      /\ m \in ToSet(q) => Owner[m] = "buffer"
                      /\ \A c \in Consumers : m \in held[c] => Owner[m] = c
                      /\ m \notin fresh \union writing \union ToSet(q) \union Holding
                           => Owner[m] = "gone"
    BY DEF OwnerOfPlace
  <1>1. Owner[m] = OwnerOf(m)
    BY DEF Owner
  <1>2. OwnersDisjoint
    BY DEF Inv, OneOwner
  <1>3. ASSUME NEW c \in Consumers, m \in held[c] PROVE Owner[m] = c
    <2>1. m \in Holding
      BY <1>3 DEF Holding
    <2>2. m \notin fresh \union writing /\ m \notin ToSet(q)
      BY <1>2, <2>1 DEF OwnersDisjoint
    <2>3. \A d \in Consumers : m \in held[d] => d = c
      BY <1>2, <1>3 DEF OwnersDisjoint
    <2>4. (CHOOSE d \in Consumers : m \in held[d]) = c
      BY <1>3, <2>3
    <2> QED
      BY <1>1, <2>1, <2>2, <2>4 DEF OwnerOf
  <1>4. m \in ToSet(q) => Owner[m] = "buffer"
    BY <1>1, <1>2 DEF OwnerOf, OwnersDisjoint
  <1> QED
    BY <1>1, <1>3, <1>4 DEF OwnerOf

(* A message that does not move keeps its owner.                           *)
LEMMA SamePlace ==
  ASSUME OwnerOfPlace, OwnerOfPlace', NEW m \in Messages,
         m \in fresh \union writing <=> m \in fresh' \union writing',
         m \in ToSet(q) <=> m \in ToSet(q'),
         \A c \in Consumers : m \in held[c] <=> m \in held'[c]
  PROVE  Owner'[m] = Owner[m]
  BY DEF OwnerOfPlace, Holding

(* A message in no place after a step is gone.                             *)
LEMMA NoPlace ==
  ASSUME OwnerOfPlace', NEW m \in Messages,
         m \notin fresh' \union writing', m \notin ToSet(q'),
         \A c \in Consumers : m \notin held'[c]
  PROVE  Owner'[m] = "gone"
  BY DEF OwnerOfPlace, Holding

(* When one message alone changes owner, the others being the same, the    *)
(* mapping changes at that message.                                        *)
LEMMA OneMoves ==
  ASSUME NEW m \in Messages, NEW o, Owner'[m] = o,
         \A n \in Messages \ {m} : Owner'[n] = Owner[n]
  PROVE  Owner' = [Owner EXCEPT ![m] = o]
  BY DEF Owner

(* When some messages leave whoever owned them for nobody, and no other    *)
(* moves, the abstract buffer discards them.                               *)
LEMMA SomeGo ==
  ASSUME NEW S \in SUBSET Messages,
         \A m \in S : Owner'[m] = "gone",
         \A m \in Messages \ S : Owner'[m] = Owner[m]
  PROVE  Custody!Next
  <1>1. Owner' = [m \in Messages |-> IF m \in S THEN "gone" ELSE Owner[m]]
    BY DEF Owner
  <1>2. Custody!Discard(S)
    BY <1>1 DEF Owner, Custody!Discard, Custody!Gone
  <1> QED
    BY <1>2 DEF Custody!Next

(* Every step of the buffer changes owners as MessageCustody allows.       *)
LEMMA StepsAreCustodySteps ==
  ASSUME Inv, Inv', [Next]_vars
  PROVE  Custody!Next \/ UNCHANGED Owner
  <1>1. OwnerOfPlace
    BY OwnerCases
  <1>2. OwnerOfPlace'
    <2>1. (Inv => OwnerOfPlace)'
      BY OwnerCases, PTL
    <2> QED
      BY <2>1
  <1>3. /\ q \in Seq(Messages) /\ NoDuplicates(q) /\ OwnersDisjoint
        /\ held \in [Consumers -> SUBSET Messages]
        /\ \A c \in Consumers : held[c] \subseteq Holding
        /\ ToSet(q) \subseteq Messages
    BY DEF Inv, TypeOK, OneOwner, Holding, ToSet
  <1>4. ASSUME UNCHANGED <<q, held>>, fresh' \union writing' = fresh \union writing
        PROVE  UNCHANGED Owner
    <2>1. \A m \in Messages : Owner'[m] = Owner[m]
      BY <1>1, <1>2, <1>4, SamePlace
    <2> QED
      BY <2>1 DEF Owner
  <1>5. CASE StartManifest
    BY <1>3, <1>4, <1>5 DEF StartManifest, LoadedItems
  <1>6. ASSUME NEW m \in Messages, PutBegin(m) PROVE UNCHANGED Owner
    BY <1>4, <1>6 DEF PutBegin
  <1>7. ASSUME NEW m \in Messages, PutEnd(m) PROVE Custody!Next
    <2>1. ToSet(q') = ToSet(q) \union {m}
      BY <1>3, <1>7, AppendElements DEF PutEnd
    <2>2. Owner[m] = "producer" /\ Owner'[m] = "buffer"
      BY <1>1, <1>2, <1>7, <2>1 DEF PutEnd, OwnerOfPlace
    <2>3. \A n \in Messages \ {m} : Owner'[n] = Owner[n]
      BY <1>1, <1>2, <1>7, <2>1, SamePlace DEF PutEnd
    <2>4. Custody!Accept(m)
      BY <2>2, <2>3, OneMoves
      DEF Owner, Custody!Accept, Custody!Producer, Custody!Buffer
    <2> QED
      BY <2>4 DEF Custody!Next
  <1>8. ASSUME NEW m \in Messages, PutFail(m) PROVE Custody!Next
    <2>1. /\ m \notin fresh' \union writing' /\ m \notin ToSet(q')
          /\ \A c \in Consumers : m \notin held'[c]
      BY <1>3, <1>8 DEF PutFail, OwnersDisjoint
    <2>2. Owner'[m] = "gone"
      BY <1>2, <2>1, NoPlace
    <2>3. \A n \in Messages \ {m} : Owner'[n] = Owner[n]
      BY <1>1, <1>2, <1>8, SamePlace DEF PutFail
    <2>4. {m} \in SUBSET Messages /\ \A n \in {m} : Owner'[n] = "gone"
      BY <2>2
    <2> QED
      BY <2>3, <2>4, SomeGo
  <1>9. ASSUME NEW c \in Consumers, Get(c) PROVE Custody!Next
    <2> DEFINE m == Head(q)
    <2>1. /\ m \in ToSet(q) /\ m \in Messages
          /\ ToSet(q') = ToSet(q) \ {m}
          /\ UNCHANGED <<fresh, writing>>
      BY <1>3, <1>9, TailElements DEF Get
    <2>2. m \notin fresh \union writing /\ \A d \in Consumers : m \notin held[d]
      BY <1>3, <2>1 DEF OwnersDisjoint
    <2> HIDE DEF m
    <2>3. CASE Expired(m)
      <3>1. held' = held
        BY <1>9, <2>3 DEF Get, m
      <3>2. Owner'[m] = "gone"
        BY <1>2, <2>1, <2>2, <3>1, NoPlace
      <3>3. \A n \in Messages \ {m} : Owner'[n] = Owner[n]
        BY <1>1, <1>2, <2>1, <3>1, SamePlace
      <3> QED
        BY <2>1, <3>2, <3>3, SomeGo
    <2>4. CASE ~Expired(m)
      <3>1. held' = [held EXCEPT ![c] = @ \union {m}]
        BY <1>9, <2>4 DEF Get, m
      <3>2. Owner[m] = "buffer" /\ Owner'[m] = c
        BY <1>1, <1>2, <1>3, <2>1, <3>1 DEF OwnerOfPlace
      <3>3. \A n \in Messages \ {m} : Owner'[n] = Owner[n]
        BY <1>1, <1>2, <1>3, <2>1, <3>1, SamePlace
      <3>4. Custody!Hand(m, c)
        BY <2>1, <3>2, <3>3, OneMoves DEF Owner, Custody!Hand, Custody!Buffer
      <3> QED
        BY <2>1, <3>4 DEF Custody!Next
    <2> QED
      BY <2>3, <2>4
  <1>10. ASSUME NEW c \in Consumers, NEW m \in Messages, PutIdent(c, m)
         PROVE  Custody!Next
    <2>1. /\ ToSet(q') = ToSet(q) \union {m} /\ m \in held[c]
          /\ held' = [held EXCEPT ![c] = @ \ {m}]
          /\ UNCHANGED <<fresh, writing>>
      BY <1>3, <1>10, AppendElements DEF PutIdent
    <2>2. Owner[m] = c /\ Owner'[m] = "buffer"
      BY <1>1, <1>2, <2>1 DEF OwnerOfPlace
    <2>3. \A n \in Messages \ {m} : Owner'[n] = Owner[n]
      BY <1>1, <1>2, <1>3, <2>1, SamePlace
    <2>4. Custody!Return(m, c)
      BY <2>2, <2>3, OneMoves DEF Owner, Custody!Return, Custody!Buffer
    <2> QED
      BY <2>4 DEF Custody!Next
  <1>11. ASSUME NEW c \in Consumers, NEW m \in Messages, Release(c, m)
         PROVE  Custody!Next
    <2>1. /\ m \in held[c] /\ held' = [held EXCEPT ![c] = @ \ {m}]
          /\ UNCHANGED <<q, fresh, writing>>
      BY <1>11 DEF Release
    <2>2. m \notin fresh \union writing /\ m \notin ToSet(q)
      BY <1>3, <2>1 DEF OwnersDisjoint
    <2>3. \A d \in Consumers : m \notin held'[d]
      BY <1>3, <2>1 DEF OwnersDisjoint
    <2>4. Owner'[m] = "gone"
      BY <1>2, <2>1, <2>2, <2>3, NoPlace
    <2>5. \A n \in Messages \ {m} : Owner'[n] = Owner[n]
      BY <1>1, <1>2, <1>3, <2>1, SamePlace
    <2>6. {m} \in SUBSET Messages /\ \A n \in {m} : Owner'[n] = "gone"
      BY <2>4
    <2> QED
      BY <2>5, <2>6, SomeGo
  <1>12. CASE ExpireAll
    <2> DEFINE S == ToSet(q) \ ToSet(q')
    <2>1. PICK n \in 0 .. Len(q) : q' = Kept(q, n)
      BY <1>12 DEF ExpireAll
    <2>2. ToSet(q') \subseteq ToSet(q) /\ UNCHANGED <<fresh, writing, held>>
      BY <1>3, <1>12, <2>1, KeptElements DEF ExpireAll
    <2>3. \A m \in S : /\ m \notin fresh' \union writing' /\ m \notin ToSet(q')
                       /\ \A c \in Consumers : m \notin held'[c]
      BY <1>3, <2>2 DEF OwnersDisjoint
    <2>4. S \in SUBSET Messages
      BY <1>3
    <2>5. \A m \in S : Owner'[m] = "gone"
      BY <1>2, <2>3, <2>4, NoPlace
    <2>6. \A m \in Messages \ S : Owner'[m] = Owner[m]
      BY <1>1, <1>2, <2>2, SamePlace
    <2> QED
      BY <2>4, <2>5, <2>6, SomeGo
  <1>13. CASE Restart
    <2> DEFINE S == {m \in Messages : m \notin fresh}
    <2>1. /\ fresh' = fresh /\ writing' = {} /\ ToSet(q') = {}
          /\ \A c \in Consumers : held'[c] = {}
      BY <1>13 DEF Restart, ToSet
    <2>2. \A m \in S : Owner'[m] = "gone"
      BY <1>2, <2>1, NoPlace
    <2>3. \A m \in Messages \ S :
            /\ m \notin ToSet(q) /\ \A c \in Consumers : m \notin held[c]
      BY <1>3 DEF OwnersDisjoint
    <2>4. \A m \in Messages \ S : Owner'[m] = Owner[m]
      BY <1>1, <1>2, <2>1, <2>3, SamePlace
    <2> QED
      BY <2>2, <2>4, SomeGo
  <1>14. CASE WriterBegin \/ WriterEnd \/ WriterFail \/ Tick \/ UNCHANGED vars
    BY <1>4, <1>14 DEF WriterBegin, WriterEnd, WriterFail, Tick, vars
  <1> QED
    BY <1>5, <1>6, <1>7, <1>8, <1>9, <1>10, <1>11, <1>12, <1>13, <1>14
    DEF Next, Use

(* The buffer implements the account of message ownership.                 *)
THEOREM ImplementsCustody == Spec => CustodySpec
  <1>1. Init => Custody!Init
    <2> SUFFICES ASSUME Init PROVE Custody!Init
      OBVIOUS
    <2>1. OwnerOfPlace
      BY InitInv, OwnerCases
    <2>2. \A m \in Messages : Owner[m] = "producer"
      BY <2>1 DEF Init, OwnerOfPlace
    <2> QED
      BY <2>2 DEF Owner, Custody!Init, Custody!Producer
  <1>2. Inv /\ Inv' /\ [Next]_vars => Custody!Next \/ UNCHANGED Owner
    BY StepsAreCustodySteps
  <1>3. Inv /\ Inv' /\ [Next]_vars => [Custody!Next]_Owner
    BY <1>2
  <1> QED
    BY <1>1, <1>3, Invariance, PTL DEF Spec, CustodySpec, Custody!Spec, Owner
=============================================================================
