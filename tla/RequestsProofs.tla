--------------------------- MODULE RequestsProofs ---------------------------
(***************************************************************************)
(* Proofs about Work and Requests.  Of the work manager alone, for any     *)
(* requests, any number of runs of handle() and of threads: the jobs are   *)
(* well typed and never more actions run than there are threads, the eof   *)
(* message of an action that ended counts what the action put into its     *)
(* queue, and the list that a ping reports is the list of what is served.  *)
(* Of the mesh, for any tables and any number of faults: the work manager  *)
(* in it is the one of Work, so that those results hold with the router,   *)
(* the links and the restarts around it; messages are well typed; and no   *)
(* request vanishes without a trace.                                       *)
(***************************************************************************)
EXTENDS Requests, TLAPS, WellOrdering, SequenceTheorems, FunctionTheorems,
        FiniteSetTheorems

(* ---------------------------- the work manager ------------------------- *)

(* WorkTypeOK but for the number of running actions.                       *)
JobTypes ==
  /\ calls \in 0 .. MaxJobs
  /\ request \in Seq(Requests) /\ Len(request) = calls
  /\ phase \in [Jobs -> {"none", "serving", "ok", "error", "lost"}]
  /\ serial \in [Jobs -> Nat] /\ put \in [Jobs -> Nat]
  /\ queue \in [Jobs -> Seq(Items \union {Sentinel})]
  /\ thread \in [Jobs -> {"off", "queued", "running", "over", "closed", "lost"}]

(* A run of handle() that has not begun has left no trace.                 *)
Unused(j) ==
  /\ phase[j] = "none" /\ thread[j] = "off" /\ queue[j] = <<>>
  /\ serial[j] = 0 /\ put[j] = 0

(* While it is served its action is not lost; the sentinel is in the queue *)
(* once the callback has run, and nothing comes after it.                  *)
SentinelIsLast(j) ==
  /\ thread[j] \in {"queued", "running", "over", "closed"}
  /\ \A i \in DOMAIN queue[j] :
       queue[j][i] = Sentinel => thread[j] = "closed" /\ i = Len(queue[j])

Inv ==
  /\ JobTypes
  /\ \A j \in Jobs : j > calls => Unused(j)
  /\ \A j \in Jobs : phase[j] = "serving" => SentinelIsLast(j)
  /\ EofCountsResponses
-----------------------------------------------------------------------------

(* What the coroutine leaves of a queue when it takes the first item.      *)
LEMMA TailOf ==
  ASSUME NEW S, NEW s \in Seq(S), s # <<>>
  PROVE  /\ Tail(s) \in Seq(S) /\ Len(s) \in Nat \ {0} /\ Len(Tail(s)) = Len(s) - 1
         /\ Head(s) = s[1] /\ 1 \in DOMAIN s
         /\ \A i \in DOMAIN Tail(s) :
              i \in Nat /\ i + 1 \in DOMAIN s /\ Tail(s)[i] = s[i + 1]
<1>1. Len(s) \in Nat \ {0}
  BY EmptySeq, LenProperties
<1>2. DOMAIN s = 1 .. Len(s)
  BY LenProperties
<1>3. Tail(s) \in Seq(S) /\ Len(Tail(s)) = Len(s) - 1 /\ Head(s) = s[1]
  BY HeadTailProperties
<1>4. DOMAIN Tail(s) = 1 .. Len(s) - 1
  BY <1>3, LenProperties
<1>5. \A i \in 1 .. Len(s) - 1 : Tail(s)[i] = s[i + 1]
  BY HeadTailProperties
<1> QED
  BY <1>1, <1>2, <1>3, <1>4, <1>5

(* The work manager starts without jobs.                                   *)
LEMMA InitInv == WorkInit => Inv
<1> SUFFICES ASSUME WorkInit PROVE Inv
  OBVIOUS
<1>1. JobTypes
  BY WorkAssumption DEF WorkInit, JobTypes, Jobs
<1> QED
  BY <1>1 DEF WorkInit, Inv, Unused, EofCountsResponses, Jobs

(* An action that is started, returns or raises: the queues stay.          *)
LEMMA ThreadMoves ==
  ASSUME Inv, NEW j \in Jobs, ThreadStart(j) \/ Return(j)
  PROVE  Inv'
<1>1. JobTypes'
  BY DEF Inv, JobTypes, ThreadStart, Return
<1>2. phase[j] # "none" => j <= calls
  BY DEF Inv, Unused, Jobs, JobTypes
<1>3. j <= calls
  BY DEF Inv, Unused, ThreadStart, Return, Jobs, JobTypes
<1>4. \A k \in Jobs : k # j => thread'[k] = thread[k]
  BY DEF Inv, JobTypes, ThreadStart, Return
<1>5. thread[j] \notin {"closed", "off", "lost"} /\ thread'[j] \notin {"closed", "off", "lost"}
  BY DEF Inv, JobTypes, ThreadStart, Return
<1>6. UNCHANGED <<calls, request, phase, serial, queue, put>>
  BY DEF ThreadStart, Return
<1>7. thread'[j] \in {"queued", "running", "over", "closed"}
  BY <1>1, <1>5 DEF JobTypes
<1>8. (\A k \in Jobs : k > calls => Unused(k))'
  BY <1>3, <1>4, <1>6 DEF Inv, Unused, Jobs, JobTypes
<1>9. (\A k \in Jobs : phase[k] = "serving" => SentinelIsLast(k))'
  <2> SUFFICES ASSUME NEW k \in Jobs, phase[k] = "serving" PROVE SentinelIsLast(k)'
    BY <1>6
  <2>1. SentinelIsLast(k)
    BY DEF Inv
  <2>2. CASE k = j
    BY <1>5, <1>6, <1>7, <2>1, <2>2 DEF SentinelIsLast
  <2>3. CASE k # j
    BY <1>4, <1>6, <2>1, <2>3 DEF SentinelIsLast
  <2> QED
    BY <2>2, <2>3
<1>10. EofCountsResponses'
  <2> SUFFICES ASSUME NEW k \in Jobs
               PROVE  /\ phase[k] = "ok" => thread'[k] = "closed" /\ serial[k] = put[k]
                      /\ phase[k] = "serving" =>
                           serial[k] + Len(queue[k]) =
                             IF thread'[k] = "closed" THEN put[k] + 1 ELSE put[k]
    BY <1>6 DEF EofCountsResponses
  <2> QED
    BY <1>4, <1>5 DEF Inv, EofCountsResponses
<1> QED
  BY <1>1, <1>8, <1>9, <1>10 DEF Inv

(* What an action or its callback puts into the queue goes to its end.     *)
LEMMA QueueGrows ==
  ASSUME Inv, NEW j \in Jobs, Close(j) \/ \E item \in Items : Put(j, item)
  PROVE  Inv'
<1>1. PICK item \in Items \union {Sentinel} :
        /\ queue' = [queue EXCEPT ![j] = Append(@, item)]
        /\ IF item = Sentinel
           THEN /\ thread[j] = "over" /\ thread' = [thread EXCEPT ![j] = "closed"]
                /\ put' = put
           ELSE /\ thread[j] = "running" /\ thread' = thread
                /\ put' = [put EXCEPT ![j] = @ + 1]
  <2>1. CASE Close(j)
    BY <2>1 DEF Close, Closed
  <2>2. CASE \E item \in Items : Put(j, item)
    BY <2>2 DEF Put, Items, Sentinel
  <2> QED
    BY <2>1, <2>2
<1>2. UNCHANGED <<calls, request, phase, serial>>
  BY DEF Close, Put
<1>3. \A k \in Jobs : k # j => UNCHANGED <<thread[k], queue[k], put[k]>>
  BY <1>1 DEF Inv, JobTypes
<1>4. queue[j] \in Seq(Items \union {Sentinel}) /\ queue'[j] = Append(queue[j], item)
  BY <1>1 DEF Inv, JobTypes
<1>5. JobTypes'
  <2>1. Append(queue[j], item) \in Seq(Items \union {Sentinel})
    BY <1>4
  <2>2. queue' \in [Jobs -> Seq(Items \union {Sentinel})]
    BY <1>1, <2>1 DEF Inv, JobTypes
  <2>3. put' \in [Jobs -> Nat]
    <3>1. put \in [Jobs -> Nat]
      BY DEF Inv, JobTypes
    <3>2. put' = put \/ put' = [put EXCEPT ![j] = @ + 1]
      BY <1>1
    <3> QED
      BY <3>1, <3>2
  <2>4. thread' \in [Jobs -> {"off", "queued", "running", "over", "closed", "lost"}]
    BY <1>1 DEF Inv, JobTypes
  <2> QED
    BY <1>2, <2>2, <2>3, <2>4 DEF Inv, JobTypes
<1>6. j <= calls
  BY <1>1 DEF Inv, Unused, Jobs, JobTypes
<1>7. (\A k \in Jobs : k > calls => Unused(k))'
  BY <1>2, <1>3, <1>6 DEF Inv, Unused, Jobs, JobTypes
<1>8. (\A k \in Jobs : phase[k] = "serving" => SentinelIsLast(k))'
  <2> SUFFICES ASSUME NEW k \in Jobs, phase[k] = "serving" PROVE SentinelIsLast(k)'
    BY <1>2
  <2>1. SentinelIsLast(k)
    BY DEF Inv
  <2>2. CASE k = j
    <3>1. \A i \in DOMAIN queue[j] : queue[j][i] # Sentinel
      BY <1>1, <2>1, <2>2 DEF SentinelIsLast
    <3>2. DOMAIN queue'[j] = DOMAIN queue[j] \union {Len(queue[j]) + 1}
      BY <1>4
    <3>3. \A i \in DOMAIN queue[j] : queue'[j][i] = queue[j][i]
      BY <1>4
    <3>4. queue'[j][Len(queue[j]) + 1] = item /\ Len(queue'[j]) = Len(queue[j]) + 1
      BY <1>4
    <3>5. thread'[j] \in {"running", "closed"} /\ (item = Sentinel => thread'[j] = "closed")
      BY <1>1 DEF Inv, JobTypes
    <3> QED
      BY <2>2, <3>1, <3>2, <3>3, <3>4, <3>5 DEF SentinelIsLast
  <2>3. CASE k # j
    BY <1>3, <2>1, <2>3 DEF SentinelIsLast
  <2> QED
    BY <2>2, <2>3
<1>9. EofCountsResponses'
  <2>1. Len(queue'[j]) = Len(queue[j]) + 1
    BY <1>4
  <2>2. thread[j] # "closed" /\ put[j] \in Nat /\ serial[j] \in Nat /\ Len(queue[j]) \in Nat
    BY <1>1, <1>4 DEF Inv, JobTypes
  <2>3. IF item = Sentinel THEN thread'[j] = "closed" /\ put'[j] = put[j]
                           ELSE thread'[j] # "closed" /\ put'[j] = put[j] + 1
    BY <1>1 DEF Inv, JobTypes
  <2> SUFFICES ASSUME NEW k \in Jobs
               PROVE  /\ phase[k] = "ok" => thread'[k] = "closed" /\ serial[k] = put'[k]
                      /\ phase[k] = "serving" =>
                           serial[k] + Len(queue'[k]) =
                             IF thread'[k] = "closed" THEN put'[k] + 1 ELSE put'[k]
    BY <1>2 DEF EofCountsResponses
  <2>4. CASE k = j
    <3>1. phase[j] # "ok"
      BY <2>2 DEF Inv, EofCountsResponses
    <3>2. phase[j] = "serving" => serial[j] + Len(queue[j]) = put[j]
      BY <2>2 DEF Inv, EofCountsResponses
    <3> QED
      BY <2>1, <2>2, <2>3, <2>4, <3>1, <3>2
  <2>5. CASE k # j
    BY <1>3, <2>5 DEF Inv, EofCountsResponses
  <2> QED
    BY <2>4, <2>5
<1> QED
  BY <1>5, <1>7, <1>8, <1>9 DEF Inv

(* A run of handle() that begins: its queue is empty and its serial 0.     *)
LEMMA Begins ==
  ASSUME Inv, NEW j \in Jobs, NEW m \in Requests,
         Submit(j, m) \/ \E listed \in BOOLEAN : Reject(j, m, listed)
  PROVE  Inv'
<1>1. j = calls + 1 /\ calls' = j /\ request' = Append(request, m)
  BY DEF Submit, Reject, Called
<1>2. UNCHANGED <<serial, queue, put>>
  BY DEF Submit, Reject
<1>4. Unused(j)
  BY <1>1 DEF Inv, JobTypes, Jobs
<1>3. PICK p \in {"serving", "error"}, t \in {"off", "queued"} :
        /\ phase' = [phase EXCEPT ![j] = p] /\ thread' = [thread EXCEPT ![j] = t]
        /\ p = "serving" => t = "queued"
  <2>1. CASE Submit(j, m)
    BY <2>1 DEF Submit
  <2>2. CASE \E listed \in BOOLEAN : Reject(j, m, listed)
    <3>1. thread = [thread EXCEPT ![j] = "off"]
      BY <1>4 DEF Inv, JobTypes, Unused
    <3> QED
      BY <2>2, <3>1 DEF Reject
  <2> QED
    BY <2>1, <2>2
<1>10. phase'[j] = p /\ thread'[j] = t
  BY <1>3 DEF Inv, JobTypes
<1>5. \A k \in Jobs : k # j => phase'[k] = phase[k] /\ thread'[k] = thread[k]
  BY <1>3 DEF Inv, JobTypes
<1>6. JobTypes'
  <2>1. calls' \in 0 .. MaxJobs
    BY <1>1 DEF Inv, JobTypes, Jobs
  <2>2. request' \in Seq(Requests) /\ Len(request') = calls'
    BY <1>1 DEF Inv, JobTypes
  <2> QED
    BY <1>2, <1>3, <2>1, <2>2 DEF Inv, JobTypes
<1>7. (\A k \in Jobs : k > calls => Unused(k))'
  <2> SUFFICES ASSUME NEW k \in Jobs, k > calls' PROVE Unused(k)'
    OBVIOUS
  <2>1. k > calls /\ k # j
    BY <1>1 DEF Inv, JobTypes, Jobs
  <2> QED
    BY <1>2, <1>5, <2>1 DEF Inv, Unused
<1>8. (\A k \in Jobs : phase[k] = "serving" => SentinelIsLast(k))'
  <2> SUFFICES ASSUME NEW k \in Jobs, phase'[k] = "serving" PROVE SentinelIsLast(k)'
    OBVIOUS
  <2>1. CASE k = j
    BY <1>2, <1>3, <1>4, <1>10, <2>1 DEF SentinelIsLast, Unused
  <2>2. CASE k # j
    BY <1>2, <1>5, <2>2 DEF SentinelIsLast, Inv
  <2> QED
    BY <2>1, <2>2
<1>9. EofCountsResponses'
  <2> SUFFICES ASSUME NEW k \in Jobs
               PROVE  /\ phase'[k] = "ok" => thread'[k] = "closed" /\ serial[k] = put[k]
                      /\ phase'[k] = "serving" =>
                           serial[k] + Len(queue[k]) =
                             IF thread'[k] = "closed" THEN put[k] + 1 ELSE put[k]
    BY <1>2 DEF EofCountsResponses
  <2>1. CASE k = j
    BY <1>3, <1>4, <1>10, <2>1 DEF Unused
  <2>2. CASE k # j
    BY <1>5, <2>2 DEF Inv, EofCountsResponses
  <2> QED
    BY <2>1, <2>2
<1> QED
  BY <1>6, <1>7, <1>8, <1>9 DEF Inv

(* A round of the async for, the last one included, takes the head of the  *)
(* queue; every other round counts it.                                     *)
LEMMA Rounds ==
  ASSUME Inv, NEW j \in Jobs,
         Respond(j) \/ Finish(j) \/ \E routed \in BOOLEAN : RespondRaises(j, routed)
  PROVE  Inv'
<1>1. UNCHANGED <<calls, request, thread, put>>
  BY DEF Respond, Finish, RespondRaises
<1>2. /\ phase[j] = "serving" /\ queue[j] # <<>>
      /\ queue' = [queue EXCEPT ![j] = Tail(@)]
      /\ phase' = [phase EXCEPT ![j] = phase'[j]]
      /\ \/ /\ phase'[j] \in {"serving", "error"}
            /\ serial' = [serial EXCEPT ![j] = @ + 1]
         \/ /\ phase'[j] = "ok" /\ serial' = serial /\ Head(queue[j]) = Sentinel
  BY DEF Inv, JobTypes, Respond, Finish, RespondRaises, Ends, AtEnd, IsNext, Next1
<1>3. queue[j] \in Seq(Items \union {Sentinel}) /\ queue'[j] = Tail(queue[j])
  BY <1>2 DEF Inv, JobTypes
<1>4. Len(queue'[j]) = Len(queue[j]) - 1 /\ Len(queue[j]) \in Nat \ {0}
  BY <1>2, <1>3, TailOf
<1>5. Tail(queue[j]) \in Seq(Items \union {Sentinel})
  BY <1>2, <1>3, TailOf
<1>6. \A k \in Jobs : k # j => UNCHANGED <<phase[k], serial[k], queue[k]>>
  BY <1>2 DEF Inv, JobTypes
<1>7. JobTypes'
  <2>1. serial' \in [Jobs -> Nat]
    BY <1>2 DEF Inv, JobTypes
  <2>2. phase' \in [Jobs -> {"none", "serving", "ok", "error", "lost"}]
    BY <1>2 DEF Inv, JobTypes
  <2>3. queue' \in [Jobs -> Seq(Items \union {Sentinel})]
    BY <1>2, <1>5 DEF Inv, JobTypes
  <2> QED
    BY <1>1, <2>1, <2>2, <2>3 DEF Inv, JobTypes
<1>8. j <= calls
  BY <1>2 DEF Inv, Unused, Jobs, JobTypes
<1>9. (\A k \in Jobs : k > calls => Unused(k))'
  BY <1>1, <1>6, <1>8 DEF Inv, Unused, Jobs, JobTypes
<1>10. SentinelIsLast(j)
  BY <1>2 DEF Inv
<1>11. (\A k \in Jobs : phase[k] = "serving" => SentinelIsLast(k))'
  <2> SUFFICES ASSUME NEW k \in Jobs, phase'[k] = "serving" PROVE SentinelIsLast(k)'
    OBVIOUS
  <2>1. CASE k = j
    <3>1. \A i \in DOMAIN Tail(queue[j]) :
            /\ i \in Nat /\ i + 1 \in DOMAIN queue[j]
            /\ Tail(queue[j])[i] = queue[j][i + 1]
      BY <1>2, <1>3, TailOf
    <3>2. ASSUME NEW i \in DOMAIN Tail(queue[j]), Tail(queue[j])[i] = Sentinel
          PROVE  thread[j] = "closed" /\ i = Len(Tail(queue[j]))
      <4>1. thread[j] = "closed" /\ i + 1 = Len(queue[j])
        BY <1>10, <3>1, <3>2 DEF SentinelIsLast
      <4> QED
        BY <1>3, <1>4, <3>1, <4>1
    <3>3. thread' = thread /\ queue'[j] = Tail(queue[j])
      BY <1>1, <1>3
    <3> QED
      BY <1>10, <2>1, <3>2, <3>3, Zenon DEF SentinelIsLast
  <2>2. CASE k # j
    BY <1>1, <1>6, <2>2 DEF SentinelIsLast, Inv
  <2> QED
    BY <2>1, <2>2
<1>12. EofCountsResponses'
  <2> SUFFICES ASSUME NEW k \in Jobs
               PROVE  /\ phase'[k] = "ok" => thread[k] = "closed" /\ serial'[k] = put[k]
                      /\ phase'[k] = "serving" =>
                           serial'[k] + Len(queue'[k]) =
                             IF thread[k] = "closed" THEN put[k] + 1 ELSE put[k]
    BY <1>1 DEF EofCountsResponses
  <2>1. CASE k = j
    <3>1. serial[j] + Len(queue[j]) = IF thread[j] = "closed" THEN put[j] + 1 ELSE put[j]
      BY <1>2 DEF Inv, EofCountsResponses
    <3>2. serial[j] \in Nat /\ put[j] \in Nat
      BY DEF Inv, JobTypes
    <3>3. CASE phase'[j] = "ok"
      <4>1. Head(queue[j]) = queue[j][1] /\ 1 \in DOMAIN queue[j]
        BY <1>2, <1>3, TailOf
      <4>2. thread[j] = "closed" /\ Len(queue[j]) = 1
        BY <1>2, <1>10, <3>3, <4>1 DEF SentinelIsLast
      <4> QED
        BY <1>2, <2>1, <3>1, <3>2, <3>3, <4>2
    <3>4. CASE phase'[j] # "ok"
      <4>1. serial'[j] = serial[j] + 1
        BY <1>2, <3>4 DEF Inv, JobTypes
      <4>2. serial'[j] + Len(queue'[j]) = serial[j] + Len(queue[j])
        BY <1>4, <3>2, <4>1
      <4>3. phase'[j] # "ok"
        BY <3>4
      <4> QED
        BY <2>1, <3>1, <4>2, <4>3, Zenon
    <3> QED
      BY <3>3, <3>4
  <2>2. CASE k # j
    BY <1>6, <2>2 DEF Inv, EofCountsResponses
  <2> QED
    BY <2>1, <2>2
<1> QED
  BY <1>7, <1>9, <1>11, <1>12 DEF Inv

(* A restart leaves nothing served, and the callbacks that have run.       *)
LEMMA Restarts ==
  ASSUME Inv, WorkRestart
  PROVE  Inv'
<1>1. JobTypes'
  BY DEF Inv, JobTypes, WorkRestart
<1> QED
  BY <1>1 DEF Inv, JobTypes, Unused, EofCountsResponses, WorkRestart

(* Every step keeps the invariant.                                         *)
LEMMA NextInv == Inv /\ [WorkNext]_workVars => Inv'
<1> SUFFICES ASSUME Inv, [WorkNext]_workVars PROVE Inv'
  OBVIOUS
<1>1. CASE UNCHANGED workVars
  BY <1>1 DEF workVars, Inv, JobTypes, Unused, SentinelIsLast, EofCountsResponses
<1>2. CASE WorkNext
  BY <1>2, ThreadMoves, QueueGrows, Begins, Rounds, Restarts DEF WorkNext, Threads
<1> QED
  BY <1>1, <1>2

(* However threads, callbacks and coroutines interleave, a job that ends   *)
(* with code 0 has sent what its action put into the queue, all of it,     *)
(* and the number of its eof message is one more than there were.          *)
THEOREM EofCounts == WorkSpec => []EofCountsResponses
<1>1. Inv => EofCountsResponses
  BY DEF Inv
<1> QED
  BY <1>1, InitInv, NextInv, PTL DEF WorkSpec
-----------------------------------------------------------------------------

(* Only the pool starts actions, and only when it has a free thread.       *)
LEMMA PoolIsBounded ==
  ASSUME Inv, WorkNext \/ UNCHANGED workVars, Cardinality(Running) <= MaxWorkers
  PROVE  Cardinality(Running') <= MaxWorkers
<1>1. IsFiniteSet(Running) /\ Cardinality(Running) \in Nat
  <2>1. IsFiniteSet(Jobs)
    BY FS_Interval, WorkAssumption DEF Jobs
  <2> QED
    BY <2>1, FS_Subset, FS_CardinalityType DEF Running
<1>2. CASE Running' \subseteq Running
  <2>1. Cardinality(Running') <= Cardinality(Running) /\ Cardinality(Running') \in Nat
    BY <1>1, <1>2, FS_Subset, FS_CardinalityType
  <2> QED
    BY <1>1, <2>1, WorkAssumption
<1>3. ASSUME NEW j \in Jobs, ThreadStart(j) PROVE Cardinality(Running') <= MaxWorkers
  <2>1. Running' = Running \union {j}
    BY <1>3 DEF ThreadStart, Running, Inv, JobTypes
  <2>2. Cardinality(Running \union {j}) \in {Cardinality(Running), Cardinality(Running) + 1}
    BY <1>1, FS_AddElement
  <2>3. Cardinality(Running) < MaxWorkers
    BY <1>3 DEF ThreadStart, FreeWorker
  <2> QED
    BY <1>1, <2>1, <2>2, <2>3, WorkAssumption
<1>4. CASE UNCHANGED workVars
  BY <1>2, <1>4 DEF Running, workVars
<1>5. ASSUME NEW j \in Jobs,
             \/ Return(j) \/ Close(j) \/ (\E item \in Items : Put(j, item))
             \/ Respond(j) \/ Finish(j) \/ \E routed \in BOOLEAN : RespondRaises(j, routed)
      PROVE  Running' \subseteq Running
  BY <1>5 DEF Return, Close, Put, Respond, Finish, RespondRaises, Running, Inv, JobTypes
<1>6. ASSUME NEW j \in Jobs, NEW m \in Requests,
             Submit(j, m) \/ \E listed \in BOOLEAN : Reject(j, m, listed)
      PROVE  Running' \subseteq Running
  BY <1>6 DEF Submit, Reject, Running, Inv, JobTypes
<1>7. WorkRestart => Running' \subseteq Running
  BY DEF WorkRestart, Running, Inv, JobTypes
<1> QED
  BY <1>2, <1>3, <1>4, <1>5, <1>6, <1>7 DEF WorkNext, Threads

(* The jobs are well typed, and never more actions run than the pool has   *)
(* threads.                                                                *)
THEOREM WorkTypes == WorkSpec => []WorkTypeOK
<1> DEFINE Bounded == Inv /\ Cardinality(Running) <= MaxWorkers
<1>1. WorkInit => Bounded
  <2> SUFFICES ASSUME WorkInit PROVE Cardinality(Running) <= MaxWorkers
    BY InitInv
  <2>1. Running = {}
    BY DEF WorkInit, Running
  <2> QED
    BY <2>1, FS_EmptySet, WorkAssumption
<1>2. Bounded /\ [WorkNext]_workVars => Bounded'
  BY NextInv, PoolIsBounded
<1>3. Bounded => WorkTypeOK
  BY DEF Inv, JobTypes, WorkTypeOK
<1> QED
  BY <1>1, <1>2, <1>3, PTL DEF WorkSpec
-----------------------------------------------------------------------------

(* Where a message is in a list, and how often.                            *)
Places(s, x) == {i \in DOMAIN s : s[i] = x}
NumberOf(s, x) == Cardinality(Places(s, x))

LEMMA Counting ==
  ASSUME NEW S, NEW s \in Seq(S), NEW x
  PROVE  /\ IsFiniteSet(Places(s, x)) /\ NumberOf(s, x) \in Nat
         /\ NumberOf(s, x) = 0 <=> Places(s, x) = {}
<1>1. IsFiniteSet(1 .. Len(s)) /\ Places(s, x) \subseteq 1 .. Len(s)
  <2>1. Len(s) \in Nat /\ DOMAIN s = 1 .. Len(s)
    BY LenProperties
  <2>2. 1 \in Int /\ Len(s) \in Int
    BY <2>1
  <2> QED
    BY <2>1, <2>2, FS_Interval DEF Places
<1>2. IsFiniteSet(Places(s, x))
  BY <1>1, FS_Subset
<1> QED
  BY <1>2, FS_CardinalityType, FS_EmptySet DEF NumberOf

(* list.remove: the entries after the first one of the message move down   *)
(* a place.                                                                *)
LEMMA MovedDown ==
  ASSUME NEW S, NEW s \in Seq(S), NEW m, Places(s, m) # {}
  PROVE  \E p \in Places(s, m) :
           /\ RemoveFirst(s, m) \in Seq(S) /\ Len(RemoveFirst(s, m)) = Len(s) - 1
           /\ \A i \in 1 .. Len(s) - 1 :
                RemoveFirst(s, m)[i] = IF i < p THEN s[i] ELSE s[i + 1]
<1>1. Len(s) \in Nat /\ DOMAIN s = 1 .. Len(s) /\ Places(s, m) \subseteq Nat
  BY LenProperties DEF Places
<1>2. \A i \in 1 .. Len(s) : s[i] \in S
  BY <1>1, ElementOfSeq
<1>3. Places(s, m) = {i \in 1 .. Len(s) : s[i] = m}
  BY <1>1 DEF Places
<1> DEFINE p == Min(Places(s, m))
<1>4. p \in Places(s, m)
  BY <1>1, LeastExists DEF Min
<1> DEFINE a == SubSeq(s, 1, p - 1)
           b == SubSeq(s, p + 1, Len(s))
<1>5. RemoveFirst(s, m) = a \o b
  BY <1>3, <1>4 DEF RemoveFirst, RemoveAt, SelectInSeq
<1>6. p \in 1 .. Len(s)
  BY <1>3, <1>4
<1> HIDE DEF p
<1>7. a \in Seq(S) /\ Len(a) = p - 1 /\ \A i \in 1 .. p - 1 : a[i] = s[i]
  <2>1. \A i \in 1 .. p - 1 : s[i] \in S
    BY <1>1, <1>2, <1>6
  <2>2. 1 \in Int /\ p - 1 \in Int
    BY <1>1, <1>6
  <2> QED
    BY <1>1, <1>6, <2>1, <2>2, SubSeqProperties
<1>8. b \in Seq(S) /\ Len(b) = Len(s) - p /\ \A i \in 1 .. Len(s) - p : b[i] = s[p + i]
  <2>1. \A i \in p + 1 .. Len(s) : s[i] \in S
    BY <1>1, <1>2, <1>6
  <2>2. p + 1 \in Int /\ Len(s) \in Int
    BY <1>1, <1>6
  <2>3. /\ b \in Seq(S)
        /\ Len(b) = IF p + 1 <= Len(s) THEN Len(s) - (p + 1) + 1 ELSE 0
        /\ \A i \in 1 .. Len(s) - (p + 1) + 1 : b[i] = s[p + 1 + i - 1]
    BY <2>1, <2>2, SubSeqProperties
  <2> HIDE DEF b
  <2>4. Len(b) = Len(s) - p /\ Len(s) - (p + 1) + 1 = Len(s) - p
    <3>1. p \in Nat /\ Len(s) \in Nat /\ p <= Len(s)
      BY <1>1, <1>6
    <3>2. Len(b) = IF p + 1 <= Len(s) THEN Len(s) - (p + 1) + 1 ELSE 0
      BY <2>3
    <3> QED
      BY <3>1, <3>2
  <2>5. ASSUME NEW i \in 1 .. Len(s) - p PROVE b[i] = s[p + i]
    <3>1. b[i] = s[p + 1 + i - 1]
      BY <2>3, <2>4
    <3>2. p + 1 + i - 1 = p + i
      BY <1>1, <1>6
    <3> QED
      BY <3>1, <3>2
  <2> QED
    BY <2>3, <2>4, <2>5
<1> HIDE DEF a, b
<1>9. a \o b \in Seq(S) /\ Len(a \o b) = Len(s) - 1
  <2>1. a \o b \in Seq(S) /\ Len(a \o b) = Len(a) + Len(b)
    BY <1>7, <1>8, ConcatProperties
  <2> QED
    BY <1>1, <1>6, <1>7, <1>8, <2>1
<1>10. ASSUME NEW i \in 1 .. Len(s) - 1
       PROVE  (a \o b)[i] = IF i < p THEN s[i] ELSE s[i + 1]
  <2>1. (a \o b)[i] = IF i <= Len(a) THEN a[i] ELSE b[i - Len(a)]
    <3>1. i \in 1 .. Len(a) + Len(b)
      BY <1>1, <1>6, <1>7, <1>8
    <3> QED
      BY <1>7, <1>8, <3>1, ConcatProperties
  <2>2. CASE i < p
    BY <1>1, <1>6, <1>7, <2>1, <2>2
  <2>3. CASE ~(i < p)
    <3>1. i - (p - 1) \in 1 .. Len(s) - p /\ p + (i - (p - 1)) = i + 1
      BY <1>1, <1>6, <2>3
    <3> QED
      BY <1>1, <1>6, <1>7, <1>8, <2>1, <2>3, <3>1
  <2> QED
    BY <2>2, <2>3
<1> QED
  BY <1>4, <1>5, <1>9, <1>10

(* It takes one entry of that message and none of another.                 *)
LEMMA RemovesOne ==
  ASSUME NEW S, NEW s \in Seq(S), NEW m, Places(s, m) # {}
  PROVE  /\ RemoveFirst(s, m) \in Seq(S)
         /\ NumberOf(RemoveFirst(s, m), m) = NumberOf(s, m) - 1
         /\ \A x : x # m => NumberOf(RemoveFirst(s, m), x) = NumberOf(s, x)
<1> DEFINE t == RemoveFirst(s, m)
<1>1. PICK p \in Places(s, m) :
        /\ t \in Seq(S) /\ Len(t) = Len(s) - 1
        /\ \A i \in 1 .. Len(s) - 1 : t[i] = IF i < p THEN s[i] ELSE s[i + 1]
  BY MovedDown
<1> HIDE DEF t
<1>2. /\ Len(s) \in Nat /\ DOMAIN s = 1 .. Len(s) /\ DOMAIN t = 1 .. Len(s) - 1
      /\ p \in 1 .. Len(s) /\ s[p] = m
  BY <1>1, LenProperties DEF Places
<1>3. ASSUME NEW x
      PROVE  NumberOf(t, x) = IF x = m THEN NumberOf(s, x) - 1 ELSE NumberOf(s, x)
  <2> DEFINE A == Places(s, x) \ {p}
             B == Places(t, x)
             up == [i \in A |-> IF i < p THEN i ELSE i - 1]
  <2>1. ASSUME NEW i \in A PROVE up[i] \in B
    BY <1>1, <1>2 DEF Places
  <2>2. ASSUME NEW i \in A, NEW k \in A, up[i] = up[k] PROVE i = k
    <3>1. i \in Nat /\ k \in Nat /\ p \in Nat /\ i # p /\ k # p
      BY <1>2 DEF Places
    <3>2. (IF i < p THEN i ELSE i - 1) = (IF k < p THEN k ELSE k - 1)
      BY <2>2
    <3> QED
      BY <3>1, <3>2
  <2>3. ASSUME NEW k \in B PROVE \E i \in A : up[i] = k
    <3>1. CASE k < p
      <4>1. k \in A /\ up[k] = k
        BY <1>1, <1>2, <3>1 DEF Places
      <4> QED
        BY <4>1
    <3>2. CASE ~(k < p)
      <4>1. k + 1 \in A /\ up[k + 1] = k
        BY <1>1, <1>2, <3>2 DEF Places
      <4> QED
        BY <4>1
    <3> QED
      BY <3>1, <3>2
  <2>4. up \in Bijection(A, B)
    BY <2>1, <2>2, <2>3, Fun_IsBij
  <2>5. ExistsBijection(A, B)
    BY <2>4, Fun_ExistsBij
  <2>6. IsFiniteSet(A) /\ Cardinality(A) = IF p \in Places(s, x) THEN NumberOf(s, x) - 1
                                                                 ELSE NumberOf(s, x)
    BY Counting, FS_RemoveElement DEF NumberOf
  <2>7. p \in Places(s, x) <=> x = m
    BY <1>2 DEF Places
  <2> QED
    BY <2>5, <2>6, <2>7, FS_Bijection DEF NumberOf
<1> QED
  BY <1>1, <1>3 DEF t

(* What remove_work has done after it has looked at k places.              *)
LooksAt(w, k, m) == IF k <= Len(w) /\ w[k] = m THEN RemoveFirst(w, m) ELSE w
After(s, m, w, k) ==
  /\ \A x : x # m => NumberOf(w, x) = NumberOf(s, x)
  /\ \/ w = s /\ \A i \in Places(s, m) : i > k
     \/ NumberOf(w, m) < NumberOf(s, m)

LEMMA LooksAtOne ==
  ASSUME NEW S, NEW s \in Seq(S), NEW m, NEW w \in Seq(S), NEW k \in Nat, After(s, m, w, k)
  PROVE  LooksAt(w, k + 1, m) \in Seq(S) /\ After(s, m, LooksAt(w, k + 1, m), k + 1)
<1>1. /\ NumberOf(w, m) \in Nat /\ NumberOf(s, m) \in Nat
      /\ DOMAIN w = 1 .. Len(w) /\ Len(w) \in Nat /\ Places(s, m) \subseteq Nat
  <2>1. DOMAIN w = 1 .. Len(w) /\ Len(w) \in Nat /\ DOMAIN s = 1 .. Len(s)
    BY LenProperties
  <2>2. Places(s, m) \subseteq Nat
    BY <2>1 DEF Places
  <2> QED
    BY <2>1, <2>2, Counting
<1>2. CASE k + 1 <= Len(w) /\ w[k + 1] = m
  <2>1. Places(w, m) # {}
    BY <1>1, <1>2 DEF Places
  <2>2. /\ RemoveFirst(w, m) \in Seq(S)
        /\ NumberOf(RemoveFirst(w, m), m) = NumberOf(w, m) - 1
        /\ \A x : x # m => NumberOf(RemoveFirst(w, m), x) = NumberOf(w, x)
    BY <2>1, RemovesOne
  <2>3. LooksAt(w, k + 1, m) = RemoveFirst(w, m)
    BY <1>2 DEF LooksAt
  <2>4. NumberOf(RemoveFirst(w, m), m) < NumberOf(s, m)
    BY <1>1, <2>2 DEF After
  <2> QED
    BY <2>2, <2>3, <2>4 DEF After
<1>3. CASE ~(k + 1 <= Len(w) /\ w[k + 1] = m)
  <2>1. LooksAt(w, k + 1, m) = w
    BY <1>3 DEF LooksAt
  <2>2. ASSUME w = s, NEW i \in Places(s, m), i > k PROVE i > k + 1
    BY <1>1, <1>3, <2>2 DEF Places
  <2> QED
    BY <2>1, <2>2 DEF After
<1> QED
  BY <1>2, <1>3

(* What remove_work does to a list, for all that it leaves in it: the      *)
(* entries of other messages stay, and of those of the message, if there   *)
(* are any, at least one goes.                                             *)
LEMMA RemovedEffect ==
  ASSUME NEW S, NEW s \in Seq(S), NEW m
  PROVE  /\ Removed(s, m) \in Seq(S)
         /\ \A x : x # m => NumberOf(Removed(s, m), x) = NumberOf(s, x)
         /\ \/ Removed(s, m) = s /\ NumberOf(s, m) = 0
            \/ NumberOf(Removed(s, m), m) < NumberOf(s, m)
<1> DEFINE step == [k \in Nat |-> [w \in Seq(S) |-> LooksAt(w, k, m)]]
           F(f) == [i \in 0 .. Len(s) |->
                      IF i = 0 THEN s
                      ELSE IF i <= Len(f[i - 1]) /\ f[i - 1][i] = m
                           THEN RemoveFirst(f[i - 1], m) ELSE f[i - 1]]
           W == CHOOSE f : f = F(f)
<1>1. Len(s) \in Nat /\ DOMAIN s = 1 .. Len(s)
  BY LenProperties
<1>2. ASSUME NEW k \in Nat, NEW w \in Seq(S) PROVE LooksAt(w, k, m) \in Seq(S)
  <2>1. Places(w, m) = {} => RemoveFirst(w, m) = w
    BY LenProperties DEF Places, RemoveFirst
  <2>2. RemoveFirst(w, m) \in Seq(S)
    BY <2>1, RemovesOne
  <2> QED
    BY <2>2 DEF LooksAt
<1>3. step \in [Nat -> [Seq(S) -> Seq(S)]]
  BY <1>2
<1>4. PICK f : Iterates(f, Seq(S), s, step, Len(s))
  <2> HIDE DEF step
  <2> QED
    BY <1>1, <1>3, Iteration
<1>5. /\ f \in [0 .. Len(s) -> Seq(S)] /\ f[0] = s
      /\ \A k \in 1 .. Len(s) : f[k] = step[k][f[k - 1]]
  BY <1>4 DEF Iterates
<1>6. \A k \in 1 .. Len(s) : f[k] = LooksAt(f[k - 1], k, m)
  <2> TAKE k \in 1 .. Len(s)
  <2>0. k \in Nat /\ k - 1 \in 0 .. Len(s)
    BY <1>1
  <2>1. k \in Nat /\ f[k - 1] \in Seq(S)
    <3> HIDE DEF step
    <3> QED
      BY <1>5, <2>0
  <2>2. step[k] = [w \in Seq(S) |-> LooksAt(w, k, m)]
    BY <2>1
  <2> HIDE DEF step
  <2> QED
    BY <1>5, <2>1, <2>2
<1>7. f = F(f)
  BY <1>1, <1>5, <1>6 DEF LooksAt
<1>8. Removed(s, m) = W[Len(s)]
  BY DEF Removed
<1> HIDE DEF F
<1>9. W = F(W)
  BY <1>7
<1> HIDE DEF W
<1>10. W[0] = s /\ \A k \in 1 .. Len(s) : W[k] = LooksAt(W[k - 1], k, m)
  <2>1. W[0] = s
    BY <1>1, <1>9 DEF F
  <2>2. ASSUME NEW k \in 1 .. Len(s) PROVE W[k] = LooksAt(W[k - 1], k, m)
    <3>1. k \in 0 .. Len(s) /\ k # 0
      BY <1>1
    <3> QED
      BY <1>9, <3>1 DEF F, LooksAt
  <2> QED
    BY <2>1, <2>2
<1> DEFINE T == {k \in 0 .. Len(s) : W[k] \in Seq(S) /\ After(s, m, W[k], k)}
<1>11. 0 \in T
  BY <1>1, <1>10 DEF After, Places
<1>12. ASSUME NEW k \in 0 .. Len(s), k \in T, k < Len(s) PROVE k + 1 \in T
  <2>1. k + 1 \in 1 .. Len(s) /\ k \in Nat /\ (k + 1) - 1 = k
    BY <1>1, <1>12
  <2>2. W[k + 1] = LooksAt(W[k], k + 1, m)
    BY <1>10, <2>1
  <2>3. W[k + 1] \in Seq(S) /\ After(s, m, W[k + 1], k + 1)
    BY <1>12, <2>1, <2>2, LooksAtOne
  <2> QED
    BY <2>1, <2>3
<1>13. Len(s) \in T
  <2>1. 0 .. Len(s) \subseteq T
    <3> HIDE DEF T
    <3> QED
      BY <1>1, <1>11, <1>12, AllUpTo
  <2>2. Len(s) \in 0 .. Len(s)
    BY <1>1
  <2> QED
    BY <2>1, <2>2
<1>14. (\A i \in Places(s, m) : i > Len(s)) => NumberOf(s, m) = 0
  <2> SUFFICES ASSUME \A i \in Places(s, m) : i > Len(s) PROVE Places(s, m) = {}
    BY Counting
  <2>1. \A i \in Places(s, m) : i \in 1 .. Len(s)
    BY <1>1 DEF Places
  <2> QED
    BY <1>1, <2>1
<1> QED
  BY <1>8, <1>13, <1>14 DEF After
-----------------------------------------------------------------------------

(* What ActiveWorkIsServed says of one message, in the terms of the lemmas *)
(* about the list.                                                         *)
Reported(m) ==
  /\ NumberOf(active, m) <= Cardinality(Served(m))
  /\ Served(m) # {} /\ NumberOf(active, m) = 0 =>
       \E j \in Copies(m) : phase[j] \in {"ok", "error"}

ListInv == active \in Seq(Requests) /\ \A m \in Requests : Reported(m)

LEMMA ReportedIsServed == ListInv => ActiveWorkIsServed
<1> SUFFICES ASSUME ListInv, NEW m \in Requests
             PROVE  /\ Cardinality(Entries(m)) <= Cardinality(Served(m))
                    /\ Served(m) # {} /\ Entries(m) = {} =>
                         \E j \in Copies(m) : phase[j] \in {"ok", "error"}
  BY DEF ActiveWorkIsServed
<1>1. Entries(m) = Places(active, m) /\ NumberOf(active, m) = Cardinality(Entries(m))
  BY DEF Entries, Places, NumberOf
<1>2. NumberOf(active, m) = 0 <=> Entries(m) = {}
  BY <1>1, Counting DEF ListInv
<1> QED
  BY <1>1, <1>2 DEF ListInv, Reported

(* The jobs of a message are those of its requests.                        *)
LEMMA JobsOfMessage ==
  ASSUME Inv, NEW m \in Requests
  PROVE  /\ Copies(m) = {j \in 1 .. calls : request[j] = m} /\ Copies(m) \subseteq Jobs
         /\ IsFiniteSet(Served(m)) /\ Cardinality(Served(m)) \in Nat
<1>1. request \in Seq(Requests) /\ Len(request) = calls /\ calls \in 0 .. MaxJobs
  BY DEF Inv, JobTypes
<1>2. DOMAIN request = 1 .. calls
  BY <1>1, LenProperties
<1>3. Copies(m) \subseteq Jobs /\ Copies(m) = {j \in 1 .. calls : request[j] = m}
  BY <1>1, <1>2, WorkAssumption DEF Copies, Jobs
<1>4. IsFiniteSet(Jobs)
  BY FS_Interval, WorkAssumption DEF Jobs
<1>5. IsFiniteSet(Served(m))
  BY <1>3, <1>4, FS_Subset DEF Served
<1> QED
  BY <1>3, <1>5, FS_CardinalityType

(* add_work puts an entry at the end.                                      *)
LEMMA OneMoreEntry ==
  ASSUME NEW S, NEW s \in Seq(S), NEW m \in S
  PROVE  /\ Append(s, m) \in Seq(S)
         /\ NumberOf(Append(s, m), m) = NumberOf(s, m) + 1
         /\ \A x : x # m => NumberOf(Append(s, m), x) = NumberOf(s, x)
<1> DEFINE t == Append(s, m)
           last == Len(s) + 1
<1>1. /\ t \in Seq(S) /\ Len(t) = Len(s) + 1 /\ t[last] = m
      /\ \A i \in 1 .. Len(s) : t[i] = s[i]
  BY AppendProperties
<1>2. Len(s) \in Nat /\ DOMAIN s = 1 .. Len(s) /\ DOMAIN t = 1 .. Len(t)
  BY <1>1, LenProperties
<1> HIDE DEF t
<1>3. DOMAIN t = DOMAIN s \union {last} /\ last \notin DOMAIN s
  BY <1>1, <1>2
<1>4. \A x : Places(t, x) = IF x = m THEN Places(s, x) \union {last} ELSE Places(s, x)
  BY <1>1, <1>2, <1>3 DEF Places
<1>5. last \notin Places(s, m)
  BY <1>3 DEF Places
<1>6. NumberOf(t, m) = NumberOf(s, m) + 1
  BY <1>4, <1>5, Counting, FS_AddElement DEF NumberOf
<1> QED
  BY <1>1, <1>4, <1>6 DEF NumberOf, t

(* A run of handle() that begins, be it served or not.                     *)
LEMMA BeginsListed ==
  ASSUME Inv, ListInv, NEW j \in Jobs, NEW n \in Requests,
         Submit(j, n) \/ \E listed \in BOOLEAN : Reject(j, n, listed)
  PROVE  ListInv'
<1>1. j = calls + 1 /\ calls' = j /\ request' = Append(request, n)
  BY DEF Submit, Reject, Called
<1>2. /\ request \in Seq(Requests) /\ Len(request) = calls /\ calls \in Nat
      /\ phase \in [Jobs -> {"none", "serving", "ok", "error", "lost"}]
      /\ active \in Seq(Requests)
  BY DEF Inv, JobTypes, ListInv
<1>3. ASSUME NEW m \in Requests
      PROVE  Copies(m)' = IF m = n THEN Copies(m) \union {j} ELSE Copies(m)
  <2>1. DOMAIN request' = 1 .. calls + 1 /\ DOMAIN request = 1 .. calls
    BY <1>1, <1>2, LenProperties, AppendProperties
  <2>2. request'[j] = n /\ \A k \in 1 .. calls : request'[k] = request[k]
    BY <1>1, <1>2, AppendProperties
  <2> QED
    BY <1>1, <1>2, <2>1, <2>2 DEF Copies
<1>4. \A m \in Requests : j \notin Copies(m)
  BY <1>1, <1>2, JobsOfMessage
<1>5. \A k \in Jobs : k # j => phase'[k] = phase[k]
  BY <1>2 DEF Submit, Reject
<1>6. \A s \in Seq(Requests) : \A x : NumberOf(s, x) \in Nat
  BY Counting
<1>7. /\ Append(active, n) \in Seq(Requests)
      /\ NumberOf(Append(active, n), n) = NumberOf(active, n) + 1
      /\ \A x : x # n => NumberOf(Append(active, n), x) = NumberOf(active, x)
  BY <1>2, OneMoreEntry
<1>8. CASE Submit(j, n)
  <2>1. active' = Append(active, n) /\ phase'[j] = "serving"
    BY <1>2, <1>8 DEF Submit
  <2>2. ASSUME NEW m \in Requests PROVE Reported(m)'
    <3>1. Reported(m)
      BY DEF ListInv
    <3>2. CASE m = n
      <4>1. Served(m)' = Served(m) \union {j} /\ j \notin Served(m)
        BY <1>3, <1>4, <1>5, <2>1, <3>2, JobsOfMessage DEF Served
      <4>2. Cardinality(Served(m)') = Cardinality(Served(m)) + 1
        BY <4>1, JobsOfMessage, FS_AddElement
      <4>3. NumberOf(active, m)' = NumberOf(active, m) + 1 /\ NumberOf(active, m) \in Nat
        BY <1>2, <1>6, <1>7, <2>1, <3>2
      <4> QED
        BY <3>1, <4>2, <4>3, JobsOfMessage DEF Reported
    <3>3. CASE m # n
      <4>1. Copies(m)' = Copies(m) /\ Copies(m) \subseteq Jobs
        BY <1>3, <3>3, JobsOfMessage
      <4>2. NumberOf(active, m)' = NumberOf(active, m)
        BY <1>7, <2>1, <3>3
      <4>3. \A k \in Copies(m) : phase'[k] = phase[k]
        BY <1>4, <1>5, <4>1
      <4>4. Served(m)' = Served(m)
        BY <4>1, <4>3 DEF Served
      <4> QED
        BY <3>1, <4>1, <4>2, <4>3, <4>4 DEF Reported
    <3> QED
      BY <3>2, <3>3
  <2> QED
    BY <1>7, <2>1, <2>2 DEF ListInv
<1>9. CASE \E listed \in BOOLEAN : Reject(j, n, listed)
  <2>1. PICK s \in Seq(Requests) :
          /\ active' = Removed(s, n) /\ NumberOf(s, n) <= NumberOf(active, n) + 1
          /\ \A x : x # n => NumberOf(s, x) = NumberOf(active, x)
    <3>1. active' = Removed(active, n) \/ active' = Removed(Append(active, n), n)
      BY <1>9 DEF Reject
    <3>2. CASE active' = Removed(active, n)
      BY <1>2, <1>6, <3>2
    <3>3. CASE active' = Removed(Append(active, n), n)
      <4>1. NumberOf(Append(active, n), n) <= NumberOf(active, n) + 1
        BY <1>2, <1>6, <1>7
      <4> QED
        BY <1>7, <3>3, <4>1
    <3> QED
      BY <3>1, <3>2, <3>3
  <2>2. /\ active' \in Seq(Requests) /\ NumberOf(active', n) <= NumberOf(active, n)
        /\ \A x : x # n => NumberOf(active', x) = NumberOf(active, x)
    <3>1. /\ Removed(s, n) \in Seq(Requests)
          /\ \A x : x # n => NumberOf(Removed(s, n), x) = NumberOf(s, x)
          /\ \/ Removed(s, n) = s /\ NumberOf(s, n) = 0
             \/ NumberOf(Removed(s, n), n) < NumberOf(s, n)
      BY RemovedEffect
    <3> QED
      BY <1>2, <1>6, <2>1, <3>1
  <2>3. phase'[j] = "error"
    BY <1>2, <1>9 DEF Reject
  <2>4. ASSUME NEW m \in Requests PROVE Reported(m)'
    <3>1. Reported(m) /\ NumberOf(active, m) \in Nat /\ NumberOf(active', m) \in Nat
      BY <1>2, <1>6, <2>2 DEF ListInv
    <3>2. Served(m)' = Served(m)
      BY <1>3, <1>4, <1>5, <2>3, JobsOfMessage DEF Served
    <3>3. CASE m = n
      <4>1. j \in Copies(m)'
        BY <1>3, <3>3
      <4>2. NumberOf(active', m) <= Cardinality(Served(m))
        BY <2>2, <3>1, <3>3, JobsOfMessage DEF Reported
      <4> QED
        BY <2>3, <3>2, <4>1, <4>2 DEF Reported
    <3>4. CASE m # n
      <4>1. NumberOf(active', m) = NumberOf(active, m) /\ Copies(m)' = Copies(m)
        BY <1>3, <2>2, <3>4
      <4>2. \A k \in Copies(m) : phase'[k] = phase[k]
        BY <1>4, <1>5, JobsOfMessage
      <4> QED
        BY <3>1, <3>2, <4>1, <4>2 DEF Reported
    <3> QED
      BY <3>3, <3>4
  <2> QED
    BY <2>2, <2>4 DEF ListInv
<1> QED
  BY <1>8, <1>9

(* A run of handle() that ends takes an entry of its message out, if there *)
(* is one left.                                                            *)
LEMMA LeavesList ==
  ASSUME Inv, ListInv, NEW j \in Jobs, NEW how \in {"ok", "error"},
         phase[j] = "serving", Ends(j, how), UNCHANGED <<calls, request>>
  PROVE  ListInv'
<1>1. /\ request \in Seq(Requests) /\ Len(request) = calls /\ calls \in Nat
      /\ phase \in [Jobs -> {"none", "serving", "ok", "error", "lost"}]
      /\ active \in Seq(Requests)
  BY DEF Inv, JobTypes, ListInv
<1>2. j \in 1 .. calls
  BY <1>1 DEF Inv, Unused, Jobs
<1>3. PICK n \in Requests : n = request[j]
  BY <1>1, <1>2, ElementOfSeq
<1>4. phase'[j] = how /\ \A k \in Jobs : k # j => phase'[k] = phase[k]
  BY <1>1 DEF Ends
<1>5. active' = Removed(active, n)
  BY <1>3 DEF Ends
<1>6. /\ active' \in Seq(Requests)
      /\ \A x : x # n => NumberOf(active', x) = NumberOf(active, x)
      /\ \/ NumberOf(active', n) = 0
         \/ NumberOf(active', n) < NumberOf(active, n)
  BY <1>1, <1>5, RemovedEffect
<1>7. \A m \in Requests : j \in Copies(m) <=> m = n
  BY <1>2, <1>3, JobsOfMessage
<1>8. \A m \in Requests : NumberOf(active, m) \in Nat /\ NumberOf(active', m) \in Nat
  BY <1>1, <1>6, Counting
<1>9. \A m \in Requests : Copies(m)' = Copies(m) /\ Copies(m) \subseteq Jobs
  BY JobsOfMessage DEF Copies
<1>10. ASSUME NEW m \in Requests PROVE Reported(m)'
  <2>1. Reported(m)
    BY DEF ListInv
  <2>2. CASE m = n
    <3>1. Served(m)' = Served(m) \ {j} /\ j \in Served(m)
      BY <1>4, <1>7, <1>9, <2>2 DEF Served
    <3>2. Cardinality(Served(m)') = Cardinality(Served(m)) - 1
      BY <3>1, JobsOfMessage, FS_RemoveElement
    <3>3. Cardinality(Served(m)') \in Nat
      BY <3>1, JobsOfMessage, FS_RemoveElement, FS_CardinalityType
    <3>4. NumberOf(active', m) <= Cardinality(Served(m)')
      BY <1>6, <1>8, <2>1, <2>2, <3>2, <3>3, JobsOfMessage DEF Reported
    <3>5. j \in Copies(m)'
      BY <1>7, <1>9, <2>2
    <3> QED
      BY <1>4, <3>4, <3>5 DEF Reported
  <2>3. CASE m # n
    <3>1. \A k \in Copies(m) : phase'[k] = phase[k]
      BY <1>4, <1>7, <1>9, <2>3
    <3>2. Served(m)' = Served(m)
      BY <1>9, <3>1 DEF Served
    <3>3. NumberOf(active', m) = NumberOf(active, m)
      BY <1>6, <2>3
    <3> QED
      BY <1>9, <2>1, <3>1, <3>2, <3>3 DEF Reported
  <2> QED
    BY <2>2, <2>3
<1> QED
  BY <1>6, <1>10 DEF ListInv

LEMMA InitListInv == WorkInit => ListInv
<1> SUFFICES ASSUME WorkInit PROVE ListInv
  OBVIOUS
<1>1. \A m \in Requests : Places(active, m) = {} /\ Served(m) = {}
  BY DEF WorkInit, Places, Served, Copies
<1>2. active \in Seq(Requests)
  BY DEF WorkInit
<1>3. ASSUME NEW m \in Requests PROVE Reported(m)
  <2>1. NumberOf(active, m) = 0 /\ Cardinality(Served(m)) = 0
    BY <1>1, FS_EmptySet DEF NumberOf
  <2> QED
    BY <1>1, <2>1 DEF Reported
<1> QED
  BY <1>2, <1>3 DEF ListInv

(* Every step keeps the list in agreement with the jobs.                   *)
LEMMA NextListInv == Inv /\ ListInv /\ [WorkNext]_workVars => ListInv'
<1> SUFFICES ASSUME Inv, ListInv, [WorkNext]_workVars PROVE ListInv'
  OBVIOUS
<1>1. ASSUME UNCHANGED <<request, phase, active>> PROVE ListInv'
  BY <1>1 DEF ListInv, Reported, Served, Copies
<1>2. CASE UNCHANGED workVars
  BY <1>1, <1>2 DEF workVars
<1>3. CASE Threads
  BY <1>1, <1>3 DEF Threads, ThreadStart, Return, Close, Put
<1>4. ASSUME NEW j \in Jobs, NEW m \in Requests,
             Submit(j, m) \/ \E listed \in BOOLEAN : Reject(j, m, listed)
      PROVE  ListInv'
  BY <1>4, BeginsListed
<1>5. CASE WorkRestart
  <2>1. \A m \in Requests : Served(m)' = {}
    <3> SUFFICES ASSUME NEW m \in Requests, NEW k \in Copies(m), phase'[k] = "serving"
                 PROVE  FALSE
      BY <1>5 DEF WorkRestart, Served, Copies
    <3>1. k \in Jobs
      BY JobsOfMessage
    <3> QED
      BY <1>5, <3>1 DEF WorkRestart
  <2>2. active' = <<>>
    BY <1>5 DEF WorkRestart
  <2>3. \A m : Places(active', m) = {}
    BY <2>2 DEF Places
  <2>4. active' \in Seq(Requests)
    BY <2>2
  <2>5. \A m : NumberOf(active', m) = 0
    BY <2>3, FS_EmptySet DEF NumberOf
  <2>6. ASSUME NEW m \in Requests PROVE Reported(m)'
    BY <2>1, <2>5, FS_EmptySet DEF Reported
  <2> QED
    BY <2>4, <2>6 DEF ListInv
<1>6. ASSUME NEW j \in Jobs, Respond(j) PROVE ListInv'
  BY <1>1, <1>6 DEF Respond
<1>7. ASSUME NEW j \in Jobs, Finish(j) \/ \E routed \in BOOLEAN : RespondRaises(j, routed)
      PROVE  ListInv'
  <2>1. phase[j] = "serving" /\ UNCHANGED <<calls, request>>
    BY <1>7 DEF Finish, AtEnd, RespondRaises, IsNext
  <2>2. Ends(j, "ok") \/ Ends(j, "error")
    BY <1>7 DEF Finish, RespondRaises
  <2> QED
    BY <2>1, <2>2, LeavesList
<1> QED
  BY <1>2, <1>3, <1>4, <1>5, <1>6, <1>7 DEF WorkNext

(* However runs of one message begin, end, fail and are lost: what a ping  *)
(* reports as active work is being served, and what is served is reported  *)
(* unless a run of the same message has taken its entry out.               *)
THEOREM ActiveWork == WorkSpec => []ActiveWorkIsServed
<1>1. Inv /\ ListInv /\ [WorkNext]_workVars => (Inv /\ ListInv)'
  BY NextInv, NextListInv
<1> QED
  BY <1>1, InitInv, InitListInv, ReportedIsServed, PTL DEF WorkSpec
-----------------------------------------------------------------------------

(* -------------------------------- the mesh ----------------------------- *)

(* Each step of the mesh is one of the work manager, or leaves it alone.   *)
LEMMA StepOfWork == [Next]_vars => [WorkNext]_workVars
<1> SUFFICES ASSUME [Next]_vars PROVE [WorkNext]_workVars
  OBVIOUS
<1>1. CASE UNCHANGED vars
  BY <1>1 DEF vars
<1>2. ASSUME NEW m \in Requests, Send(m) \/ Refuse(m) PROVE UNCHANGED workVars
  BY <1>2 DEF Send, Refuse
<1>3. ASSUME NEW m \in Requests, Deliver(m) PROVE WorkNext \/ UNCHANGED workVars
  <2>1. PICK e \in mail : e.msg.id = m /\ HandleMessage(e)
    BY <1>3 DEF Deliver
  <2>2. Relay(e) \/ HandleResponse(e) \/ Ping(e) \/ Invalid(e) => UNCHANGED workVars
    BY DEF Relay, HandleResponse, Ping, Invalid
  <2>3. StartWork(e) => \E j \in Jobs : Submit(j, m)
    BY <2>1 DEF StartWork
  <2>4. RefuseWork(e) => \E j \in Jobs, listed \in BOOLEAN : Reject(j, m, listed)
    BY <2>1 DEF RefuseWork
  <2> QED
    BY <2>1, <2>2, <2>3, <2>4 DEF HandleMessage, WorkNext
<1>4. ASSUME NEW j \in Jobs, Emit(j) \/ Start(j) \/ Over(j) \/ Callback(j) PROVE WorkNext
  BY <1>4 DEF Emit, Start, Over, Callback, WorkNext, Threads
<1>5. ASSUME NEW j \in Jobs, Coroutine(j) PROVE WorkNext
  <2>1. SendError(j) => \E routed \in BOOLEAN : RespondRaises(j, routed)
    BY DEF SendError, Routed
  <2> QED
    BY <1>5, <2>1 DEF Coroutine, SendResponse, SendEof, WorkNext
<1>6. ASSUME NEW e \in mail, Lose(e) PROVE UNCHANGED workVars
  BY <1>6 DEF Lose
<1>7. ASSUME NEW link \in Links, CutLink(link) \/ MendLink(link) PROVE UNCHANGED workVars
  BY <1>7 DEF CutLink, MendLink
<1>8. ASSUME NEW n \in Nodes, NEW table \in Tables[n], Reroute(n, table)
      PROVE  UNCHANGED workVars
  BY <1>8 DEF Reroute
<1>9. ASSUME NEW n \in Nodes, Restart(n) PROVE WorkNext \/ UNCHANGED workVars
  BY <1>9 DEF Restart, WorkNext
<1> QED
  BY <1>1, <1>2, <1>3, <1>4, <1>5, <1>6, <1>7, <1>8, <1>9 DEF Next

(* What the mesh does to the work manager of the server is what Work says  *)
(* a work manager does.                                                    *)
THEOREM WorkInTheMesh == Spec => WorkSpec
<1>1. Init => WorkInit
  BY DEF Init
<1> QED
  BY <1>1, StepOfWork, PTL DEF Spec, WorkSpec

(* With requests that are duplicated, routes that go while a job answers   *)
(* and restarts: a job that ends with code 0 has sent, numbered without a  *)
(* gap, what its action put into the queue.                                *)
THEOREM EofCountsInTheMesh == Spec => []EofCountsResponses
  BY WorkInTheMesh, EofCounts, PTL

(* So with duplicated requests, the list a ping reports stays true.        *)
THEOREM ActiveWorkInTheMesh == Spec => []ActiveWorkIsServed
  BY WorkInTheMesh, ActiveWork, PTL
-----------------------------------------------------------------------------

EntryTypes == [at : Nodes, hop : Nodes \union {NoHop}, msg : MessageTypes]

(* TypeOK but for the work manager.                                        *)
MeshTypes ==
  /\ kind \in [Requests -> KindNames]
  /\ sent \in [Requests -> {"no", "sent", "refused"}]
  /\ registry \subseteq Requests /\ inbox \subseteq MessageTypes
  /\ mail \subseteq EntryTypes
  /\ hop \in [Nodes -> [Nodes -> Nodes \union {NoHop}]]
  /\ cut \subseteq Links /\ restarted \subseteq Nodes

LEMMA InitTypes == Init => MeshTypes
  BY TablesAssumption, KindsAssumption DEF Init, MeshTypes

(* A message is put into the buffer of a node, or of None.                 *)
LEMMA EntryType ==
  ASSUME MeshTypes, NEW n \in Nodes, NEW x \in MessageTypes
  PROVE  Entry(n, x) \in EntryTypes /\ Forwarded(n, x) \subseteq EntryTypes
<1>1. x.id \in Requests
  BY DEF MessageTypes
<1>2. Recipient(x) \in Nodes
  BY <1>1, NodesAssumption DEF Recipient
<1>3. NextHop(n, Recipient(x)) \in Nodes \union {NoHop}
  BY <1>2 DEF MeshTypes, NextHop
<1>4. Entry(n, x) \in EntryTypes
  BY <1>3 DEF Entry, EntryTypes
<1> QED
  BY <1>4 DEF Forwarded

LEMMA PostedType ==
  ASSUME MeshTypes, NEW n \in Nodes, NEW rest \in SUBSET mail, NEW x \in MessageTypes,
         Posted(n, rest, x)
  PROVE  mail' \subseteq EntryTypes
  BY EntryType DEF Posted, MeshTypes

LEMMA RequestType == \A m \in Requests : Request(m) \in MessageTypes
  BY DEF Request, MessageTypes

LEMMA ResponseType ==
  \A j \in Nat, m \in Requests, s \in Nat, eof \in {"none", "ok", "error"} :
    Response(j, m, s, eof) \in MessageTypes
  BY DEF Response, MessageTypes

(* A job answers the sender of its request.                                *)
LEMMA AnswersType ==
  ASSUME MeshTypes, JobTypes, NEW j \in Jobs, j <= calls, NEW s \in Nat,
         NEW eof \in {"none", "ok", "error"}, Answers(j, s, eof)
  PROVE  MeshTypes'
<1>1. j \in Nat /\ request[j] \in Requests
  BY DEF JobTypes, Jobs
<1>2. mail' \subseteq EntryTypes
  BY <1>1, ResponseType, PostedType, NodesAssumption DEF Answers
<1> QED
  BY <1>2 DEF Answers, MeshTypes, clientVars

LEMMA KeepingType == \A e, rest : rest \in Keeping(e) => rest \in SUBSET mail
  BY DEF Keeping

(* What a node makes of a message that reaches it is well typed.           *)
LEMMA DeliveryTypes ==
  ASSUME MeshTypes, NEW e \in mail, HandleMessage(e)
  PROVE  MeshTypes'
<1>1. e.msg \in MessageTypes /\ e.msg.id \in Requests
  BY DEF MeshTypes, EntryTypes, MessageTypes
<1>2. CASE Relay(e)
  <2>1. PICK rest \in Keeping(e) :
          Taken(e, rest) /\ mail' = rest \union Forwarded(e.hop, e.msg)
    BY <1>2 DEF Relay
  <2>2. e.hop \in Nodes
    BY <2>1 DEF Taken, MeshTypes, EntryTypes
  <2>3. mail' \subseteq EntryTypes
    BY <1>1, <2>1, <2>2, KeepingType, EntryType DEF MeshTypes
  <2> QED
    BY <1>2, <2>3 DEF Relay, MeshTypes, clientVars
<1>3. CASE HandleResponse(e)
  <2>1. PICK rest \in Keeping(e) : mail' = rest
    BY <1>3 DEF HandleResponse
  <2>2. mail' \subseteq EntryTypes
    BY <2>1, KeepingType DEF MeshTypes
  <2>3. inbox' \subseteq MessageTypes
    BY <1>1, <1>3 DEF HandleResponse, MeshTypes
  <2> QED
    BY <1>3, <2>2, <2>3 DEF HandleResponse, MeshTypes
<1>4. CASE Ping(e)
  <2>1. PICK rest \in Keeping(e) : Posted(Server, rest, Response(0, e.msg.id, 1, "none"))
    BY <1>4 DEF Ping
  <2>2. mail' \subseteq EntryTypes
    BY <1>1, <2>1, KeepingType, ResponseType, PostedType, NodesAssumption
  <2> QED
    BY <1>4, <2>2 DEF Ping, MeshTypes, clientVars
<1>5. CASE Invalid(e) \/ StartWork(e)
  <2>1. PICK rest \in Keeping(e) : mail' = rest
    BY <1>5 DEF Invalid, StartWork
  <2>2. mail' \subseteq EntryTypes
    BY <2>1, KeepingType DEF MeshTypes
  <2> QED
    BY <1>5, <2>2 DEF Invalid, StartWork, MeshTypes, clientVars
<1>6. CASE RefuseWork(e)
  <2>1. PICK rest \in Keeping(e), j \in Jobs :
          Posted(Server, rest, Response(j, e.msg.id, 1, "error"))
    BY <1>6 DEF RefuseWork
  <2>2. mail' \subseteq EntryTypes
    BY <1>1, <2>1, KeepingType, ResponseType, PostedType, NodesAssumption DEF Jobs
  <2> QED
    BY <1>6, <2>2 DEF RefuseWork, MeshTypes, clientVars
<1> QED
  BY <1>2, <1>3, <1>4, <1>5, <1>6 DEF HandleMessage

(* What a job sends is well typed.                                         *)
LEMMA CoroutineTypes ==
  ASSUME MeshTypes, Inv, NEW j \in Jobs, Coroutine(j)
  PROVE  MeshTypes'
<1>1. JobTypes /\ serial[j] \in Nat
  BY DEF Inv, JobTypes
<1>2. phase[j] = "serving"
  BY DEF Coroutine, SendResponse, SendError, SendEof, Respond, RespondRaises, Finish,
         AtEnd, IsNext
<1>3. j <= calls
  BY <1>1, <1>2 DEF Inv, Unused, JobTypes, Jobs
<1>4. Next1(j) \in Nat /\ Next1(j) + 1 \in Nat
  BY <1>1 DEF Next1
<1> QED
  BY <1>1, <1>3, <1>4, AnswersType DEF Coroutine, SendResponse, SendError, SendEof

LEMMA NextTypes == MeshTypes /\ Inv /\ [Next]_vars => MeshTypes'
<1> SUFFICES ASSUME MeshTypes, Inv, [Next]_vars PROVE MeshTypes'
  OBVIOUS
<1>1. CASE UNCHANGED vars
  BY <1>1 DEF vars, netVars, clientVars, MeshTypes
<1>2. ASSUME NEW m \in Requests, Send(m) PROVE MeshTypes'
  <2>1. From[m] \in Nodes
    BY NodesAssumption
  <2>2. mail' \subseteq EntryTypes
    BY <1>2, <2>1, RequestType, EntryType DEF Send, MeshTypes
  <2> QED
    BY <1>2, <2>2 DEF Send, MeshTypes
<1>3. ASSUME NEW m \in Requests, Refuse(m) PROVE MeshTypes'
  BY <1>3 DEF Refuse, MeshTypes, netVars
<1>4. ASSUME NEW m \in Requests, Deliver(m) PROVE MeshTypes'
  BY <1>4, DeliveryTypes DEF Deliver
<1>5. ASSUME NEW j \in Jobs, Emit(j) \/ Start(j) \/ Over(j) \/ Callback(j)
      PROVE  MeshTypes'
  BY <1>5 DEF Emit, Start, Over, Callback, Elsewhere, MeshTypes, netVars, clientVars
<1>6. ASSUME NEW j \in Jobs, Coroutine(j) PROVE MeshTypes'
  BY <1>6, CoroutineTypes
<1>7. ASSUME NEW e \in mail, Lose(e) PROVE MeshTypes'
  BY <1>7 DEF Lose, MeshTypes, clientVars
<1>8. ASSUME NEW link \in Links, CutLink(link) \/ MendLink(link) PROVE MeshTypes'
  BY <1>8 DEF CutLink, MendLink, MeshTypes, clientVars
<1>9. ASSUME NEW n \in Nodes, NEW table \in Tables[n], Reroute(n, table)
      PROVE  MeshTypes'
  <2>1. table \in [Nodes -> Nodes \union {NoHop}]
    BY TablesAssumption
  <2> QED
    BY <1>9, <2>1 DEF Reroute, MeshTypes, clientVars
<1>10. ASSUME NEW n \in Nodes, Restart(n) PROVE MeshTypes'
  <2>1. mail' \subseteq mail /\ registry' \subseteq registry
    BY <1>10 DEF Restart
  <2>2. hop' \in [Nodes -> [Nodes -> Nodes \union {NoHop}]]
    BY <1>10 DEF Restart, MeshTypes
  <2> QED
    BY <1>10, <2>1, <2>2 DEF Restart, MeshTypes
<1> QED
  BY <1>1, <1>2, <1>3, <1>4, <1>5, <1>6, <1>7, <1>8, <1>9, <1>10 DEF Next

(* Messages, tables and jobs are well typed, and never more actions run    *)
(* than the server's pool has threads.                                     *)
THEOREM RequestTypes == Spec => []TypeOK
<1>1. Init => Inv /\ MeshTypes
  BY InitInv, InitTypes DEF Init
<1>2. (Inv /\ MeshTypes) /\ [Next]_vars => (Inv /\ MeshTypes)'
  BY NextInv, NextTypes, StepOfWork
<1>3. Spec => []MeshTypes
  BY <1>1, <1>2, PTL DEF Spec
<1>4. Spec => []WorkTypeOK
  BY WorkInTheMesh, WorkTypes, PTL
<1>5. MeshTypes /\ WorkTypeOK => TypeOK
  BY DEF MeshTypes, EntryTypes, TypeOK
<1> QED
  BY <1>3, <1>4, <1>5, PTL
-----------------------------------------------------------------------------

Messages(entries) == {e.msg : e \in entries}
OnTheWay == inbox \union Messages(mail)

(* A message of request m is on its way or has arrived, or m is served.    *)
Held(m) ==
  (\E x \in OnTheWay : x.id = m) \/ \E j \in ServedNow : request[j] = m

(* Whom a message belongs to: what is under way was asked for, a response  *)
(* of a job answers the request of that job, and what was asked for is     *)
(* expected, unless the asking node has restarted or never expected it.    *)
Attributed(x) == sent[x.id] = "sent" /\ (x.job > 0 => x.job <= calls /\ x.id = request[x.job])
Expected(m) ==
  sent[m] = "sent" => m \in registry \/ kind[m] = "keepalive" \/ From[m] \in restarted

Custody ==
  /\ \A x \in OnTheWay : Attributed(x)
  /\ \A j \in 1 .. calls : sent[request[j]] = "sent"
  /\ \A m \in Requests : Expected(m)

(* What a step does with the messages there are: none is forgotten.        *)
NoneForgotten ==
  /\ dropped \subseteq dropped'
  /\ \A x \in OnTheWay :
       x \in OnTheWay' \/ Dropped(x.id)' \/ (x.serial = 0 /\ Held(x.id)')
  /\ \A j \in ServedNow, m \in Requests :
       request[j] = m => Dropped(m)' \/ Held(m)'

(* And none is made up.                                                    *)
NoneInvented == \A x \in OnTheWay' : x \in OnTheWay \/ Attributed(x)'

(* Requests that were sent stay sent, jobs keep their requests.            *)
PastStays ==
  /\ calls <= calls' /\ \A j \in 1 .. calls : request'[j] = request[j]
  /\ \A m \in Requests : sent[m] = "sent" => sent'[m] = "sent"

(* The answers of the jobs there are: the serials say what was sent.       *)
SerialStays(j) ==
  serial'[j] = serial[j] /\ (phase[j] = "error" => phase'[j] = "error")
SerialsStay == \A j \in 1 .. calls : SerialStays(j)

(* A job that answers: with a response, or without when that raised.       *)
SaysMore(j) == \E n \in Nat :
  /\ phase[j] = "serving" /\ n = serial[j] + 1
  /\ serial'[j] = n
  /\ Seen(j, n)' \/ phase'[j] = "error"

(* Who is new has been asked for, and has sent nothing.                    *)
NewAreAsked == \A j \in 1 .. calls' :
  j > calls => sent'[request'[j]] = "sent" /\ serial'[j] = 0

(* The second conjunct of NothingVanishes, for job j.                      *)
Answered(j) ==
  \/ Dropped(request[j])
  \/ \A s \in 1 .. serial[j] :
       Seen(j, s) \/ (s = serial[j] /\ phase[j] = "error")

-----------------------------------------------------------------------------

(* What the invariant of the work manager says of its jobs.                *)
LEMMA JobFacts ==
  ASSUME Inv
  PROVE  /\ calls \in Nat /\ calls <= MaxJobs
         /\ \A j \in 1 .. calls : j \in Jobs /\ request[j] \in Requests
         /\ \A j \in Jobs : phase[j] # "none" => j \in 1 .. calls
         /\ ServedNow \subseteq 1 .. calls
<1>1. calls \in Nat /\ calls <= MaxJobs
  BY WorkAssumption DEF Inv, JobTypes
<1>2. \A j \in 1 .. calls : j \in Jobs /\ request[j] \in Requests
  BY <1>1, WorkAssumption DEF Inv, JobTypes, Jobs
<1>3. \A j \in Jobs : phase[j] # "none" => j \in 1 .. calls
  BY <1>1, WorkAssumption DEF Inv, Unused, Jobs
<1>4. ServedNow \subseteq 1 .. calls
  BY <1>3 DEF ServedNow
<1> QED
  BY <1>1, <1>2, <1>3, <1>4

(* When an entry is taken, its message alone leaves the buffers.           *)
LEMMA KeepingEffect ==
  ASSUME NEW e \in mail, NEW rest \in Keeping(e)
  PROVE  /\ Messages(rest) \subseteq Messages(mail)
         /\ Messages(mail) \subseteq Messages(rest) \union {e.msg}
  BY DEF Keeping, Messages

(* What is entered as dropped is.                                          *)
LEMMA DropsIt ==
  ASSUME NEW m, NEW why, <<m, why>> \in dropped'
  PROVE  Dropped(m)'
<1> DEFINE d == <<m, why>>
<1>1. d \in dropped' /\ d[1] = m
  OBVIOUS
<1> QED
  BY <1>1 DEF Dropped

(* What is in the buffers when one message more is.                        *)
LEMMA OneMore ==
  ASSUME NEW entries, NEW n, NEW x
  PROVE  Messages(entries \union {Entry(n, x)}) = Messages(entries) \union {x}
<1>1. Entry(n, x).msg = x
  BY DEF Entry
<1> HIDE DEF Entry
<1> QED
  BY <1>1 DEF Messages

(* router.send() puts a message into a buffer or logs that it could not.   *)
LEMMA PostedEffect ==
  ASSUME NEW n \in Nodes, NEW rest, NEW x, Posted(n, rest, x)
  PROVE  /\ dropped \subseteq dropped'
         /\ x \in Messages(mail') \/ Dropped(x.id)'
         /\ Messages(mail') \subseteq Messages(rest) \union {x}
         /\ Messages(rest) \subseteq Messages(mail')
<1>1. CASE Routed(n, x)
  <2>1. mail' = rest \union {Entry(n, x)} /\ dropped' = dropped
    BY <1>1 DEF Posted, Forwarded
  <2>2. Entry(n, x).msg = x
    BY DEF Entry
  <2> QED
    BY <2>1, <2>2 DEF Messages
<1>2. CASE ~Routed(n, x)
  <2>1. mail' = rest /\ dropped' = dropped \union {<<x.id, "unrouteable">>}
    BY <1>2 DEF Posted
  <2>2. Dropped(x.id)'
    BY <2>1, DropsIt
  <2> QED
    BY <2>1, <2>2 DEF Messages
<1> QED
  BY <1>1, <1>2

(* A step that leaves the work manager alone and moves no message.         *)
LEMMA NothingMoves ==
  ASSUME Inv, Custody, UNCHANGED <<workVars, inbox, dropped, mail>>,
         \A m \in Requests : sent[m] = "sent" => sent'[m] = "sent"
  PROVE  NoneForgotten /\ NoneInvented /\ PastStays /\ SerialsStay
<1>1. OnTheWay' = OnTheWay /\ ServedNow' = ServedNow /\ request' = request
  BY DEF OnTheWay, ServedNow, workVars
<1>2. NoneForgotten
  BY <1>1 DEF NoneForgotten, Held
<1> QED
  BY <1>1, <1>2, JobFacts DEF NoneInvented, PastStays, SerialsStay, SerialStays, workVars

(* A step of the work manager that sends nothing, ends nothing and begins  *)
(* nothing.                                                                *)
LEMMA WorkMoves ==
  ASSUME Inv, UNCHANGED <<calls, request, phase, serial>>, Elsewhere
  PROVE  NoneForgotten /\ NoneInvented /\ PastStays /\ SerialsStay
<1>1. OnTheWay' = OnTheWay /\ ServedNow' = ServedNow /\ request' = request
      /\ UNCHANGED <<sent, dropped>>
  BY DEF OnTheWay, ServedNow, Elsewhere, netVars, clientVars
<1>2. NoneForgotten
  BY <1>1 DEF NoneForgotten, Held
<1> QED
  BY <1>1, <1>2, JobFacts DEF NoneInvented, PastStays, SerialsStay, SerialStays

(* Send and Refuse: the message of a request that is sent is under way.    *)
LEMMA SendEffect ==
  ASSUME Inv, MeshTypes, NEW m \in Requests, Send(m)
  PROVE  /\ NoneForgotten /\ NoneInvented /\ PastStays /\ SerialsStay
         /\ Held(m)'
         /\ \A k \in Requests : k # m => sent'[k] = sent[k]
         /\ sent'[m] = "sent"
         /\ registry' = IF kind[m] = "keepalive" THEN registry ELSE registry \union {m}
<1>1. /\ UNCHANGED <<workVars, inbox, dropped>>
      /\ sent' = [sent EXCEPT ![m] = "sent"]
      /\ mail' = mail \union {Entry(From[m], Request(m))}
      /\ registry' = IF kind[m] = "keepalive" THEN registry ELSE registry \union {m}
  BY DEF Send, Forwarded
<1>2. sent'[m] = "sent" /\ \A k \in Requests : k # m => sent'[k] = sent[k]
  BY <1>1 DEF MeshTypes
<1>3. OnTheWay' = OnTheWay \union {Request(m)}
  BY <1>1, OneMore DEF OnTheWay
<1>4. Request(m).id = m /\ Request(m).job = 0
  BY DEF Request
<1>5. Held(m)'
  BY <1>3, <1>4 DEF Held
<1>6. NoneInvented
  BY <1>2, <1>3, <1>4 DEF NoneInvented, Attributed
<1>7. ServedNow' = ServedNow /\ request' = request
  BY <1>1 DEF workVars, ServedNow
<1>8. NoneForgotten
  BY <1>1, <1>3, <1>7 DEF NoneForgotten, Held
<1>9. PastStays /\ SerialsStay
  BY <1>1, <1>2, JobFacts DEF PastStays, SerialsStay, SerialStays, workVars
<1> QED
  BY <1>1, <1>2, <1>5, <1>6, <1>8, <1>9

(* Messages that reach a node whose work manager does nothing with them.   *)
LEMMA DeliveryEffect ==
  ASSUME Inv, MeshTypes, Custody, NEW e \in mail,
         Relay(e) \/ HandleResponse(e) \/ Ping(e) \/ Invalid(e)
  PROVE  NoneForgotten /\ NoneInvented /\ PastStays /\ SerialsStay
<1>1. UNCHANGED workVars /\ UNCHANGED sent
  BY DEF Relay, HandleResponse, Ping, Invalid, clientVars
<1>2. PastStays /\ SerialsStay /\ ServedNow' = ServedNow /\ request' = request
  BY <1>1, JobFacts DEF workVars, PastStays, SerialsStay, SerialStays, ServedNow
<1>3. e.msg \in OnTheWay /\ Attributed(e.msg)
  BY DEF Custody, OnTheWay, Messages
<1>4. /\ dropped \subseteq dropped' /\ inbox \subseteq inbox'
      /\ Messages(mail) \subseteq Messages(mail') \union {e.msg}
      /\ e.msg \in OnTheWay' \/ Dropped(e.msg.id)' \/ (e.msg.serial = 0 /\ Held(e.msg.id)')
      /\ \A x \in OnTheWay' : x \in OnTheWay \/ (x.id = e.msg.id /\ x.job = 0)
  <2>1. CASE Relay(e)
    <3>1. PICK rest \in Keeping(e) : mail' = rest \union {Entry(e.hop, e.msg)}
      BY <2>1 DEF Relay, Forwarded
    <3>2. UNCHANGED <<inbox, dropped>>
      BY <2>1 DEF Relay, clientVars
    <3>3. Messages(mail') = Messages(rest) \union {e.msg}
      BY <3>1, OneMore
    <3> QED
      BY <1>3, <3>2, <3>3, KeepingEffect DEF OnTheWay
  <2>2. CASE HandleResponse(e)
    <3>1. PICK rest \in Keeping(e) : mail' = rest
      BY <2>2 DEF HandleResponse
    <3>2. \/ inbox' = inbox \union {e.msg} /\ dropped' = dropped
          \/ inbox' = inbox /\ dropped' = dropped \union {<<e.msg.id, "unexpected">>}
      BY <2>2 DEF HandleResponse
    <3>3. e.msg \in inbox' \/ Dropped(e.msg.id)'
      BY <3>2, DropsIt
    <3> QED
      BY <1>3, <3>1, <3>2, <3>3, KeepingEffect DEF OnTheWay
  <2>3. CASE Ping(e)
    <3> DEFINE answer == Response(0, e.msg.id, 1, "none")
    <3>1. PICK rest \in Keeping(e) :
            Posted(Server, rest, answer) /\ IsAsked(e, rest, {"ping", "keepalive"})
      BY <2>3 DEF Ping
    <3>2. UNCHANGED inbox /\ e.msg.serial = 0
      BY <2>3 DEF Ping, IsAsked, clientVars
    <3>3. answer.id = e.msg.id /\ answer.job = 0
      BY DEF Response
    <3>4. /\ dropped \subseteq dropped'
          /\ answer \in Messages(mail') \/ Dropped(answer.id)'
          /\ Messages(mail') \subseteq Messages(rest) \union {answer}
          /\ Messages(rest) \subseteq Messages(mail')
      BY <3>1, PostedEffect, NodesAssumption
    <3>5. Held(e.msg.id)' \/ Dropped(e.msg.id)'
      BY <3>3, <3>4 DEF Held, OnTheWay, Dropped
    <3> HIDE DEF answer
    <3> QED
      BY <3>2, <3>3, <3>4, <3>5, KeepingEffect DEF OnTheWay
  <2>4. CASE Invalid(e)
    <3>1. PICK rest \in Keeping(e) : mail' = rest
      BY <2>4 DEF Invalid
    <3>2. inbox' = inbox /\ dropped' = dropped \union {<<e.msg.id, "invalid">>}
      BY <2>4 DEF Invalid, clientVars
    <3>3. Dropped(e.msg.id)'
      BY <3>2, DropsIt
    <3> QED
      BY <3>1, <3>2, <3>3, KeepingEffect DEF OnTheWay
  <2> QED
    BY <2>1, <2>2, <2>3, <2>4
<1>5. NoneForgotten
  <2>1. \A x \in OnTheWay : x \in OnTheWay' \/ x = e.msg
    BY <1>4 DEF OnTheWay
  <2>2. \A j \in ServedNow, m \in Requests : request[j] = m => Held(m)'
    BY <1>2 DEF Held
  <2> QED
    BY <1>4, <2>1, <2>2 DEF NoneForgotten
<1>6. NoneInvented
  BY <1>1, <1>3, <1>4 DEF NoneInvented, Attributed
<1> QED
  BY <1>2, <1>5, <1>6

(* A request for work that reaches the work manager: a job begins, and is  *)
(* served or answered at once.                                             *)
LEMMA WorkBegins ==
  ASSUME Inv, MeshTypes, Custody, NEW e \in mail, StartWork(e) \/ RefuseWork(e)
  PROVE  NoneForgotten /\ NoneInvented /\ PastStays /\ SerialsStay /\ NewAreAsked
<1>1. PICK j \in Jobs : /\ Called(j, e.msg.id) /\ UNCHANGED <<serial, sent, inbox>>
                        /\ phase' = [phase EXCEPT ![j] = phase'[j]]
                        /\ \/ StartWork(e) /\ phase'[j] = "serving"
                           \/ RefuseWork(e) /\ \E rest \in Keeping(e) :
                                Posted(Server, rest, Response(j, e.msg.id, 1, "error"))
  <2>1. CASE StartWork(e)
    <3>1. PICK j \in Jobs : Submit(j, e.msg.id)
      BY <2>1 DEF StartWork
    <3> QED
      BY <2>1, <3>1 DEF StartWork, Submit, clientVars, Inv, JobTypes
  <2>2. CASE RefuseWork(e)
    <3>1. PICK rest \in Keeping(e), j \in Jobs :
            /\ Reject(j, e.msg.id, kind[e.msg.id] = "unresolved")
            /\ Posted(Server, rest, Response(j, e.msg.id, 1, "error"))
      BY <2>2 DEF RefuseWork
    <3> QED
      BY <2>2, <3>1 DEF RefuseWork, Reject, clientVars, Inv, JobTypes
  <2> QED
    BY <2>1, <2>2
<1>2. e.msg \in OnTheWay /\ sent[e.msg.id] = "sent" /\ e.msg.id \in Requests
  BY DEF Custody, Attributed, OnTheWay, Messages, MeshTypes, EntryTypes, MessageTypes
<1>3. /\ j = calls + 1 /\ calls' = j /\ calls \in Nat
      /\ \A i \in 1 .. calls : request'[i] = request[i] /\ i # j
      /\ request'[j] = e.msg.id
  BY <1>1, <1>2 DEF Called, Inv, JobTypes
<1>4. \A i \in 1 .. calls : i \in Jobs /\ phase'[i] = phase[i]
  BY <1>1, <1>3, JobFacts DEF Inv, JobTypes
<1>5. \A i \in ServedNow : i \in ServedNow' /\ request'[i] = request[i]
  BY <1>3, <1>4, JobFacts DEF ServedNow
<1>6. PastStays /\ SerialsStay
  BY <1>1, <1>3, <1>4 DEF PastStays, SerialsStay, SerialStays
<1>7. NewAreAsked
  <2> SUFFICES ASSUME NEW i \in 1 .. calls', i > calls
               PROVE  sent'[request'[i]] = "sent" /\ serial'[i] = 0
    BY DEF NewAreAsked
  <2>1. i = j /\ Unused(j)
    BY <1>3 DEF Inv
  <2> QED
    BY <1>1, <1>2, <1>3, <2>1 DEF Unused
<1>8. CASE StartWork(e) /\ phase'[j] = "serving"
  <2>1. PICK rest \in Keeping(e) :
          mail' = rest /\ UNCHANGED dropped /\ e.msg.serial = 0
    BY <1>8 DEF StartWork, IsAsked
  <2>2. Held(e.msg.id)'
    BY <1>3, <1>8 DEF Held, ServedNow
  <2>3. OnTheWay' \subseteq OnTheWay /\ \A x \in OnTheWay : x \in OnTheWay' \/ x = e.msg
    BY <1>1, <2>1, KeepingEffect DEF OnTheWay
  <2>4. \A i \in ServedNow, m \in Requests : request[i] = m => Held(m)'
    BY <1>5 DEF Held
  <2>5. NoneForgotten
    BY <2>1, <2>2, <2>3, <2>4 DEF NoneForgotten
  <2> QED
    BY <1>6, <1>7, <2>3, <2>5 DEF NoneInvented
<1>9. CASE RefuseWork(e) /\ \E rest \in Keeping(e) :
                              Posted(Server, rest, Response(j, e.msg.id, 1, "error"))
  <2> DEFINE answer == Response(j, e.msg.id, 1, "error")
  <2>1. PICK rest \in Keeping(e) : Posted(Server, rest, answer)
    BY <1>9
  <2>2. answer.id = e.msg.id /\ answer.job = j
    BY DEF Response
  <2>3. e.msg.serial = 0
    BY <1>9 DEF RefuseWork, IsAsked
  <2>4. /\ dropped \subseteq dropped'
        /\ answer \in Messages(mail') \/ Dropped(answer.id)'
        /\ Messages(mail') \subseteq Messages(rest) \union {answer}
        /\ Messages(rest) \subseteq Messages(mail')
    BY <2>1, PostedEffect, NodesAssumption
  <2> HIDE DEF answer
  <2>5. Held(e.msg.id)' \/ Dropped(e.msg.id)'
    BY <2>2, <2>4 DEF Held, OnTheWay, Dropped
  <2>6. /\ \A x \in OnTheWay' : x \in OnTheWay \/ x = answer
        /\ \A x \in OnTheWay : x \in OnTheWay' \/ x = e.msg
    BY <1>1, <2>4, KeepingEffect DEF OnTheWay
  <2>7. \A i \in ServedNow, m \in Requests : request[i] = m => Held(m)'
    BY <1>5 DEF Held
  <2>8. NoneForgotten
    BY <2>3, <2>4, <2>5, <2>6, <2>7 DEF NoneForgotten
  <2>9. Attributed(answer)'
    BY <1>1, <1>2, <1>3, <2>2 DEF Attributed
  <2> QED
    BY <1>6, <1>7, <2>6, <2>8, <2>9 DEF NoneInvented
<1> QED
  BY <1>1, <1>8, <1>9

(* What a job sends answers its request, whether it goes on or is over.    *)
LEMMA CoroutineEffect ==
  ASSUME Inv, MeshTypes, Custody, NEW j \in Jobs, Coroutine(j)
  PROVE  /\ NoneForgotten /\ NoneInvented /\ PastStays
         /\ \A i \in 1 .. calls : i # j => SerialStays(i)
         /\ j \in 1 .. calls /\ phase[j] = "serving" /\ UNCHANGED calls
         /\ SerialStays(j) \/ SaysMore(j)
<1>1. PICK s \in Nat, eof \in {"none", "ok", "error"} : Answers(j, s, eof)
  <2>1. Next1(j) \in Nat /\ Next1(j) + 1 \in Nat
    BY DEF Next1, Inv, JobTypes
  <2> QED
    BY <2>1 DEF Coroutine, SendResponse, SendError, SendEof
<1>2. /\ UNCHANGED <<calls, request, sent, inbox>> /\ phase[j] = "serving"
      /\ \/ /\ serial' = serial
            /\ phase' = [phase EXCEPT ![j] = "ok"]
         \/ /\ serial' = [serial EXCEPT ![j] = @ + 1]
            /\ phase' = [phase EXCEPT ![j] = "error"]
         \/ /\ serial' = [serial EXCEPT ![j] = @ + 1] /\ phase' = phase
            /\ Answers(j, serial[j] + 1, "none")
            /\ Routed(Server, Response(j, request[j], serial[j] + 1, "none"))
  BY DEF Coroutine, SendResponse, SendError, SendEof, Answers, clientVars, Respond,
     RespondRaises, Finish, Ends, AtEnd, IsNext, Next1
<1>3. j \in 1 .. calls /\ request[j] \in Requests
  BY <1>2, JobFacts
<1>4. PastStays
  BY <1>2, <1>3 DEF PastStays, Inv, JobTypes
<1>5. \A i \in 1 .. calls : i \in Jobs /\ (i # j => phase'[i] = phase[i] /\ SerialStays(i))
  BY <1>2, JobFacts DEF SerialStays, Inv, JobTypes
<1>14. PICK m \in Requests : m = request[j]
  BY <1>3
<1>6. PICK answer : answer = Response(j, m, s, eof) /\ answer.id = m /\ answer.job = j
  <2>1. Response(j, m, s, eof).id = m /\ Response(j, m, s, eof).job = j
    BY DEF Response
  <2> QED
    BY <2>1
<1>7. /\ dropped \subseteq dropped'
      /\ answer \in Messages(mail') \/ Dropped(answer.id)'
      /\ Messages(mail') \subseteq Messages(mail) \union {answer}
      /\ Messages(mail) \subseteq Messages(mail')
  <2>1. Posted(Server, mail, answer)
    BY <1>1, <1>6, <1>14 DEF Answers
  <2> QED
    BY <2>1, PostedEffect, NodesAssumption
<1>8. Held(m)' \/ Dropped(m)'
  BY <1>2, <1>6, <1>7, <1>14 DEF Held, OnTheWay, Dropped
<1>9. /\ \A x \in OnTheWay' : x \in OnTheWay \/ x = answer
      /\ OnTheWay \subseteq OnTheWay'
  BY <1>2, <1>7 DEF OnTheWay
<1>10. ASSUME NEW i \in ServedNow, NEW k \in Requests, request[i] = k
       PROVE  Dropped(k)' \/ Held(k)'
  <2>1. CASE i = j
    BY <1>8, <1>10, <1>14, <2>1
  <2>2. CASE i # j
    <3>1. i \in ServedNow'
      BY <1>5, <2>2, JobFacts DEF ServedNow
    <3> QED
      BY <1>2, <1>10, <3>1 DEF Held
  <2> QED
    BY <2>1, <2>2
<1>11. NoneForgotten
  BY <1>7, <1>9, <1>10 DEF NoneForgotten
<1>12. NoneInvented
  <2>1. Attributed(answer)'
    BY <1>2, <1>3, <1>6, <1>14 DEF Attributed, Custody
  <2> QED
    BY <1>9, <2>1 DEF NoneInvented
<1>13. SerialStays(j) \/ SaysMore(j)
  <2>1. CASE serial' = serial
    BY <1>2, <2>1 DEF SerialStays
  <2>2. CASE phase' = [phase EXCEPT ![j] = "error"] /\ serial' = [serial EXCEPT ![j] = @ + 1]
    BY <1>2, <2>2 DEF Inv, JobTypes, SaysMore
  <2>3. CASE /\ Answers(j, serial[j] + 1, "none") /\ serial' = [serial EXCEPT ![j] = @ + 1]
             /\ Routed(Server, Response(j, request[j], serial[j] + 1, "none"))
    <3>5. PICK n \in Nat : n = serial[j] + 1
      BY DEF Inv, JobTypes
    <3>6. Response(j, m, n, "none").job = j /\ Response(j, m, n, "none").serial = n
      BY DEF Response
    <3>1. PICK x : x = Response(j, m, n, "none") /\ x.job = j /\ x.serial = n
      BY <3>6
    <3>2. mail' = mail \union {Entry(Server, x)}
      BY <1>14, <2>3, <3>1, <3>5 DEF Answers, Posted, Forwarded
    <3>3. x \in Messages(mail')
      BY <3>2, OneMore
    <3>4. Seen(j, n)'
      BY <3>1, <3>3 DEF Seen, Messages
    <3> QED
      BY <1>2, <2>3, <3>4, <3>5 DEF Inv, JobTypes, SaysMore
  <2> QED
    BY <1>2, <2>1, <2>2, <2>3
<1> QED
  BY <1>2, <1>3, <1>4, <1>5, <1>11, <1>12, <1>13

(* A link or a restart loses messages, and says so.                        *)
LEMMA LossEffect ==
  ASSUME Inv, Custody, (\E e \in mail : Lose(e)) \/ \E n \in Nodes : Restart(n)
  PROVE  NoneForgotten /\ NoneInvented /\ PastStays /\ SerialsStay /\ UNCHANGED calls
<1>1. UNCHANGED <<calls, request, serial, sent, inbox>>
      /\ \A j \in Jobs : phase[j] = "error" => phase'[j] = "error"
  BY DEF Lose, Restart, WorkRestart, workVars, clientVars
<1>2. mail' \subseteq mail /\ dropped \subseteq dropped'
  BY DEF Lose, Restart
<1>3. OnTheWay' \subseteq OnTheWay
  BY <1>1, <1>2 DEF OnTheWay, Messages
<1>4. \A e \in mail : e \in mail' \/ \E why : <<e.msg.id, why>> \in dropped'
  <2>1. CASE \E e \in mail : Lose(e)
    BY <2>1 DEF Lose
  <2>2. ASSUME NEW n \in Nodes, Restart(n)
        PROVE  \A e \in mail : e \in mail' \/ <<e.msg.id, "restart">> \in dropped'
    BY <2>2 DEF Restart
  <2> QED
    BY <2>1, <2>2
<1>5. \A e \in mail : e \in mail' \/ Dropped(e.msg.id)'
  BY <1>4, DropsIt
<1>6. \A x \in OnTheWay : x \in OnTheWay' \/ Dropped(x.id)'
  BY <1>1, <1>5 DEF OnTheWay, Messages
<1>7. ASSUME NEW j \in ServedNow, NEW m \in Requests, request[j] = m
      PROVE  Dropped(m)' \/ Held(m)'
  <2>1. CASE \E e \in mail : Lose(e)
    <3>1. UNCHANGED phase
      BY <2>1 DEF Lose, workVars
    <3> QED
      BY <1>1, <1>7, <3>1 DEF Held, ServedNow
  <2>2. ASSUME NEW n \in Nodes, Restart(n) PROVE Dropped(m)' \/ Held(m)'
    <3>1. CASE n = Server
      <4>1. m \in Lost(n)
        BY <1>7, <3>1 DEF Lost
      <4>2. <<m, "restart">> \in dropped'
        BY <2>2, <4>1 DEF Restart
      <4> QED
        BY <4>2, DropsIt
    <3>2. CASE n # Server
      <4>1. UNCHANGED <<phase, request>>
        BY <2>2, <3>2 DEF Restart, workVars
      <4> QED
        BY <1>7, <4>1 DEF Held, ServedNow
    <3> QED
      BY <3>1, <3>2
  <2> QED
    BY <2>1, <2>2
<1>8. NoneForgotten
  BY <1>2, <1>6, <1>7 DEF NoneForgotten
<1> QED
  BY <1>1, <1>3, <1>8, JobFacts DEF NoneInvented, PastStays, SerialsStay, SerialStays

(* What any step does: it forgets no message, makes none up, and leaves    *)
(* the serials as they are but for the job that answers.                   *)
LEMMA StepEffect ==
  ASSUME Inv, MeshTypes, Custody, [Next]_vars
  PROVE  /\ NoneForgotten /\ NoneInvented /\ PastStays /\ NewAreAsked
         /\ \A j \in 1 .. calls : SerialStays(j) \/ SaysMore(j)
<1> DEFINE Goal ==
      /\ NoneForgotten /\ NoneInvented /\ PastStays /\ NewAreAsked
      /\ \A j \in 1 .. calls : SerialStays(j) \/ SaysMore(j)
<1>1. calls \in Nat /\ (UNCHANGED calls => NewAreAsked)
  BY JobFacts DEF NewAreAsked
<1>2. ASSUME NoneForgotten, NoneInvented, PastStays, SerialsStay, NewAreAsked PROVE Goal
  BY <1>2 DEF SerialsStay
<1>3. ASSUME NEW m \in Requests, Send(m) PROVE Goal
  <2>1. UNCHANGED calls
    BY <1>3 DEF Send, workVars
  <2> QED
    BY <1>1, <1>2, <1>3, <2>1, SendEffect
<1>4. ASSUME NEW m \in Requests, Deliver(m) PROVE Goal
  <2>1. PICK e \in mail : HandleMessage(e)
    BY <1>4 DEF Deliver
  <2>2. CASE Relay(e) \/ HandleResponse(e) \/ Ping(e) \/ Invalid(e)
    <3>1. UNCHANGED calls
      BY <2>2 DEF Relay, HandleResponse, Ping, Invalid, workVars
    <3> QED
      BY <1>1, <1>2, <2>2, <3>1, DeliveryEffect
  <2>3. CASE StartWork(e) \/ RefuseWork(e)
    BY <1>2, <2>3, WorkBegins
  <2> QED
    BY <2>1, <2>2, <2>3 DEF HandleMessage
<1>5. ASSUME NEW j \in Jobs, Coroutine(j) PROVE Goal
  <2>1. \A i \in 1 .. calls : SerialStays(i) \/ (i = j /\ SaysMore(j))
    BY <1>5, CoroutineEffect
  <2> QED
    BY <1>1, <1>5, <2>1, CoroutineEffect
<1>6. ASSUME NEW j \in Jobs, Emit(j) \/ Start(j) \/ Over(j) \/ Callback(j) PROVE Goal
  <2>1. UNCHANGED <<calls, request, phase, serial>> /\ Elsewhere
    BY <1>6 DEF Emit, Start, Over, Callback, Put, ThreadStart, Return, Close
  <2> QED
    BY <1>1, <1>2, <2>1, WorkMoves
<1>7. CASE (\E e \in mail : Lose(e)) \/ \E n \in Nodes : Restart(n)
  BY <1>1, <1>2, <1>7, LossEffect
<1>8. ASSUME UNCHANGED <<workVars, inbox, dropped, mail>>,
             \A m \in Requests : sent[m] = "sent" => sent'[m] = "sent"
      PROVE  Goal
  BY <1>1, <1>2, <1>8, NothingMoves DEF workVars
<1>9. ASSUME NEW m \in Requests, Refuse(m) PROVE Goal
  BY <1>8, <1>9 DEF Refuse, netVars, MeshTypes
<1>10. ASSUME NEW link \in Links, CutLink(link) \/ MendLink(link) PROVE Goal
  BY <1>8, <1>10 DEF CutLink, MendLink, clientVars
<1>11. ASSUME NEW n \in Nodes, NEW t \in Tables[n], Reroute(n, t) PROVE Goal
  BY <1>8, <1>11 DEF Reroute, clientVars
<1>12. CASE UNCHANGED vars
  BY <1>8, <1>12 DEF vars, netVars, clientVars
<1> QED
  BY <1>3, <1>4, <1>5, <1>6, <1>7, <1>9, <1>10, <1>11, <1>12 DEF Next

(* A response that has been seen is seen after the step, or was dropped.   *)
LEMMA SeenStays ==
  ASSUME Inv, Custody, NoneForgotten, PastStays,
         NEW j \in 1 .. calls, NEW s \in Nat \ {0}, Seen(j, s)
  PROVE  Seen(j, s)' \/ Dropped(request[j])'
<1>1. PICK x \in OnTheWay : x.job = j /\ x.serial = s
  BY DEF Seen, OnTheWay, Messages
<1>2. x.id = request[j] /\ request'[j] = request[j]
  BY <1>1, JobFacts DEF Custody, Attributed, PastStays
<1>3. x \in OnTheWay' \/ Dropped(x.id)'
  BY <1>1 DEF NoneForgotten
<1>4. x \in OnTheWay' => Seen(j, s)'
  BY <1>1 DEF Seen, OnTheWay, Messages
<1> QED
  BY <1>2, <1>3, <1>4 DEF Dropped

(* The jobs there are have answered what their serials say, after a step   *)
(* as before it.                                                           *)
LEMMA AnsweredStays ==
  ASSUME Inv, Custody, NoneForgotten, PastStays,
         NEW j \in 1 .. calls, Answered(j), SerialStays(j) \/ SaysMore(j)
  PROVE  Answered(j)'
<1>1. request'[j] = request[j] /\ serial[j] \in Nat
  BY JobFacts DEF PastStays, Inv, JobTypes
<1>2. CASE Dropped(request[j])
  BY <1>1, <1>2 DEF NoneForgotten, Dropped, Answered
<1>3. CASE Dropped(request[j])'
  BY <1>3 DEF Answered
<1>4. ASSUME ~Dropped(request[j]), ~Dropped(request[j])'
      PROVE  \A s \in 1 .. serial'[j] : Seen(j, s)' \/ (s = serial'[j] /\ phase'[j] = "error")
  <2> TAKE s \in 1 .. serial'[j]
  <2>1. \A n \in 1 .. serial[j] : n \in Nat \ {0} /\ (Seen(j, n) => Seen(j, n)')
    BY <1>1, <1>4, SeenStays
  <2>2. \A n \in 1 .. serial[j] : Seen(j, n) \/ (n = serial[j] /\ phase[j] = "error")
    BY <1>4 DEF Answered
  <2>3. CASE SerialStays(j)
    BY <2>1, <2>2, <2>3 DEF SerialStays
  <2>4. CASE SaysMore(j)
    <3>1. PICK n \in Nat : /\ phase[j] = "serving" /\ n = serial[j] + 1
                           /\ serial'[j] = n
                           /\ Seen(j, n)' \/ phase'[j] = "error"
      BY <2>4 DEF SaysMore
    <3>2. s \in 1 .. serial[j] \/ s = n
      BY <1>1, <3>1
    <3> QED
      BY <2>1, <2>2, <3>1, <3>2
  <2> QED
    BY <2>3, <2>4
<1> QED
  BY <1>2, <1>3, <1>4 DEF Answered

(* A step of a job never answered before.                                  *)
LEMMA NewAnswered ==
  ASSUME NewAreAsked, NEW j \in 1 .. calls', j > calls
  PROVE  Answered(j)'
<1>1. serial'[j] = 0
  BY DEF NewAreAsked
<1> QED
  BY <1>1 DEF Answered

(* Why a message is gone: only what is not expected is dropped as such,    *)
(* and only what is invalid.                                               *)
Reasons(d) ==
  /\ d[2] = "unexpected" => kind[d[1]] = "keepalive" \/ From[d[1]] \in restarted
  /\ d[2] = "lost" => faults > 0
  /\ d[2] = "restart" => restarted # {}
  /\ d[2] = "invalid" => kind[d[1]] = "invalid"
DroppedForGood == faults \in Nat /\ \A d \in dropped : Reasons(d)

LEMMA KindsStay == [Next]_vars => UNCHANGED kind
  BY DEF Next, vars, Send, Refuse, Deliver, HandleMessage, Relay, HandleResponse, Ping,
     Invalid, StartWork, RefuseWork, clientVars, Emit, Start, Over, Callback, Coroutine,
     SendResponse, SendError, SendEof, Answers, Elsewhere, Lose, CutLink, MendLink,
     Reroute, Restart

(* A request leaves the registry of its node by a restart of that node.    *)
LEMMA ExpectedStays ==
  ASSUME MeshTypes, Custody, [Next]_vars, NEW m \in Requests
  PROVE  Expected(m)'
<1>1. UNCHANGED kind /\ Expected(m)
  BY KindsStay DEF Custody
<1>2. CASE UNCHANGED <<sent, registry, restarted>>
  BY <1>1, <1>2 DEF Expected
<1>3. ASSUME NEW k \in Requests, Send(k) PROVE Expected(m)'
  BY <1>1, <1>3 DEF Send, Expected, MeshTypes
<1>4. ASSUME NEW k \in Requests, Refuse(k) PROVE Expected(m)'
  BY <1>1, <1>4 DEF Refuse, Expected, MeshTypes, netVars
<1>5. ASSUME NEW n \in Nodes, Restart(n) PROVE Expected(m)'
  BY <1>1, <1>5 DEF Restart, Expected
<1>6. ASSUME NEW k \in Requests, Deliver(k) PROVE UNCHANGED <<sent, registry, restarted>>
  BY <1>6 DEF Deliver, HandleMessage, Relay, HandleResponse, Ping, Invalid, StartWork,
     RefuseWork, clientVars
<1>7. ASSUME NEW j \in Jobs, Emit(j) \/ Start(j) \/ Over(j) \/ Callback(j) \/ Coroutine(j)
      PROVE  UNCHANGED <<sent, registry, restarted>>
  BY <1>7 DEF Emit, Start, Over, Callback, Coroutine, SendResponse, SendError, SendEof,
     Answers, Elsewhere, netVars, clientVars
<1>8. ASSUME \/ \E e \in mail : Lose(e)
             \/ \E link \in Links : CutLink(link) \/ MendLink(link)
             \/ \E n \in Nodes : \E table \in Tables[n] : Reroute(n, table)
             \/ UNCHANGED vars
      PROVE  UNCHANGED <<sent, registry, restarted>>
  BY <1>8 DEF Lose, CutLink, MendLink, Reroute, vars, netVars, clientVars
<1> QED
  BY <1>2, <1>3, <1>4, <1>5, <1>6, <1>7, <1>8 DEF Next

(* What has gone wrong is counted.                                         *)
LEMMA HistoryGrows ==
  ASSUME faults \in Nat, [Next]_vars
  PROVE  faults' \in Nat /\ faults <= faults' /\ restarted \subseteq restarted'
<1>1. ASSUME UNCHANGED <<faults, restarted>>
      PROVE  faults' \in Nat /\ faults <= faults' /\ restarted \subseteq restarted'
  BY <1>1
<1>2. ASSUME NEW m \in Requests, Send(m) \/ Refuse(m) PROVE UNCHANGED <<faults, restarted>>
  BY <1>2 DEF Send, Refuse, netVars
<1>3. ASSUME NEW m \in Requests, Deliver(m)
      PROVE  UNCHANGED restarted /\ (faults' = faults \/ faults' = faults + 1)
  BY <1>3 DEF Deliver, HandleMessage, Relay, HandleResponse, Ping, Invalid, StartWork,
     RefuseWork, Arrives, IsAsked, Taken
<1>4. ASSUME NEW j \in Jobs, Emit(j) \/ Start(j) \/ Over(j) \/ Callback(j) \/ Coroutine(j)
      PROVE  UNCHANGED <<faults, restarted>>
  BY <1>4 DEF Emit, Start, Over, Callback, Coroutine, SendResponse, SendError, SendEof,
     Answers, Elsewhere, netVars
<1>5. ASSUME \/ \E link \in Links : MendLink(link)
             \/ \E n \in Nodes : \E table \in Tables[n] : Reroute(n, table)
             \/ UNCHANGED vars
      PROVE  UNCHANGED <<faults, restarted>>
  BY <1>5 DEF MendLink, Reroute, vars, netVars
<1>6. ASSUME \/ \E e \in mail : Lose(e)
             \/ \E link \in Links : CutLink(link)
      PROVE  UNCHANGED restarted /\ faults' = faults + 1
  BY <1>6 DEF Lose, CutLink
<1>7. ASSUME NEW n \in Nodes, Restart(n)
      PROVE  restarted' = restarted \union {n} /\ faults' = faults + 1
  BY <1>7 DEF Restart
<1> QED
  BY <1>1, <1>2, <1>3, <1>4, <1>5, <1>6, <1>7 DEF Next

(* What is entered as dropped, and why.                                    *)
LEMMA DroppedStaysGood ==
  ASSUME MeshTypes, Custody, DroppedForGood, [Next]_vars
  PROVE  DroppedForGood'
<1>1. UNCHANGED kind /\ faults' \in Nat /\ faults <= faults'
      /\ restarted \subseteq restarted' /\ faults \in Nat
  BY KindsStay, HistoryGrows DEF DroppedForGood
<1>9. ASSUME NEW d \in dropped PROVE Reasons(d)'
  BY <1>1, <1>9 DEF DroppedForGood, Reasons
<1> SUFFICES ASSUME NEW d \in dropped', d \notin dropped PROVE Reasons(d)'
  BY <1>1, <1>9 DEF DroppedForGood
<1>2. ASSUME NEW n, NEW rest, NEW x, Posted(n, rest, x) PROVE Reasons(d)'
  <2>1. d = <<x.id, "unrouteable">>
    BY <1>2 DEF Posted
  <2> QED
    BY <2>1 DEF Reasons
<1>3. ASSUME NEW m \in Requests, Deliver(m) PROVE Reasons(d)'
  <2>1. PICK e \in mail : HandleMessage(e)
    BY <1>3 DEF Deliver
  <2>2. CASE Ping(e) \/ RefuseWork(e)
    BY <1>2, <2>2 DEF Ping, RefuseWork
  <2>3. CASE Relay(e) \/ StartWork(e)
    BY <2>3 DEF Relay, StartWork
  <2>4. CASE HandleResponse(e)
    <3>1. d = <<e.msg.id, "unexpected">> /\ e.msg.id \notin registry
      BY <2>4 DEF HandleResponse
    <3>2. e.msg \in OnTheWay /\ e.msg.id \in Requests
      BY DEF OnTheWay, Messages, MeshTypes, EntryTypes, MessageTypes
    <3>3. kind[e.msg.id] = "keepalive" \/ From[e.msg.id] \in restarted
      BY <3>1, <3>2 DEF Custody, Attributed, Expected
    <3> QED
      BY <1>1, <3>1, <3>3 DEF Reasons
  <2>5. CASE Invalid(e)
    <3>1. d = <<e.msg.id, "invalid">> /\ kind[e.msg.id] = "invalid"
      BY <2>5 DEF Invalid, IsAsked
    <3> QED
      BY <1>1, <3>1 DEF Reasons
  <2> QED
    BY <2>1, <2>2, <2>3, <2>4, <2>5 DEF HandleMessage
<1>4. ASSUME NEW j \in Jobs, Coroutine(j) PROVE Reasons(d)'
  BY <1>2, <1>4 DEF Coroutine, SendResponse, SendError, SendEof, Answers
<1>5. ASSUME NEW e \in mail, Lose(e) PROVE Reasons(d)'
  <2>1. d = <<e.msg.id, "lost">> /\ faults' = faults + 1
    BY <1>5 DEF Lose
  <2> QED
    BY <1>1, <2>1 DEF Reasons
<1>6. ASSUME NEW n \in Nodes, Restart(n) PROVE Reasons(d)'
  <2>1. d[2] = "restart" /\ n \in restarted'
    BY <1>6 DEF Restart
  <2> QED
    BY <2>1 DEF Reasons
<1>7. ASSUME \/ \E m \in Requests : Send(m) \/ Refuse(m)
             \/ \E j \in Jobs : Emit(j) \/ Start(j) \/ Over(j) \/ Callback(j)
             \/ \E link \in Links : CutLink(link) \/ MendLink(link)
             \/ \E n \in Nodes : \E table \in Tables[n] : Reroute(n, table)
             \/ UNCHANGED vars
      PROVE  UNCHANGED dropped
  BY <1>7 DEF Send, Refuse, Emit, Start, Over, Callback, Elsewhere, CutLink, MendLink,
     Reroute, vars, netVars
<1> QED
  BY <1>3, <1>4, <1>5, <1>6, <1>7 DEF Next

(* Every request that was sent is held, or something of it was dropped.    *)
NoRequestForgotten ==
  \A m \in Requests : sent[m] = "sent" => Dropped(m) \/ Held(m)

MeshInv ==
  /\ Custody /\ NoRequestForgotten /\ DroppedForGood
  /\ \A j \in 1 .. calls : Answered(j)

LEMMA HeldStays ==
  ASSUME Inv, NoneForgotten, NEW m \in Requests, Dropped(m) \/ Held(m)
  PROVE  Dropped(m)' \/ Held(m)'
<1>1. CASE Dropped(m)
  BY <1>1 DEF NoneForgotten, Dropped
<1>2. CASE \E x \in OnTheWay : x.id = m
  <2>1. PICK x \in OnTheWay : x.id = m
    BY <1>2
  <2>2. x \in OnTheWay' => Held(m)'
    BY <2>1 DEF Held
  <2> QED
    BY <2>1, <2>2 DEF NoneForgotten
<1>3. CASE \E j \in ServedNow : request[j] = m
  BY <1>3 DEF NoneForgotten
<1> QED
  BY <1>1, <1>2, <1>3 DEF Held

(* Only Send makes a request a sent one, and its message is under way.     *)
LEMMA RequestsStayHeld ==
  ASSUME Inv, MeshTypes, Custody, NoRequestForgotten, [Next]_vars
  PROVE  NoRequestForgotten'
<1> SUFFICES ASSUME NEW m \in Requests, sent'[m] = "sent"
             PROVE  Dropped(m)' \/ Held(m)'
  BY DEF NoRequestForgotten
<1>1. CASE sent[m] = "sent"
  BY <1>1, StepEffect, HeldStays DEF NoRequestForgotten
<1>2. ASSUME NEW k \in Requests, Send(k) PROVE sent[m] = "sent" \/ Held(m)'
  BY <1>2, SendEffect
<1>3. ASSUME NEW k \in Requests, Refuse(k) PROVE sent[m] = "sent"
  BY <1>3 DEF Refuse, MeshTypes
<1>4. ASSUME NEW k \in Requests, Deliver(k) PROVE UNCHANGED sent
  BY <1>4 DEF Deliver, HandleMessage, Relay, HandleResponse, Ping, Invalid, StartWork,
     RefuseWork, clientVars
<1>5. ASSUME \/ \E j \in Jobs : Emit(j) \/ Start(j) \/ Over(j) \/ Callback(j) \/ Coroutine(j)
             \/ \E e \in mail : Lose(e)
             \/ \E link \in Links : CutLink(link) \/ MendLink(link)
             \/ \E n \in Nodes : \E table \in Tables[n] : Reroute(n, table)
             \/ (\E n \in Nodes : Restart(n)) \/ UNCHANGED vars
      PROVE  UNCHANGED sent
  BY <1>5 DEF Emit, Start, Over, Callback, Coroutine, SendResponse, SendError, SendEof,
     Answers, Elsewhere, Lose, CutLink, MendLink, Reroute, Restart, vars, clientVars
<1> QED
  BY <1>1, <1>2, <1>3, <1>4, <1>5 DEF Next

LEMMA CustodyStays ==
  ASSUME Inv, MeshTypes, Custody, [Next]_vars
  PROVE  Custody'
<1>1. NoneForgotten /\ NoneInvented /\ PastStays /\ NewAreAsked
  BY StepEffect
<1>2. calls \in Nat /\ calls' \in Nat /\ \A j \in 1 .. calls : request[j] \in Requests
  <2>1. Inv'
    BY StepOfWork, NextInv
  <2> QED
    BY <2>1, JobFacts DEF Inv, JobTypes
<1>3. ASSUME NEW x \in OnTheWay', x \in OnTheWay PROVE Attributed(x)'
  <2>1. Attributed(x) /\ x \in MessageTypes
    BY <1>3 DEF Custody, MeshTypes, EntryTypes, OnTheWay, Messages
  <2>2. x.id \in Requests /\ x.job \in Nat
    BY <2>1 DEF MessageTypes
  <2> QED
    BY <1>1, <1>2, <2>1, <2>2 DEF Attributed, PastStays
<1>4. \A x \in OnTheWay' : Attributed(x)'
  BY <1>1, <1>3 DEF NoneInvented
<1>5. ASSUME NEW j \in 1 .. calls' PROVE sent'[request'[j]] = "sent"
  <2>1. CASE j > calls
    BY <1>1, <1>5, <2>1 DEF NewAreAsked
  <2>2. CASE j \in 1 .. calls
    BY <1>1, <1>2, <2>2 DEF PastStays, Custody
  <2> QED
    BY <1>2, <2>1, <2>2
<1> QED
  BY <1>4, <1>5, ExpectedStays DEF Custody

LEMMA NextMeshInv == Inv /\ MeshTypes /\ MeshInv /\ [Next]_vars => MeshInv'
<1> SUFFICES ASSUME Inv, MeshTypes, MeshInv, [Next]_vars PROVE MeshInv'
  OBVIOUS
<1>1. Custody' /\ NoRequestForgotten' /\ DroppedForGood'
  BY CustodyStays, RequestsStayHeld, DroppedStaysGood DEF MeshInv
<1>2. ASSUME NEW j \in 1 .. calls' PROVE Answered(j)'
  <2>1. NoneForgotten /\ PastStays /\ NewAreAsked
        /\ (j \in 1 .. calls => SerialStays(j) \/ SaysMore(j))
    BY StepEffect DEF MeshInv
  <2>2. CASE j \in 1 .. calls
    BY <2>1, <2>2, AnsweredStays DEF MeshInv
  <2>3. CASE j \notin 1 .. calls
    BY <2>1, <2>3, NewAnswered, JobFacts
  <2> QED
    BY <2>2, <2>3
<1> QED
  BY <1>1, <1>2 DEF MeshInv

LEMMA InitMeshInv == Init => MeshInv
<1> SUFFICES ASSUME Init PROVE MeshInv
  OBVIOUS
<1>1. OnTheWay = {} /\ calls = 0 /\ \A m \in Requests : sent[m] = "no"
  BY DEF Init, WorkInit, OnTheWay, Messages
<1> QED
  BY <1>1 DEF Init, MeshInv, Custody, Expected, NoRequestForgotten, DroppedForGood, Reasons

(* No handler forgets a message: for any mesh, any tables and any faults,  *)
(* a request that was sent is on its way, being served, or answered, each  *)
(* response a job has counted is on its way or has arrived, unless one of  *)
(* them was dropped for a reason that is on record.                        *)
THEOREM NothingIsForgotten == Spec => []NothingVanishes
<1>1. MeshInv => NothingVanishes
  BY DEF MeshInv, NoRequestForgotten, DroppedForGood, Reasons, Held, Answered, OnTheWay, Messages,
     NothingVanishes
<1>2. Init => Inv /\ MeshTypes /\ MeshInv
  BY InitInv, InitTypes, InitMeshInv DEF Init
<1>3. (Inv /\ MeshTypes /\ MeshInv) /\ [Next]_vars => (Inv /\ MeshTypes /\ MeshInv)'
  BY NextInv, NextTypes, NextMeshInv, StepOfWork
<1> QED
  BY <1>1, <1>2, <1>3, PTL DEF Spec
=============================================================================
