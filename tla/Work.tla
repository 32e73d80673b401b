-------------------------------- MODULE Work --------------------------------
(***************************************************************************)
(* receptor.work.WorkManager of one node: the calls of plugins it has      *)
(* under way.  A job is one run of handle(): the coroutine adds the        *)
(* request to the list of active work, submits the plugin's action to a    *)
(* pool of threads, and forwards what the action puts into its BridgeQueue *)
(* as numbered responses until the sentinel, which a callback puts there   *)
(* when the action is over; then it sends the last message, with eof.      *)
(*                                                                         *)
(* router.send is not here: an action that calls it has a parameter that   *)
(* says whether it found a route (Requests composes the two).              *)
(*                                                                         *)
(* AnyThread, ClosedBare, EndsListed and ActionIsOver are mistakes: mutants *)
(* of the definitions after them.                                          *)
(***************************************************************************)
EXTENDS Naturals, FiniteSets, SequencesExt

CONSTANTS
  Requests,       \* message ids of requests
  MaxJobs,        \* bound on runs of handle()
  MaxWorkers,     \* default_max_workers, the threads of the pool
  MaxResponses    \* MaxResponses[m]: bound on what the runs of m put into queues

ASSUME WorkAssumption ==
  MaxJobs \in Nat /\ MaxWorkers \in Nat \ {0}
  /\ MaxResponses \in [Requests -> Nat]

Jobs == 1 .. MaxJobs

VARIABLES
  calls,      \* how many runs of handle() there have been
  request,    \* the request of a job
  phase,      \* its coroutine: "none", "serving" in the async for, over with
              \*   an eof message of code 0 ("ok") or 1 ("error"), "lost"
  serial,     \* its local serial
  queue,      \* its response_queue
  thread,     \* its action: "off", "queued" in the pool, "running", "over"
              \*   (returned or raised), "closed" (callback has run), "lost"
  put,        \* how much the action has put into the queue
  active      \* self.active_work: the ids of the messages

workVars == <<calls, request, phase, serial, queue, thread, put, active>>

Sentinel == "sentinel"
Items == {"data", "junk"}      \* junk: from_data cannot write it

WorkInit ==
  /\ calls = 0
  /\ request = <<>>
  /\ phase = [j \in Jobs |-> "none"]
  /\ serial = [j \in Jobs |-> 0]
  /\ queue = [j \in Jobs |-> <<>>]
  /\ thread = [j \in Jobs |-> "off"]
  /\ put = [j \in Jobs |-> 0]
  /\ active = <<>>

(* ---------------------------- the active work -------------------------- *)

(* remove_work walks the list by position while it removes from it: what   *)
(* moves into a freed place is not looked at.  The entries of two runs of  *)
(* one message are equal, and list.remove takes the first of them.         *)
Removed(s, m) ==
  LET walked[i \in 0 .. Len(s)] ==
        IF i = 0 THEN s
        ELSE LET w == walked[i - 1] IN
             IF i <= Len(w) /\ w[i] = m THEN RemoveFirst(w, m) ELSE w
  IN  walked[Len(s)]

(* ------------------------------- the thread ---------------------------- *)

Running == {j \in Jobs : thread[j] = "running"}
AnyThread == TRUE
FreeWorker == Cardinality(Running) < MaxWorkers

(* ThreadPoolExecutor takes what was submitted first.                      *)
ThreadStart(j) ==
  /\ thread[j] = "queued" /\ \A i \in Jobs : thread[i] = "queued" => j <= i
  /\ FreeWorker
  /\ thread' = [thread EXCEPT ![j] = "running"]
  /\ UNCHANGED <<calls, request, phase, serial, queue, put, active>>

Copies(m) == {j \in DOMAIN request : request[j] = m}

Put(j, item) ==
  /\ thread[j] = "running"
  /\ SumFunctionOnSet(put, Copies(request[j])) < MaxResponses[request[j]]
  /\ put' = [put EXCEPT ![j] = @ + 1]
  /\ queue' = [queue EXCEPT ![j] = Append(@, item)]
  /\ UNCHANGED <<calls, request, phase, serial, thread, active>>

(* The action returns, or raises: nobody asks the future which.            *)
Return(j) ==
  /\ thread[j] = "running"
  /\ thread' = [thread EXCEPT ![j] = "over"]
  /\ UNCHANGED <<calls, request, phase, serial, queue, put, active>>

ClosedBare(q) == q
Closed(q) == Append(q, Sentinel)

(* The future's callback, in the event loop: response_queue.close().       *)
Close(j) ==
  /\ thread[j] = "over"
  /\ thread' = [thread EXCEPT ![j] = "closed"]
  /\ queue' = [queue EXCEPT ![j] = Closed(@)]
  /\ UNCHANGED <<calls, request, phase, serial, put, active>>

(* ------------------------------ the coroutine -------------------------- *)

Called(j, m) == j = calls + 1 /\ calls' = j /\ request' = Append(request, m)

(* handle() up to its first suspension, the action submitted.              *)
Submit(j, m) ==
  /\ Called(j, m)
  /\ phase' = [phase EXCEPT ![j] = "serving"]
  /\ thread' = [thread EXCEPT ![j] = "queued"]
  /\ active' = Append(active, m)
  /\ UNCHANGED <<serial, queue, put>>

(* handle() when there is no such action (get_action_method raises, before *)
(* add_work), or its payload cannot be resolved (after it).                *)
Reject(j, m, listed) ==
  /\ Called(j, m)
  /\ phase' = [phase EXCEPT ![j] = "error"]
  /\ active' = Removed(IF listed THEN Append(active, m) ELSE active, m)
  /\ UNCHANGED <<serial, queue, thread, put>>

EndsListed(j, how) ==
  phase' = [phase EXCEPT ![j] = how] /\ UNCHANGED active
Ends(j, how) ==
  /\ phase' = [phase EXCEPT ![j] = how]
  /\ active' = Removed(active, request[j])

IsNext(j, item) ==
  phase[j] = "serving" /\ queue[j] # <<>> /\ Head(queue[j]) = item

Next1(j) == serial[j] + 1

(* A round of the async for: the next response is sent.                    *)
Respond(j) ==
  /\ IsNext(j, "data")
  /\ serial' = [serial EXCEPT ![j] = Next1(j)]
  /\ queue' = [queue EXCEPT ![j] = Tail(@)]
  /\ UNCHANGED <<calls, request, phase, thread, put, active>>

(* The round raises: no route, or a response that is not text or bytes.    *)
(* The thread goes on.                                                     *)
RespondRaises(j, routed) ==
  /\ IsNext(j, "junk") \/ (IsNext(j, "data") /\ ~routed)
  /\ serial' = [serial EXCEPT ![j] = Next1(j)]
  /\ queue' = [queue EXCEPT ![j] = Tail(@)]
  /\ Ends(j, "error")
  /\ UNCHANGED <<calls, request, thread, put>>

ActionIsOver(j) ==
  phase[j] = "serving" /\ queue[j] # <<>> /\ thread[j] \in {"over", "closed"}
AtEnd(j) == IsNext(j, Sentinel)

(* The sentinel ends the loop.                                             *)
Finish(j) ==
  /\ AtEnd(j)
  /\ queue' = [queue EXCEPT ![j] = Tail(@)]
  /\ Ends(j, "ok")
  /\ UNCHANGED <<calls, request, serial, thread, put>>

(* The process is lost: the list, the queues and the threads with it.      *)
WorkRestart ==
  /\ phase' = [j \in Jobs |-> IF phase[j] = "serving" THEN "lost" ELSE phase[j]]
  /\ thread' = [j \in Jobs |->
       IF thread[j] \in {"off", "closed"} THEN thread[j] ELSE "lost"]
  /\ queue' = [j \in Jobs |-> <<>>]
  /\ active' = <<>>
  /\ UNCHANGED <<calls, request, serial, put>>

Threads == \E j \in Jobs :
  \/ ThreadStart(j) \/ Return(j) \/ Close(j)
  \/ \E item \in Items : Put(j, item)

(* The work manager alone: requests and routes come as they like.          *)
WorkNext ==
  \/ Threads
  \/ \E j \in Jobs, m \in Requests :
       Submit(j, m) \/ \E listed \in BOOLEAN : Reject(j, m, listed)
  \/ WorkRestart
  \/ \E j \in Jobs :
       Respond(j) \/ Finish(j) \/ \E routed \in BOOLEAN : RespondRaises(j, routed)

WorkSpec == WorkInit /\ [][WorkNext]_workVars

-----------------------------------------------------------------------------

(* The jobs are well typed, and no more actions run than there are threads. *)
WorkTypeOK ==
  /\ calls \in 0 .. MaxJobs
  /\ request \in Seq(Requests) /\ Len(request) = calls
  /\ phase \in [Jobs -> {"none", "serving", "ok", "error", "lost"}]
  /\ serial \in [Jobs -> Nat] /\ put \in [Jobs -> Nat]
  /\ queue \in [Jobs -> Seq(Items \union {Sentinel})]
  /\ thread \in [Jobs -> {"off", "queued", "running", "over", "closed", "lost"}]
  /\ Cardinality(Running) <= MaxWorkers

(* A job that ends with code 0 ends after its action did, and has sent     *)
(* everything the action put into the queue, numbered without a gap: the   *)
(* serial of its eof message is one more than their number.  While it is   *)
(* served, what has been sent and what waits make up what was put.         *)
EofCountsResponses ==
  \A j \in Jobs :
    /\ phase[j] = "ok" => thread[j] = "closed" /\ serial[j] = put[j]
    /\ phase[j] = "serving" =>
         serial[j] + Len(queue[j]) =
           IF thread[j] = "closed" THEN put[j] + 1 ELSE put[j]

Served(m) == {j \in Copies(m) : phase[j] = "serving"}
Entries(m) == {i \in DOMAIN active : active[i] = m}

(* What a ping reports as active work is being served, each entry by a job *)
(* of its own; and a job being served is reported, unless another job of   *)
(* the same message has ended and taken both entries out (remove_work does *)
(* not stop at the first).                                                 *)
ActiveWorkIsServed ==
  \A m \in Requests :
    /\ Cardinality(Entries(m)) <= Cardinality(Served(m))
    /\ Served(m) # {} /\ Entries(m) = {} =>
         \E j \in Copies(m) : phase[j] \in {"ok", "error"}
=============================================================================
