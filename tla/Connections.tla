---------------------------- MODULE Connections ----------------------------
(***************************************************************************)
(* The life of connections from being dialled to being dialled again: the  *)
(* two Workers of each, their handshake with its 20 seconds, receive(),    *)
(* watch_queue as far as it notices that the connection is closed, and     *)
(* unregister.  One end of every connection is at this node, "here", whose *)
(* registry and manifest module Registry specifies; of the node "there"    *)
(* only the Worker is modelled.                                            *)
(*                                                                         *)
(* RedialsInPlainAlways, TimesOutRegistering and KeepsReading are          *)
(* mistakes: mutants of the definitions after them.                        *)
(***************************************************************************)
EXTENDS Registry, FiniteSets

CONSTANTS
  Client,      \* Client[c]: the side that dials
  Transport,   \* Transport[c]: "raw", "tls" (raw over TLS) or "ws"
  Before,      \* Before[c]: the connection that c replaces, or NoConn
  NoConn,
  Scenarios    \* [conns, traffic, faults, days, heard, sweeps]: which
               \*   connections there are, whether something is sent on
               \*   them again and again, and bounds

Sides == {"here", "there"}
Other(s) == IF s = "here" THEN "there" ELSE "here"

ASSUME ConnectionsAssumption ==
  /\ Client \in [Conns -> Sides]
  /\ Transport \in [Conns -> {"raw", "tls", "ws"}]
  /\ Before \in [Conns -> Conns \union {NoConn}] /\ NoConn \notin Conns

VARIABLES
  pc,         \* pc[c][s]: "none", "waiting" for HI, "registering",
              \*   "serving" in start_processing, "failed" with an exception,
              \*   "leaving" in unregister, "gone"
  hi,         \* hi[c]: the sides that have said HI
  open,       \* the sides whose transport is not closed
  deaf,       \* the sides whose receive() has ended but closed nothing
  broken,     \* the connections that have failed
  scenario, faults, heard, sweeps   \* what is examined; counted to bound it

workerVars == <<pc, hi, open, deaf, broken>>
boundVars == <<scenario, faults, heard, sweeps>>
vars == <<registryVars, workerVars, boundVars>>

Init ==
  /\ RegistryInit
  /\ pc = [c \in Conns |-> [s \in Sides |-> "none"]]
  /\ hi = [c \in Conns |-> {}] /\ open = [c \in Conns |-> {}]
  /\ deaf = [c \in Conns |-> {}] /\ broken = {}
  /\ scenario \in Scenarios
  /\ faults = 0 /\ heard = 0 /\ sweeps = 0

Fault == faults < scenario.faults /\ faults' = faults + 1
         /\ UNCHANGED <<scenario, heard, sweeps>>

Goes(c, s, where) == pc' = [pc EXCEPT ![c][s] = where]

(* A web socket is closed when its handler returns or `async with` ends; a *)
(* raw socket is not.                                                      *)
Left(c, s) == IF Transport[c] = "ws" THEN open[c] \ {s} ELSE open[c]
Goodbye(c, s) == Goes(c, s, "gone") /\ open' = [open EXCEPT ![c] = Left(c, s)]

(* ------------------------------- connecting ---------------------------- *)

(* sock.connect() passes itself on without the ssl argument; ws.connect()  *)
(* keeps it.                                                               *)
RedialsInPlainAlways(c) == Before[c] # NoConn
RedialsInPlain(c) == Transport[c] = "tls" /\ Before[c] # NoConn

MayDial(c) ==
  /\ c \in scenario.conns /\ pc[c][Client[c]] = "none"
  /\ Before[c] # NoConn => pc[Before[c]][Client[c]] = "gone"

(* connect() and, at the other end, serve(); the client says HI first.     *)
Dial(c) ==
  /\ MayDial(c) /\ ~RedialsInPlain(c)
  /\ pc' = [pc EXCEPT ![c] = [s \in Sides |-> "waiting"]]
  /\ hi' = [hi EXCEPT ![c] = {Client[c]}]
  /\ open' = [open EXCEPT ![c] = Sides]
  /\ UNCHANGED <<registryVars, deaf, broken, boundVars>>

(* A listener with TLS refuses the HI it takes for a handshake.            *)
DialPlain(c) ==
  /\ MayDial(c) /\ RedialsInPlain(c)
  /\ pc' = [pc EXCEPT ![c][Client[c]] = "waiting", ![c][Other(Client[c])] = "gone"]
  /\ open' = [open EXCEPT ![c] = {Client[c]}]
  /\ UNCHANGED <<registryVars, hi, deaf, broken, boundVars>>

DialFails(c) ==
  /\ MayDial(c) /\ Fault
  /\ pc' = [pc EXCEPT ![c] = [s \in Sides |-> "gone"]]
  /\ UNCHANGED <<registryVars, hi, open, deaf, broken>>

(* ------------------------------ the handshake -------------------------- *)

(* _wait_handshake() gets the HI and registers.                            *)
GetHi(c, s) ==
  /\ pc[c][s] = "waiting" /\ Other(s) \in hi[c] /\ s \notin deaf[c]
  /\ Goes(c, s, "registering")
  /\ IF s = "here" THEN Register(c) ELSE UNCHANGED registryVars
  /\ UNCHANGED <<hi, open, deaf, broken, boundVars>>

HiMayCome(c, s) ==
  /\ s \in open[c] /\ s \notin deaf[c] /\ c \notin broken
  /\ Other(s) \in hi[c] \/ pc[c][Other(s)] \in {"waiting", "registering"}

TimesOutRegistering(c, s) == pc[c][s] \in {"waiting", "registering"}
WaitsForHi(c, s) == pc[c][s] = "waiting"

(* After 20 seconds: there is nothing to unregister.  Where a HI could     *)
(* have come, this is a fault.                                             *)
HiTimesOut(c, s) ==
  /\ WaitsForHi(c, s)
  /\ IF HiMayCome(c, s) THEN Fault ELSE UNCHANGED boundVars
  /\ Goodbye(c, s)
  /\ UNCHANGED <<registryVars, hi, deaf, broken>>

(* update_connections() is done; a server says HI, which fails on a broken *)
(* connection, and processing starts.                                      *)
Starts(c, s) ==
  \/ Goes(c, s, "serving") /\ hi' = [hi EXCEPT ![c] = @ \union {s}]
  \/ c \in broken /\ Client[c] # s /\ Goes(c, s, "failed") /\ UNCHANGED hi

RegisteredThere(c) ==
  /\ pc[c]["there"] = "registering"
  /\ Starts(c, "there")
  /\ UNCHANGED <<registryVars, open, deaf, broken, boundVars>>

RegisteringFailsThere(c) ==
  /\ pc[c]["there"] = "registering" /\ Fault
  /\ Goes(c, "there", "failed")
  /\ UNCHANGED <<registryVars, hi, open, deaf, broken>>

(* ------------------------------- serving ------------------------------- *)

Reading(c, s) ==
  pc[c][s] \in {"waiting", "registering", "serving"} /\ s \in open[c] /\ s \notin deaf[c]
Ended(c, s) == Other(s) \notin open[c] \/ c \in broken

(* receive() reads the end of the stream: the transport closes itself.     *)
(* A connection that has failed may never say so: the read has no timeout, *)
(* and by default there is neither keepalive nor heartbeat.                *)
KeepsReading(c, s) == open[c]
ClosedBy(c, s) == open[c] \ {s}
ReceiveEnds(c, s) ==
  /\ Reading(c, s) /\ Ended(c, s)
  /\ open' = [open EXCEPT ![c] = ClosedBy(c, s)]
  /\ UNCHANGED <<registryVars, pc, hi, deaf, broken, boundVars>>

(* It ends with ConnectionResetError, and closes nothing.                  *)
ReceiveIsReset(c, s) ==
  /\ Reading(c, s) /\ c \in broken /\ Transport[c] # "ws"
  /\ deaf' = [deaf EXCEPT ![c] = @ \union {s}]
  /\ UNCHANGED <<registryVars, pc, hi, open, broken, boundVars>>

(* It ends with an exception of the parser (FramedBuffer), likewise.       *)
ReceiveFails(c, s) ==
  /\ Reading(c, s) /\ pc[c][s] = "serving" /\ Fault
  /\ deaf' = [deaf EXCEPT ![c] = @ \union {s}]
  /\ UNCHANGED <<registryVars, pc, hi, open, broken>>

(* A drain_buf fails and closes the connection (Link).                     *)
SendFails(c, s) ==
  /\ pc[c][s] = "serving" /\ s \in open[c] /\ Ended(c, s)
  /\ open' = [open EXCEPT ![c] = @ \ {s}]
  /\ UNCHANGED <<registryVars, pc, hi, deaf, broken, boundVars>>

LinkBreaks(c) ==
  /\ open[c] # {} /\ c \notin broken /\ Fault
  /\ broken' = broken \union {c}
  /\ UNCHANGED <<registryVars, pc, hi, open, deaf>>

(* ------------------------------- leaving ------------------------------- *)

IsOver(c, s) ==
  pc[c][s] = "failed" \/ (pc[c][s] = "serving" /\ s \notin open[c])

LeaveThere(c) ==
  /\ IsOver(c, "there")
  /\ Goodbye(c, "there")
  /\ UNCHANGED <<registryVars, hi, deaf, broken, boundVars>>

(* unregister() in the finally of client() or server().                    *)
LeaveHere(c) ==
  /\ IsOver(c, "here")
  /\ Unregister(c)
  /\ Goes(c, "here", "leaving")
  /\ UNCHANGED <<hi, open, deaf, broken, boundVars>>

(* ------------------ the registry, with what follows its steps ---------- *)

Frame == UNCHANGED <<workerVars, boundVars>>

(* A task whose write has ended goes on.                                   *)
Finishes(c) == pc[c]["here"] = "leaving"
Written(t) ==
  /\ WriteEnds(t)
  /\ IF t = Sweep THEN UNCHANGED <<pc, hi, open>>
     ELSE IF Finishes(t) THEN Goodbye(t, "here") /\ UNCHANGED hi
     ELSE Starts(t, "here") /\ UNCHANGED open
  /\ UNCHANGED <<deaf, broken, boundVars>>

NotWritten(t) ==
  /\ Fault /\ WriteFails(t)
  /\ IF t = Sweep THEN UNCHANGED <<pc, open>>
     ELSE IF Finishes(t) THEN Goodbye(t, "here")
     ELSE Goes(t, "here", "failed") /\ UNCHANGED open
  /\ UNCHANGED <<hi, deaf, broken>>

Files(t) == (Acquire(t) \/ WriteBegins(t)) /\ Frame
SweepEnds == NothingExpired /\ Frame
Routes == Routing /\ Frame

SweepBegins ==
  /\ sweeps < scenario.sweeps /\ sweeps' = sweeps + 1
  /\ WatchExpire
  /\ UNCHANGED <<workerVars, scenario, faults, heard>>

HearOf(p) ==
  /\ heard < scenario.heard /\ heard' = heard + 1
  /\ Hear(p)
  /\ UNCHANGED <<workerVars, scenario, faults, sweeps>>

DayPasses == day < scenario.days /\ NextDay /\ Frame

(* What the two nodes do of themselves.                                    *)
Runs ==
  \/ \E c \in Conns :
       \/ Dial(c) \/ DialPlain(c) \/ RegisteredThere(c)
       \/ LeaveHere(c) \/ LeaveThere(c)
       \/ \E s \in Sides :
            \/ GetHi(c, s) \/ (c \notin broken /\ ReceiveEnds(c, s))
            \/ ~HiMayCome(c, s) /\ HiTimesOut(c, s)
  \/ \E t \in Tasks : Files(t) \/ Written(t)
  \/ SweepEnds \/ Routes

Next ==
  \/ Runs
  \/ \E c \in Conns :
       \/ DialFails(c) \/ RegisteringFailsThere(c) \/ LinkBreaks(c)
       \/ \E s \in Sides :
            \/ HiMayCome(c, s) /\ HiTimesOut(c, s)
            \/ c \in broken /\ ReceiveEnds(c, s)
            \/ ReceiveIsReset(c, s) \/ ReceiveFails(c, s) \/ SendFails(c, s)
  \/ \E t \in Tasks : NotWritten(t)
  \/ SweepBegins \/ DayPasses \/ \E p \in Peers : HearOf(p)

(* Where there is traffic, by keepalives or requests, each end sends on    *)
(* every connection it serves: watch_queues on one buffer get in turn.     *)
(* What is written to a connection that has failed, fails in the end.      *)
Sends == scenario.traffic /\ \E c \in Conns, s \in Sides : SendFails(c, s)

(* Both event loops and the thread pool run what can run, and timeouts     *)
(* come.  A closed transport is noticed at the other end while the         *)
(* connection holds; that it has failed need not be, unless one sends.     *)
Fairness == WF_vars(Runs) /\ WF_vars(Sends)

Spec == Init /\ [][Next]_vars /\ Fairness

-----------------------------------------------------------------------------

TypeOK ==
  /\ RegistryTypeOK
  /\ pc \in [Conns -> [Sides -> {"none", "waiting", "registering", "serving",
                                 "failed", "leaving", "gone"}]]
  /\ hi \in [Conns -> SUBSET Sides] /\ open \in [Conns -> SUBSET Sides]
  /\ deaf \in [Conns -> SUBSET Sides] /\ broken \subseteq Conns

(* A connection is in its peer's list exactly from its registration to the *)
(* moment its Worker begins to leave, whichever step of the handshake or   *)
(* of the manifest's update has failed; and a Worker that is gone has      *)
(* finished with the registry.                                             *)
RegisteredWhileServed ==
  \A c \in Conns :
    /\ c \in members[Peer[c]] <=>
         pc[c]["here"] \in {"registering", "serving", "failed"}
    /\ pc[c]["here"] = "gone" => stage[c] \in {"out", "removed"} /\ step[c] = "idle"

(* What no end of a connection can notice: it serves on although its       *)
(* receive() has ended by an exception, which closes nothing, or the       *)
(* connection has failed in silence.  Sending would tell, but that         *)
(* succeeds while the connection holds and the other end is open.          *)
Unnoticed(c, s) ==
  /\ pc[c][s] = "serving" /\ s \in open[c]
  /\ s \in deaf[c] \/ c \in broken
  /\ scenario.traffic => ~Ended(c, s)

(* In the end, when the Worker at one end is gone and has closed its       *)
(* transport, the one at the other end is gone too.  Without traffic it    *)
(* stays, registered, where it cannot notice; with traffic it never does.  *)
(* (A raw socket is left open after a failed handshake: there nobody       *)
(* notices, which is why the property speaks of closed transports.)        *)
PeerLetsGo ==
  <>[](\A c \in Conns, s \in Sides :
         pc[c][s] = "gone" /\ s \notin open[c] =>
           pc[c][Other(s)] = "gone" \/ Unnoticed(c, Other(s)))

Serves(c) ==
  c \notin broken /\ deaf[c] = {} /\ \A s \in Sides : pc[c][s] = "serving" /\ s \in open[c]

(* With more attempts than faults, one ends up being served and read at    *)
(* both ends of a connection that holds; except that a client does not     *)
(* dial again while it serves what cannot be noticed, and that after a     *)
(* first connection over TLS no other one comes about.                     *)
Attempts(c) == {d \in scenario.conns : d = c \/ Before[d] = c}
Stuck(c) == pc[c][Client[c]] = "serving" /\ \E s \in Sides : Unnoticed(c, s)

Reconnects ==
  <>[](\A c \in scenario.conns :
         Before[c] = NoConn /\ faults < Cardinality(Attempts(c)) =>
           \E d \in Attempts(c) :
             Serves(d) \/ Stuck(d) \/ (Transport[d] = "tls" /\ faults > 0))
=============================================================================
