---------------------------- MODULE MCConnections ----------------------------
EXTENDS Connections

(* r1 and r2, and t1 and t2, are dialled from here, over raw sockets       *)
(* without and with TLS, to p; w1 and w2 are web sockets from p, v one     *)
(* from q.                                                                 *)
CONSTANTS r1, r2, t1, t2, w1, w2, v

ThePeer == [c \in Conns |-> IF c = v THEN "q" ELSE "p"]
TheClient == [c \in Conns |-> IF c \in {w1, w2, v} THEN "there" ELSE "here"]
TheTransport == [c \in Conns |->
  IF c \in {r1, r2} THEN "raw" ELSE IF c \in {t1, t2} THEN "tls" ELSE "ws"]
TheBefore == [c \in Conns |->
  CASE c = r2 -> r1 [] c = t2 -> t1 [] c = w2 -> w1 [] OTHER -> NoConn]

Scenario(conns, f, d, h, w) ==
  [conns |-> conns, traffic |-> FALSE,
   faults |-> f, days |-> d, heard |-> h, sweeps |-> w]
WithTraffic(s) == [s EXCEPT !.traffic = TRUE]

(* One peer that fails and comes again, over each transport, idle or with  *)
(* traffic; two peers, of which p is ephemeral, with a fault, or with a    *)
(* sweep after a day.                                                      *)
TheScenarios ==
  {Scenario({r1, r2}, 1, 0, 0, 0), Scenario({t1, t2}, 1, 0, 0, 0),
   Scenario({w1, w2}, 1, 0, 1, 0), Scenario({w1, v}, 1, 0, 0, 0),
   Scenario({w1, v}, 0, 1, 0, 1), Scenario({v}, 1, 1, 0, 1),
   WithTraffic(Scenario({r1, r2}, 1, 0, 0, 0)),
   WithTraffic(Scenario({w1, w2}, 1, 0, 0, 0))}
=============================================================================
