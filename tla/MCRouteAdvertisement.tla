------------------------ MODULE MCRouteAdvertisement ------------------------
(* Meshes of up to three nodes for RouteAdvertisement.                     *)
EXTENDS RouteAdvertisement

CONSTANTS A, B, C

MCNodes == {A, B, C}

(* A line, where nothing fails: each connection is made once, in any order *)
(* and at any time, and every advertisement crosses at most one relay.     *)
Line == [links |-> {{A, B}, {B, C}}, ups |-> 2, faults |-> 0, sequence |-> 8]

(* One connection, made again after it is lost, with another fault before, *)
(* between or after: a restart, an overtaking, an id that expires.         *)
Pair == [links |-> {{A, B}}, ups |-> 2, faults |-> 2, sequence |-> 9]

(* A cycle, where nothing fails.                                           *)
Triangle ==
  [links |-> {{A, B}, {B, C}, {A, C}}, ups |-> 3, faults |-> 0, sequence |-> 8]

Settling == {Line, Pair}
Cycle == {Triangle}
=============================================================================
