----------------------------- MODULE MCRequests -----------------------------
EXTENDS Requests

(* a and b are linked, and both to r; b serves; m1 comes from a by way of  *)
(* r, m2 from b itself.                                                    *)
CONSTANTS a, r, b, m1, m2

TheFrom == (m1 :> a) @@ (m2 :> b)

TheResponses == (m1 :> 2) @@ (m2 :> 0)

Line == [n \in {a, r, b} |-> [d \in {a, r, b} |->
           IF d = n THEN NoHop ELSE IF n = r THEN d ELSE r]]

(* Two calls of a plugin, or one with a request of another kind.           *)
TheKinds == {(m1 :> k) @@ (m2 :> "work") : k \in KindNames}

NoRoutes == [d \in {a, r, b} |-> NoHop]

(* At first one of the nodes may know no route; later it does.            *)
TheFirstTables == {Line} \union {[Line EXCEPT ![n] = NoRoutes] : n \in {a, r, b}}
TheTables == [n \in {a, r, b} |-> {Line[n]}]
=============================================================================
