------------------------------ MODULE MCRouter ------------------------------
(* Router for TLC: the configuration gives its constants values.           *)
EXTENDS Router, TLC
=============================================================================
