-------------------------- MODULE MCDurableBuffer ---------------------------
(* DurableBuffer for TLC: the configurations give its constants values.    *)
EXTENDS DurableBuffer, TLC
=============================================================================
