------------------------------- MODULE MCLink -------------------------------
(* Small instances of Link for TLC.                                        *)
EXTENDS Link, TLC

CONSTANTS m1, m2

(* One payload of two chunks and one of a single chunk.                    *)
OneLong == m1 :> 2 @@ m2 :> 1

(* Both payloads of two chunks: their drains can interleave.               *)
BothLong == m1 :> 2 @@ m2 :> 2
=============================================================================
