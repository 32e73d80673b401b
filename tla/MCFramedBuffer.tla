--------------------------- MODULE MCFramedBuffer ---------------------------
(* Small instances of FramedBuffer for TLC.                                *)
EXTENDS FramedBuffer, TLC

Command(id) == [id |-> id, header |-> 2, payload |-> 0]
Short(id) == [id |-> id, header |-> 1, payload |-> 1]
Long(id) == [id |-> id, header |-> 2, payload |-> 5]

Kinds(id) == {Command(id), Short(id), Long(id)}

(* Every sequence of up to three messages of the three kinds.              *)
UpToThree ==
  {<<a>> : a \in Kinds(1)}
    \union {<<a, b>> : a \in Kinds(1), b \in Kinds(2)}
    \union {<<a, b, c>> : a \in Kinds(1), b \in Kinds(2), c \in Kinds(3)}
=============================================================================
