--------------------------- MODULE MessageCustody ---------------------------
(***************************************************************************)
(* What a buffer of outbound messages promises, said without queues, files *)
(* or clocks: at every moment a message has one owner, and ownership only  *)
(* moves along the paths below.  A message that is gone never comes back,  *)
(* whatever crash, sweep or failed send made it go.                        *)
(***************************************************************************)

CONSTANTS Messages,     \* the messages that pass through the buffer
          Consumers     \* the connections that take messages from it, none
                        \* of them one of the three other owners below

VARIABLE owner

Producer == "producer"      \* not accepted yet
Buffer == "buffer"          \* stored, waiting for a consumer
Gone == "gone"              \* delivered, expired or lost

Owners == {Producer, Buffer, Gone} \union Consumers

Init == owner = [m \in Messages |-> Producer]

Accept(m) == /\ owner[m] = Producer
             /\ owner' = [owner EXCEPT ![m] = Buffer]

Hand(m, c) == /\ owner[m] = Buffer
              /\ owner' = [owner EXCEPT ![m] = c]

Return(m, c) == /\ owner[m] = c
                /\ owner' = [owner EXCEPT ![m] = Buffer]

(* Any set of messages may go at once: a delivery is the case of one       *)
(* message, a crash the case of everything the process held in memory.     *)
Discard(gone) ==
  owner' = [m \in Messages |-> IF m \in gone THEN Gone ELSE owner[m]]

Next == \/ \E m \in Messages : Accept(m)
        \/ \E m \in Messages, c \in Consumers : Hand(m, c) \/ Return(m, c)
        \/ \E gone \in SUBSET Messages : Discard(gone)

Spec == Init /\ [][Next]_owner
=============================================================================
