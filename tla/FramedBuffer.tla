---------------------------- MODULE FramedBuffer ----------------------------
(***************************************************************************)
(* receptor.messages.framed: FramedMessage turns a message into frames, a  *)
(* connection delivers their bytes in pieces of any size, and a            *)
(* FramedBuffer puts the messages together again.                          *)
(*                                                                         *)
(* A byte is a record that says which message it is of, which part of it,  *)
(* and its place there; the parser only looks at what it could decode.     *)
(* Body bytes are taken to have values above 2, so that the parser never   *)
(* mistakes one for the type of a frame.  Definitions named for a mistake  *)
(* (LatestPiece, KeptHeader, TakesAll) are mutants of the next one.        *)
(***************************************************************************)
EXTENDS Naturals, SequencesExt

CONSTANTS
  FrameSize,    \* Frame.fmt.size, 26
  ChunkSize,    \* bytes a sender hands to the transport at a time, 4096
  MaxPiece,     \* most bytes the transport delivers at a time
  Traffic       \* the sequences of messages a peer may send

ASSUME SizesAssumption == {FrameSize, ChunkSize, MaxPiece} \subseteq Nat \ {0}
ASSUME TrafficAssumption ==
  \A sent \in Traffic : sent \in Seq([id : Nat, header : Nat \ {0}, payload : Nat])

VARIABLES
  sent,         \* the messages of the peer, in the order it began them
  stream,       \* the bytes it writes
  received,     \* how many of them put() has been called with
  rest,         \* those of the running put() that are not consumed
  framebuffer, toRead, bb, header,
  frame,        \* current_frame, <<>> for None
  out,          \* the messages put on self.q
  failed        \* put() raised, and receive() ended with it

parser == <<framebuffer, toRead, bb, header, frame>>
vars == <<sent, stream, received, rest, parser, out, failed>>

(* ------------------------------- the sender ---------------------------- *)

FrameBytes(m, type, length) ==
  [i \in 1 .. FrameSize |-> [of |-> m.id, type |-> type, length |-> length, at |-> i]]
Body(m, part, length) ==
  [i \in 1 .. length |-> [of |-> m.id, part |-> part, at |-> i]]

HeaderBytes(m) == Body(m, "header", m.header)
PayloadBytes(m) == Body(m, "payload", m.payload)

(* FramedMessage.__iter__: an empty payload is none, and a message without *)
(* payload is a single COMMAND frame.                                      *)
Serialized(m) ==
  IF m.payload = 0
  THEN FrameBytes(m, "COMMAND", m.header) \o HeaderBytes(m)
  ELSE (FrameBytes(m, "HEADER", m.header) \o HeaderBytes(m))
         \o (FrameBytes(m, "PAYLOAD", m.payload) \o PayloadBytes(m))

InTurn(s) == FlattenSeq([i \in DOMAIN s |-> Serialized(s[i])])

(* Two drains of one connection: the second message goes out between two   *)
(* chunks of the first.                                                    *)
Interrupted(s) ==
  LET first == Serialized(s[1]) IN
  SubSeq(first, 1, ChunkSize) \o Serialized(s[2])
    \o SubSeq(first, ChunkSize + 1, Len(first))
CanInterrupt(s) == Len(s) = 2 /\ Len(Serialized(s[1])) > ChunkSize

Init ==
  /\ sent \in Traffic
  /\ stream \in {InTurn(sent)}
       \union (IF CanInterrupt(sent) THEN {Interrupted(sent)} ELSE {})
  /\ received = 0 /\ rest = <<>> /\ out = <<>> /\ failed = FALSE
  /\ framebuffer = <<>> /\ toRead = 0 /\ bb = <<>>
  /\ header = <<>> /\ frame = <<>>

(* ------------------------------ FramedBuffer --------------------------- *)

(* receive() awaits put() before it reads the next piece.                  *)
Put(n) ==
  /\ rest = <<>> /\ ~failed
  /\ n <= Len(stream) - received
  /\ rest' = SubSeq(stream, received + 1, received + n)
  /\ received' = received + n
  /\ UNCHANGED <<sent, stream, parser, out, failed>>

(* Frame.from_data decodes FrameSize bytes that begin with a valid type.   *)
IsFrame(bytes) == "type" \in DOMAIN bytes[1] /\ bytes[1].at = 1

LatestPiece == rest
Accumulated == framebuffer \o rest

HandleShort ==
  /\ rest # <<>> /\ ~failed /\ toRead = 0
  /\ Len(Accumulated) < FrameSize
  /\ framebuffer' = Accumulated
  /\ rest' = <<>>
  /\ UNCHANGED <<sent, stream, received, toRead, bb, header, frame, out, failed>>

HandleFrame ==
  LET bytes == Accumulated IN
  /\ rest # <<>> /\ ~failed /\ toRead = 0
  /\ Len(bytes) >= FrameSize
  /\ IF IsFrame(bytes)
     THEN /\ frame' = [type |-> bytes[1].type, of |-> bytes[1].of]
          /\ toRead' = bytes[1].length
          /\ rest' = SubSeq(bytes, FrameSize + 1, Len(bytes))
          /\ framebuffer' = <<>>
          /\ UNCHANGED failed
     ELSE /\ failed' = TRUE
          /\ framebuffer' = bytes
          /\ UNCHANGED <<frame, toRead, rest>>
  /\ UNCHANGED <<sent, stream, received, bb, header, out>>

(* json.load of the buffered bytes succeeds on a whole header.             *)
IsJson(bytes) == \E i \in DOMAIN sent : bytes = HeaderBytes(sent[i])

Delivery(id, h, p) == [msg_id |-> id, header |-> h, payload |-> p]

KeptHeader(h) == h
HeaderAfterPayload(h) == <<>>

(* finish(), by the type of the frame.                                     *)
Finish(bytes) ==
  CASE frame.type \in {"HEADER", "COMMAND"} /\ ~IsJson(bytes) ->
         failed' = TRUE /\ bb' = bytes /\ UNCHANGED <<header, out>>
    [] frame.type = "HEADER" /\ IsJson(bytes) ->
         header' = bytes /\ bb' = <<>> /\ UNCHANGED <<out, failed>>
    [] frame.type = "COMMAND" /\ IsJson(bytes) ->
         /\ out' = Append(out, Delivery(frame.of, bytes, <<>>))
         /\ bb' = <<>> /\ UNCHANGED <<header, failed>>
    [] frame.type = "PAYLOAD" ->
         /\ out' = Append(out, Delivery(frame.of, header, bytes))
         /\ header' = HeaderAfterPayload(header)
         /\ bb' = <<>> /\ UNCHANGED failed

(* How much of the data consume() slices off when n bytes are to be read.  *)
TakesAll(n, available) == available
TakesToRead(n, available) == IF n <= available THEN n ELSE available

Consume ==
  LET n == TakesToRead(toRead, Len(rest))
      bytes == bb \o SubSeq(rest, 1, n) IN
  /\ rest # <<>> /\ ~failed /\ toRead > 0
  /\ toRead' = toRead - n
  /\ rest' = SubSeq(rest, n + 1, Len(rest))
  /\ IF toRead' = 0 THEN Finish(bytes)
                    ELSE bb' = bytes /\ UNCHANGED <<header, out, failed>>
  /\ UNCHANGED <<sent, stream, received, framebuffer, frame>>

Next ==
  \/ \E n \in 1 .. MaxPiece : Put(n)
  \/ HandleShort \/ HandleFrame \/ Consume

Spec == Init /\ [][Next]_vars

-----------------------------------------------------------------------------

(* The parser's registers are well typed, and what it still has to read    *)
(* belongs to a frame it has seen.                                         *)
TypeOK ==
  /\ received \in 0 .. Len(stream)
  /\ toRead \in Nat
  /\ Len(framebuffer) < FrameSize \/ failed
  /\ Len(rest) <= MaxPiece
  /\ toRead > 0 => frame # <<>> /\ framebuffer = <<>>
  /\ toRead = 0 /\ ~failed => bb = <<>>

Contiguous == stream = InTurn(sent)

Handled == received - Len(rest)
Arrived(k) == Len(InTurn(SubSeq(sent, 1, k))) <= Handled
Expected(m) == Delivery(m.id, HeaderBytes(m), PayloadBytes(m))

(* What comes out is what arrived, however the bytes were cut into pieces: *)
(* of a stream that carries one message after another, exactly the         *)
(* messages whose last byte was consumed have been delivered, in order,    *)
(* each once, with its own header and its own payload.                     *)
DeliversWhatArrived ==
  Contiguous =>
    /\ Len(out) <= Len(sent)
    /\ \A k \in DOMAIN out : out[k] = Expected(sent[k])
    /\ \A k \in DOMAIN sent : Arrived(k) <=> k <= Len(out)

(* put() never raises on such a stream, so receive() does not end while    *)
(* the connection stays open.                                              *)
NeverRaises == Contiguous => ~failed

(* Between two messages nothing of the first is left for the second to     *)
(* pick up.                                                                *)
AtBoundary == \E k \in 0 .. Len(sent) :
  Len(InTurn(SubSeq(sent, 1, k))) = Handled
CleanAtBoundary ==
  Contiguous /\ AtBoundary =>
    framebuffer = <<>> /\ toRead = 0 /\ bb = <<>> /\ header = <<>>
=============================================================================
