------------------------- MODULE FramedBufferProofs -------------------------
(***************************************************************************)
(* Proofs about FramedBuffer, for every size of a frame, of a chunk and of *)
(* a piece, and every finite sequence of messages.                         *)
(*                                                                         *)
(* The model builds the stream with FlattenSeq, which is recursive.  The   *)
(* first part says what it builds (WellOrdering has the induction): where  *)
(* each message, each frame and each body is in the stream.  The second    *)
(* is about one step of the parser on any stream, and ends in type         *)
(* correctness.  The third is the invariant for a stream that carries one  *)
(* message after another: the parser holds a stretch of the frame, or of   *)
(* the body, whose turn it is, and with the second part of a message the   *)
(* header of the same message.                                             *)
(***************************************************************************)
EXTENDS FramedBuffer, TLAPS, WellOrdering, SequenceTheorems

FrameTypes == {"COMMAND", "HEADER", "PAYLOAD"}
FrameByte == [of : Nat, type : FrameTypes, length : Nat, at : Nat]
BodyByte == [of : Nat, part : {"header", "payload"}, at : Nat]
Byte == FrameByte \union BodyByte

Message == [id : Nat, header : Nat \ {0}, payload : Nat]
Size(m) == Len(Serialized(m))

-----------------------------------------------------------------------------

(* A function from an interval that begins with 1 is a sequence.           *)
LEMMA IsASequence ==
  ASSUME NEW S, NEW n \in Nat, NEW f \in [1 .. n -> S]
  PROVE  f \in Seq(S) /\ Len(f) = n
  OBVIOUS

(* The bytes of a frame are as many as its format has.                     *)
LEMMA FrameBytesType ==
  ASSUME NEW m \in Message, NEW type \in FrameTypes, NEW length \in Nat
  PROVE  /\ FrameBytes(m, type, length) \in Seq(Byte)
         /\ Len(FrameBytes(m, type, length)) = FrameSize
<1>1. FrameSize \in Nat /\ m.id \in Nat
  BY SizesAssumption DEF Message
<1>2. FrameBytes(m, type, length) \in [1 .. FrameSize -> Byte]
  BY <1>1 DEF FrameBytes, Byte, FrameByte
<1> QED
  BY <1>1, <1>2, IsASequence

(* Those of a body are as many as its frame says.                          *)
LEMMA BodyType ==
  ASSUME NEW m \in Message, NEW part \in {"header", "payload"}, NEW length \in Nat
  PROVE  Body(m, part, length) \in Seq(Byte) /\ Len(Body(m, part, length)) = length
<1>1. m.id \in Nat
  BY DEF Message
<1>2. Body(m, part, length) \in [1 .. length -> Byte]
  BY <1>1 DEF Body, Byte, BodyByte
<1> QED
  BY <1>2, IsASequence

(* A message is one frame with its body, or two.                           *)
Parts(m) == IF m.payload = 0 THEN {1} ELSE {1, 2}
PartType(m, p) ==
  IF p = 2 THEN "PAYLOAD" ELSE IF m.payload = 0 THEN "COMMAND" ELSE "HEADER"
PartLength(m, p) == IF p = 2 THEN m.payload ELSE m.header
PartBody(m, p) == IF p = 2 THEN PayloadBytes(m) ELSE HeaderBytes(m)
PartStart(m, p) == IF p = 2 THEN FrameSize + m.header ELSE 0
PartBytes(m, p) == FrameBytes(m, PartType(m, p), PartLength(m, p)) \o PartBody(m, p)

(* The bytes of one part: its frame, then its body.                        *)
LEMMA PartTypes ==
  ASSUME NEW m \in Message, NEW p \in {1, 2}
  PROVE  /\ PartType(m, p) \in FrameTypes /\ PartLength(m, p) \in Nat
         /\ PartBody(m, p) \in Seq(Byte) /\ Len(PartBody(m, p)) = PartLength(m, p)
         /\ PartBytes(m, p) \in Seq(Byte)
         /\ Len(PartBytes(m, p)) = FrameSize + PartLength(m, p)
         /\ \A i \in 1 .. FrameSize + PartLength(m, p) :
              PartBytes(m, p)[i] =
                IF i <= FrameSize
                THEN FrameBytes(m, PartType(m, p), PartLength(m, p))[i]
                ELSE PartBody(m, p)[i - FrameSize]
<1>1. PartType(m, p) \in FrameTypes /\ PartLength(m, p) \in Nat
  BY DEF PartType, FrameTypes, PartLength, Message
<1>2. PartBody(m, p) \in Seq(Byte) /\ Len(PartBody(m, p)) = PartLength(m, p)
  <2>1. m.header \in Nat /\ m.payload \in Nat
    BY DEF Message
  <2> QED
    BY <2>1, BodyType DEF PartBody, PartLength, HeaderBytes, PayloadBytes
<1> DEFINE f == FrameBytes(m, PartType(m, p), PartLength(m, p))
<1>3. f \in Seq(Byte) /\ Len(f) = FrameSize
  BY <1>1, FrameBytesType
<1> HIDE DEF f
<1>4. /\ f \o PartBody(m, p) \in Seq(Byte)
      /\ Len(f \o PartBody(m, p)) = Len(f) + Len(PartBody(m, p))
      /\ \A i \in 1 .. Len(f) + Len(PartBody(m, p)) :
           (f \o PartBody(m, p))[i] =
             IF i <= Len(f) THEN f[i] ELSE PartBody(m, p)[i - Len(f)]
  BY <1>2, <1>3, ConcatProperties
<1>5. PartBytes(m, p) = f \o PartBody(m, p)
  BY DEF PartBytes, f
<1> QED
  BY <1>1, <1>2, <1>3, <1>4, <1>5 DEF f

(* FramedMessage.__iter__ in terms of parts.                               *)
LEMMA MessageIsItsParts ==
  ASSUME NEW m \in Message
  PROVE  Serialized(m) = IF m.payload = 0 THEN PartBytes(m, 1)
                                          ELSE PartBytes(m, 1) \o PartBytes(m, 2)
  BY DEF Serialized, PartBytes, PartType, PartLength, PartBody

(* Where the parts of a message are in it.                                 *)
LEMMA SerializedType ==
  ASSUME NEW m \in Message
  PROVE  /\ Serialized(m) \in Seq(Byte) /\ Size(m) \in Nat \ {0}
         /\ \A p \in Parts(m) :
              /\ PartStart(m, p) \in Nat
              /\ PartStart(m, p) + FrameSize + PartLength(m, p) <= Size(m)
              /\ \A i \in 1 .. FrameSize + PartLength(m, p) :
                   Serialized(m)[PartStart(m, p) + i] = PartBytes(m, p)[i]
         /\ Size(m) = IF m.payload = 0 THEN FrameSize + m.header
                      ELSE FrameSize + m.header + FrameSize + m.payload
<1>1. /\ m.header \in Nat \ {0} /\ m.payload \in Nat /\ FrameSize \in Nat \ {0}
      /\ PartLength(m, 1) = m.header /\ PartLength(m, 2) = m.payload
      /\ PartStart(m, 1) = 0 /\ PartStart(m, 2) = FrameSize + m.header
  BY SizesAssumption DEF Message, PartLength, PartStart
<1> DEFINE a == PartBytes(m, 1)
           b == PartBytes(m, 2)
<1>2. /\ a \in Seq(Byte) /\ Len(a) = FrameSize + m.header
      /\ b \in Seq(Byte) /\ Len(b) = FrameSize + m.payload
  BY <1>1, PartTypes
<1> HIDE DEF a, b
<1>3. CASE m.payload = 0
  <2>1. Serialized(m) = a /\ Parts(m) = {1}
    BY <1>3, MessageIsItsParts DEF Parts, a
  <2>2. \A i \in 1 .. FrameSize + m.header : 0 + i = i
    BY <1>1
  <2> QED
    BY <1>1, <1>2, <1>3, <2>1, <2>2 DEF Size, a
<1>4. CASE m.payload # 0
  <2>1. Serialized(m) = a \o b /\ Parts(m) = {1, 2}
    BY <1>4, MessageIsItsParts DEF Parts, a, b
  <2>2. /\ a \o b \in Seq(Byte) /\ Len(a \o b) = Len(a) + Len(b)
        /\ \A i \in 1 .. Len(a) + Len(b) :
             (a \o b)[i] = IF i <= Len(a) THEN a[i] ELSE b[i - Len(a)]
    BY <1>2, ConcatProperties
  <2>3. Len(a) \in Nat /\ Len(b) \in Nat
    BY <1>1, <1>2
  <2>4. ASSUME NEW i \in 1 .. Len(a) PROVE (a \o b)[i] = a[i]
    BY <2>2, <2>3
  <2>5. ASSUME NEW i \in 1 .. Len(b) PROVE (a \o b)[Len(a) + i] = b[i]
    <3>1. Len(a) + i \in 1 .. Len(a) + Len(b) /\ ~(Len(a) + i <= Len(a)) /\ Len(a) + i - Len(a) = i
      BY <2>3
    <3> QED
      BY <2>2, <3>1
  <2>6. Size(m) = FrameSize + m.header + FrameSize + m.payload
    <3>1. Size(m) = (FrameSize + m.header) + (FrameSize + m.payload)
      BY <1>2, <2>1, <2>2 DEF Size
    <3> QED
      BY <1>1, <3>1
  <2>7. Size(m) \in Nat \ {0}
    BY <1>1, <2>6
  <2>8. /\ PartStart(m, 1) \in Nat
        /\ PartStart(m, 1) + FrameSize + PartLength(m, 1) <= Size(m)
        /\ \A i \in 1 .. FrameSize + PartLength(m, 1) :
             Serialized(m)[PartStart(m, 1) + i] = PartBytes(m, 1)[i]
    <3>1. ASSUME NEW i \in 1 .. FrameSize + PartLength(m, 1)
          PROVE  Serialized(m)[PartStart(m, 1) + i] = PartBytes(m, 1)[i]
      <4>1. i \in 1 .. Len(a) /\ PartStart(m, 1) + i = i
        BY <1>1, <1>2
      <4> QED
        BY <2>1, <2>4, <4>1 DEF a
    <3> QED
      BY <1>1, <2>6, <3>1
  <2>9. /\ PartStart(m, 2) \in Nat
        /\ PartStart(m, 2) + FrameSize + PartLength(m, 2) <= Size(m)
        /\ \A i \in 1 .. FrameSize + PartLength(m, 2) :
             Serialized(m)[PartStart(m, 2) + i] = PartBytes(m, 2)[i]
    <3>1. ASSUME NEW i \in 1 .. FrameSize + PartLength(m, 2)
          PROVE  Serialized(m)[PartStart(m, 2) + i] = PartBytes(m, 2)[i]
      <4>1. i \in 1 .. Len(b) /\ PartStart(m, 2) + i = Len(a) + i
        BY <1>1, <1>2
      <4> QED
        BY <2>1, <2>5, <4>1 DEF b
    <3> QED
      BY <1>1, <2>6, <3>1
  <2> QED
    BY <1>4, <2>1, <2>2, <2>6, <2>7, <2>8, <2>9
<1> QED
  BY <1>3, <1>4
-----------------------------------------------------------------------------

(* What FlattenSeq has put together after each of its steps.               *)
Joins(g, qs, S) ==
  /\ g \in [0 .. Len(qs) -> Seq(S)] /\ g[0] = <<>>
  /\ \A k \in 1 .. Len(qs) : g[k] = g[k - 1] \o qs[k]

(* They exist for every sequence of sequences.                             *)
LEMMA JoinsExist ==
  ASSUME NEW S, NEW qs \in Seq(Seq(S))
  PROVE  \E g : Joins(g, qs, S)
<1> DEFINE piece(k) == IF k \in 1 .. Len(qs) THEN qs[k] ELSE <<>>
           step == [k \in Nat |-> [w \in Seq(S) |-> w \o piece(k)]]
<1>1. Len(qs) \in Nat /\ \A k \in 1 .. Len(qs) : qs[k] \in Seq(S)
  BY LenProperties, ElementOfSeq
<1>2. <<>> \in Seq(S)
  BY EmptySeq
<1>3. \A k \in Nat : piece(k) \in Seq(S)
  BY <1>1, <1>2
<1> HIDE DEF piece
<1>4. step \in [Nat -> [Seq(S) -> Seq(S)]]
  <2>1. \A k \in Nat, w \in Seq(S) : w \o piece(k) \in Seq(S)
    BY <1>3, ConcatProperties
  <2> QED
    BY <2>1
<1>5. PICK g : Iterates(g, Seq(S), <<>>, step, Len(qs))
  <2> HIDE DEF step
  <2> QED
    BY <1>1, <1>2, <1>4, Iteration
<1>6. /\ g \in [0 .. Len(qs) -> Seq(S)] /\ g[0] = <<>>
      /\ \A k \in 1 .. Len(qs) : g[k] = step[k][g[k - 1]]
  BY <1>5 DEF Iterates
<1>7. ASSUME NEW k \in 1 .. Len(qs) PROVE g[k] = g[k - 1] \o qs[k]
  <2>1. k \in Nat /\ k - 1 \in 0 .. Len(qs)
    BY <1>1
  <2>2. g[k - 1] \in Seq(S)
    <3> HIDE DEF step
    <3> QED
      BY <1>6, <2>1
  <2>3. step[k] = [w \in Seq(S) |-> w \o piece(k)]
    BY <2>1
  <2>4. piece(k) = qs[k]
    BY DEF piece
  <2> HIDE DEF step
  <2> QED
    BY <1>6, <2>2, <2>3, <2>4
<1> HIDE DEF step
<1> QED
  BY <1>6, <1>7 DEF Joins

(* The last of them is what FlattenSeq returns.                            *)
LEMMA FlattenJoins ==
  ASSUME NEW S, NEW qs \in Seq(Seq(S)), NEW g, Joins(g, qs, S)
  PROVE  FlattenSeq(qs) = g[Len(qs)]
<1> DEFINE F(f) == [i \in 1 .. Len(qs) |-> IF i = 1 THEN qs[i] ELSE f[i - 1] \o qs[i]]
           W == CHOOSE f : f = F(f)
           h == [i \in 1 .. Len(qs) |-> g[i]]
<1>1. Len(qs) \in Nat /\ \A k \in 1 .. Len(qs) : qs[k] \in Seq(S)
  BY LenProperties, ElementOfSeq
<1>2. /\ g[0] = <<>>
      /\ \A k \in 1 .. Len(qs) : g[k] = g[k - 1] \o qs[k]
  BY DEF Joins
<1>3. CASE Len(qs) = 0
  BY <1>2, <1>3, EmptySeq DEF FlattenSeq
<1>4. CASE Len(qs) # 0
  <2>1. ASSUME NEW k \in 1 .. Len(qs), k = 1 PROVE g[k] = qs[k]
    <3>1. g[k] = g[0] \o qs[k]
      <4>1. k - 1 = 0
        BY <2>1
      <4> QED
        BY <1>2, <4>1
    <3>2. qs[k] \in Seq(S)
      BY <1>1
    <3> QED
      BY <1>2, <3>1, <3>2, ConcatEmptySeq
  <2>2. ASSUME NEW i \in 1 .. Len(qs) PROVE h[i] = F(h)[i]
    <3>1. CASE i = 1
      BY <2>1, <3>1
    <3>2. CASE i # 1
      <4>1. i - 1 \in 1 .. Len(qs)
        BY <1>1, <3>2
      <4>2. h[i - 1] = g[i - 1] /\ h[i] = g[i]
        BY <4>1
      <4> QED
        BY <1>2, <3>2, <4>2
    <3> QED
      BY <3>1, <3>2
  <2>3. h = F(h)
    BY <2>2
  <2>4. FlattenSeq(qs) = W[Len(qs)]
    BY <1>4 DEF FlattenSeq
  <2> HIDE DEF F
  <2>5. W = F(W)
    BY <2>3
  <2> HIDE DEF W, h
  <2>6. W[1] = qs[1] /\ \A i \in 1 .. Len(qs) : i # 1 => W[i] = W[i - 1] \o qs[i]
    <3>1. \A i \in 1 .. Len(qs) : W[i] = IF i = 1 THEN qs[i] ELSE W[i - 1] \o qs[i]
      BY <2>5 DEF F
    <3>2. 1 \in 1 .. Len(qs)
      BY <1>1, <1>4
    <3> QED
      BY <3>1, <3>2
  <2> DEFINE T == {n \in 0 .. Len(qs) : n = 0 \/ W[n] = g[n]}
  <2>7. 0 \in T
    BY <1>1
  <2>8. ASSUME NEW n \in 0 .. Len(qs), n \in T, n < Len(qs) PROVE n + 1 \in T
    <3>1. n + 1 \in 1 .. Len(qs) /\ (n + 1) - 1 = n /\ n + 1 \in 0 .. Len(qs) /\ n \in Nat
      <4> HIDE DEF T
      <4> QED
        BY <1>1, <2>8
    <3>2. CASE n = 0
      BY <2>1, <2>6, <3>1, <3>2
    <3>3. CASE n # 0
      <4>1. W[n] = g[n] /\ n + 1 # 1
        BY <2>8, <3>1, <3>3
      <4>2. W[n + 1] = W[n] \o qs[n + 1] /\ g[n + 1] = g[n] \o qs[n + 1]
        BY <1>2, <2>6, <3>1, <4>1
      <4> QED
        BY <3>1, <4>1, <4>2
    <3> QED
      BY <3>2, <3>3
  <2>9. 0 .. Len(qs) \subseteq T
    <3> HIDE DEF T
    <3> QED
      BY <1>1, <2>7, <2>8, AllUpTo
  <2>10. Len(qs) \in T
    BY <1>1, <2>9
  <2> QED
    BY <1>4, <2>4, <2>10
<1> QED
  BY <1>3, <1>4

(* The bytes of the first k messages, for every k.                         *)
PrefixesOf(g, s) ==
  /\ g \in [0 .. Len(s) -> Seq(Byte)] /\ g[0] = <<>>
  /\ \A k \in 1 .. Len(s) : g[k] = g[k - 1] \o Serialized(s[k])

(* The last of these is the stream.                                        *)
LEMMA InTurnJoins ==
  ASSUME NEW s \in Seq(Message), NEW g, PrefixesOf(g, s)
  PROVE  InTurn(s) = g[Len(s)]
<1> DEFINE qs == [i \in DOMAIN s |-> Serialized(s[i])]
<1>1. Len(s) \in Nat /\ DOMAIN s = 1 .. Len(s)
  BY LenProperties
<1>2. \A i \in 1 .. Len(s) : Serialized(s[i]) \in Seq(Byte)
  BY ElementOfSeq, SerializedType
<1>3. qs \in [1 .. Len(s) -> Seq(Byte)]
  BY <1>1, <1>2
<1>4. qs \in Seq(Seq(Byte)) /\ Len(qs) = Len(s)
  <2> HIDE DEF qs
  <2> QED
    BY <1>1, <1>3, IsASequence
<1>5. \A k \in 1 .. Len(s) : qs[k] = Serialized(s[k])
  BY <1>1
<1>6. InTurn(s) = FlattenSeq(qs)
  BY DEF InTurn
<1> HIDE DEF qs
<1>7. Joins(g, qs, Byte)
  BY <1>4, <1>5 DEF Joins, PrefixesOf
<1> QED
  BY <1>4, <1>6, <1>7, FlattenJoins

(* They exist for every sequence of messages.                              *)
LEMMA PrefixesExist ==
  ASSUME NEW s \in Seq(Message)
  PROVE  \E g : PrefixesOf(g, s)
<1> DEFINE qs == [i \in DOMAIN s |-> Serialized(s[i])]
<1>1. Len(s) \in Nat /\ DOMAIN s = 1 .. Len(s)
  BY LenProperties
<1>2. \A i \in 1 .. Len(s) : Serialized(s[i]) \in Seq(Byte)
  BY ElementOfSeq, SerializedType
<1>3. qs \in [1 .. Len(s) -> Seq(Byte)]
  BY <1>1, <1>2
<1>4. qs \in Seq(Seq(Byte)) /\ Len(qs) = Len(s)
  <2> HIDE DEF qs
  <2> QED
    BY <1>1, <1>3, IsASequence
<1>5. \A k \in 1 .. Len(s) : qs[k] = Serialized(s[k])
  BY <1>1
<1> HIDE DEF qs
<1>6. PICK g : Joins(g, qs, Byte)
  BY <1>4, JoinsExist
<1> QED
  BY <1>4, <1>5, <1>6 DEF Joins, PrefixesOf

(* Where message k + 1 begins in the stream.                               *)
Start(s, k) == Len(InTurn(SubSeq(s, 1, k)))

(* Message k + 1 begins where the first k end.                             *)
LEMMA StartIsPrefix ==
  ASSUME NEW s \in Seq(Message), NEW g, PrefixesOf(g, s), NEW k \in 0 .. Len(s)
  PROVE  Start(s, k) = Len(g[k]) /\ (k = Len(s) => InTurn(s) = g[k])
<1>1. Len(s) \in Nat /\ k \in Nat /\ \A i \in 1 .. k : s[i] \in Message
  BY LenProperties, ElementOfSeq
<1> DEFINE t == SubSeq(s, 1, k)
<1>2. t \in Seq(Message) /\ Len(t) = k /\ \A i \in 1 .. k : t[i] = s[i]
  <2>1. 1 \in Int /\ k \in Int
    BY <1>1
  <2>2. /\ t \in Seq(Message) /\ Len(t) = IF 1 <= k THEN k - 1 + 1 ELSE 0
        /\ \A i \in 1 .. k - 1 + 1 : t[i] = s[1 + i - 1]
    BY <1>1, <2>1, SubSeqProperties
  <2> HIDE DEF t
  <2>3. Len(t) = k /\ k - 1 + 1 = k
    BY <1>1, <2>2
  <2>4. ASSUME NEW i \in 1 .. k PROVE t[i] = s[i]
    <3>1. 1 + i - 1 = i
      BY <1>1
    <3> QED
      BY <2>2, <2>3, <3>1
  <2> QED
    BY <2>2, <2>3, <2>4
<1>3. Start(s, k) = Len(InTurn(t))
  BY DEF Start
<1> HIDE DEF t
<1> DEFINE h == [i \in 0 .. k |-> g[i]]
<1>4. /\ g \in [0 .. Len(s) -> Seq(Byte)] /\ g[0] = <<>>
      /\ \A i \in 1 .. Len(s) : g[i] = g[i - 1] \o Serialized(s[i])
  BY DEF PrefixesOf
<1>5. h \in [0 .. k -> Seq(Byte)] /\ h[0] = <<>> /\ h[k] = g[k]
  BY <1>1, <1>4
<1>6. ASSUME NEW i \in 1 .. k PROVE h[i] = h[i - 1] \o Serialized(t[i])
  <2>1. i \in 0 .. k /\ i - 1 \in 0 .. k /\ i \in 1 .. Len(s)
    BY <1>1
  <2> QED
    BY <1>2, <1>4, <2>1
<1> HIDE DEF h
<1>7. PrefixesOf(h, t)
  BY <1>2, <1>5, <1>6 DEF PrefixesOf
<1>8. InTurn(t) = g[k]
  BY <1>2, <1>5, <1>7, InTurnJoins
<1> QED
  BY <1>3, <1>8, InTurnJoins

(* The messages follow one another in the stream, each with its bytes.     *)
LEMMA Layout ==
  ASSUME NEW s \in Seq(Message)
  PROVE  /\ InTurn(s) \in Seq(Byte) /\ Len(InTurn(s)) = Start(s, Len(s))
         /\ Start(s, 0) = 0 /\ \A k \in 0 .. Len(s) : Start(s, k) \in Nat
         /\ \A k \in 1 .. Len(s) :
              /\ Start(s, k) = Start(s, k - 1) + Size(s[k])
              /\ \A i \in 1 .. Size(s[k]) :
                   InTurn(s)[Start(s, k - 1) + i] = Serialized(s[k])[i]
         /\ \A j, k \in 0 .. Len(s) : j < k => Start(s, j) < Start(s, k)
<1>1. PICK g : PrefixesOf(g, s)
  BY PrefixesExist
<1>2. Len(s) \in Nat
  BY LenProperties
<1>3. /\ \A k \in 0 .. Len(s) : g[k] \in Seq(Byte)
      /\ g[0] = <<>>
      /\ \A k \in 1 .. Len(s) : g[k] = g[k - 1] \o Serialized(s[k])
  BY <1>1 DEF PrefixesOf
<1>4. \A k \in 0 .. Len(s) : Start(s, k) = Len(g[k]) /\ Start(s, k) \in Nat
  <2> TAKE k \in 0 .. Len(s)
  <2>1. Start(s, k) = Len(g[k])
    BY <1>1, StartIsPrefix
  <2>2. Len(g[k]) \in Nat
    BY <1>3, LenProperties
  <2> QED
    BY <2>1, <2>2
<1>5. InTurn(s) = g[Len(s)]
  BY <1>1, InTurnJoins
<1>6. \A k \in 1 .. Len(s) :
        Serialized(s[k]) \in Seq(Byte) /\ Size(s[k]) \in Nat \ {0}
  BY ElementOfSeq, SerializedType
<1>7. ASSUME NEW k \in 1 .. Len(s)
      PROVE  /\ Start(s, k) = Start(s, k - 1) + Size(s[k])
             /\ \A i \in 1 .. Start(s, k - 1) : g[k][i] = g[k - 1][i]
             /\ \A i \in 1 .. Size(s[k]) : g[k][Start(s, k - 1) + i] = Serialized(s[k])[i]
  <2>1. k - 1 \in 0 .. Len(s) /\ k \in 0 .. Len(s)
    BY <1>2
  <2>2. PICK x \in Seq(Byte), y \in Seq(Byte) : x = g[k - 1] /\ y = Serialized(s[k])
    BY <1>3, <1>6, <2>1
  <2>3. /\ g[k] = x \o y
        /\ Start(s, k - 1) = Len(x) /\ Size(s[k]) = Len(y) /\ Start(s, k) = Len(g[k])
    BY <1>3, <1>4, <2>1, <2>2 DEF Size
  <2>4. /\ Len(x \o y) = Len(x) + Len(y) /\ Len(x) \in Nat /\ Len(y) \in Nat
        /\ \A i \in 1 .. Len(x) + Len(y) :
             (x \o y)[i] = IF i <= Len(x) THEN x[i] ELSE y[i - Len(x)]
    BY ConcatProperties, LenProperties
  <2>5. ASSUME NEW i \in 1 .. Len(x) PROVE (x \o y)[i] = x[i]
    BY <2>4
  <2>6. ASSUME NEW i \in 1 .. Len(y) PROVE (x \o y)[Len(x) + i] = y[i]
    <3>1. /\ Len(x) + i \in 1 .. Len(x) + Len(y) /\ ~(Len(x) + i <= Len(x))
          /\ Len(x) + i - Len(x) = i
      BY <2>4
    <3> QED
      BY <2>4, <3>1
  <2> QED
    BY <2>2, <2>3, <2>4, <2>5, <2>6
<1> DEFINE There(n, k) ==
             /\ Start(s, k) <= Start(s, n)
             /\ \A i \in 1 .. Size(s[k]) : g[n][Start(s, k - 1) + i] = Serialized(s[k])[i]
           T == {n \in 0 .. Len(s) : \A k \in 1 .. Len(s) : k <= n => There(n, k)}
<1>8. 0 \in T
  BY <1>2
<1>9. ASSUME NEW n \in 0 .. Len(s), n \in T, n < Len(s) PROVE n + 1 \in T
  <2>1. n + 1 \in 1 .. Len(s) /\ n + 1 \in 0 .. Len(s) /\ (n + 1) - 1 = n /\ n \in Nat
    <3> HIDE DEF T
    <3> QED
      BY <1>2, <1>9
  <2>2. /\ Start(s, n + 1) = Start(s, n) + Size(s[n + 1])
        /\ \A i \in 1 .. Start(s, n) : g[n + 1][i] = g[n][i]
        /\ \A i \in 1 .. Size(s[n + 1]) :
             g[n + 1][Start(s, n) + i] = Serialized(s[n + 1])[i]
    BY <1>7, <2>1
  <2>3. ASSUME NEW k \in 1 .. Len(s), k <= n + 1 PROVE There(n + 1, k)
    <3>1. k - 1 \in 0 .. Len(s) /\ k \in 0 .. Len(s) /\ k \in Nat
      BY <1>2
    <3>2. /\ Start(s, k - 1) \in Nat /\ Start(s, k) \in Nat
          /\ Start(s, n) \in Nat /\ Start(s, n + 1) \in Nat
          /\ Size(s[k]) \in Nat /\ Size(s[n + 1]) \in Nat
          /\ Start(s, k) = Start(s, k - 1) + Size(s[k])
      BY <1>4, <1>6, <1>7, <2>1, <3>1
    <3>3. CASE k = n + 1
      BY <2>1, <2>2, <3>2, <3>3
    <3>4. CASE k # n + 1
      <4>1. There(n, k)
        BY <1>9, <2>1, <2>3, <3>1, <3>4
      <4>2. ASSUME NEW i \in 1 .. Size(s[k])
            PROVE  g[n + 1][Start(s, k - 1) + i] = g[n][Start(s, k - 1) + i]
        <5>1. Start(s, k - 1) + i \in 1 .. Start(s, n)
          <6>1. Start(s, k) <= Start(s, n)
            BY <4>1
          <6> QED
            <7>1. i \in Nat /\ 1 <= i /\ i <= Size(s[k])
              BY <3>2
            <7>2. \A a, b, c, d, x \in Nat :
                    c = a + b /\ c <= d /\ 1 <= x /\ x <= b => a + x \in 1 .. d
              OBVIOUS
            <7> QED
              BY ONLY <3>2, <6>1, <7>1, <7>2
        <5> QED
          BY <2>2, <5>1
      <4>3. Start(s, k) <= Start(s, n + 1)
        BY <2>2, <3>2, <4>1
      <4> QED
        BY <4>1, <4>2, <4>3
    <3> QED
      BY <3>3, <3>4
  <2> QED
    BY <2>1, <2>3
<1>10. 0 .. Len(s) \subseteq T
  <2> HIDE DEF T
  <2> QED
    BY <1>2, <1>8, <1>9, AllUpTo
<1>11. \A n \in 0 .. Len(s) : \A k \in 1 .. Len(s) : k <= n => There(n, k)
  BY <1>10
<1>12. ASSUME NEW j \in 0 .. Len(s), NEW k \in 0 .. Len(s), j < k
       PROVE  Start(s, j) < Start(s, k)
  <2>1. j + 1 \in 1 .. Len(s) /\ j + 1 \in 0 .. Len(s) /\ j + 1 <= k /\ (j + 1) - 1 = j
    BY <1>2, <1>12
  <2>2. Start(s, j + 1) <= Start(s, k)
    BY <1>11, <2>1
  <2>3. Start(s, j + 1) = Start(s, j) + Size(s[j + 1]) /\ Size(s[j + 1]) \in Nat \ {0}
    BY <1>6, <1>7, <2>1
  <2>4. Start(s, j) \in Nat /\ Start(s, j + 1) \in Nat /\ Start(s, k) \in Nat
    BY <1>4, <2>1
  <2> QED
    BY <2>2, <2>3, <2>4
<1>13. Start(s, 0) = 0
  <2>1. 0 \in 0 .. Len(s)
    BY <1>2
  <2> QED
    BY <1>3, <1>4, <2>1, EmptySeq
<1>14. Len(s) \in 0 .. Len(s)
  BY <1>2
<1>15. ASSUME NEW k \in 1 .. Len(s) PROVE There(Len(s), k)
  BY <1>2, <1>11, <1>14
<1> QED
  BY <1>3, <1>4, <1>5, <1>7, <1>12, <1>13, <1>14, <1>15

(* The frame, and the body, of part p of m in the bytes st.                *)
FrameIsAt(st, base, m, p) ==
  \A i \in 1 .. FrameSize :
    st[base + i] = FrameBytes(m, PartType(m, p), PartLength(m, p))[i]
BodyIsAt(st, base, m, p) ==
  \A i \in 1 .. PartLength(m, p) : st[base + FrameSize + i] = PartBody(m, p)[i]

(* Where message k + 1 of the stream has its parts.                        *)
LEMMA PartLayout ==
  ASSUME NEW s \in Seq(Message), NEW k \in 0 .. Len(s), k < Len(s),
         NEW m, m = s[k + 1], NEW p \in Parts(m),
         NEW base, base = Start(s, k) + PartStart(m, p)
  PROVE  /\ m \in Message /\ base \in Nat /\ PartLength(m, p) \in Nat \ {0} /\ p \in {1, 2}
         /\ base + FrameSize + PartLength(m, p) <= Start(s, k + 1)
         /\ base + FrameSize + PartLength(m, p) <= Len(InTurn(s))
         /\ base + FrameSize + PartLength(m, p) =
              IF p = 1 /\ m.payload # 0 THEN Start(s, k) + PartStart(m, 2) ELSE Start(s, k + 1)
         /\ FrameIsAt(InTurn(s), base, m, p) /\ BodyIsAt(InTurn(s), base, m, p)
<1>1. /\ Len(s) \in Nat /\ k \in Nat /\ k + 1 \in 1 .. Len(s) /\ k + 1 \in 0 .. Len(s)
      /\ (k + 1) - 1 = k
  BY LenProperties
<1>2. m \in Message
  BY <1>1, ElementOfSeq
<1>3. /\ m.header \in Nat \ {0} /\ m.payload \in Nat /\ FrameSize \in Nat \ {0}
      /\ p \in {1, 2} /\ (p = 2 => m.payload # 0)
  <2>1. m.header \in Nat \ {0} /\ m.payload \in Nat
    BY <1>2 DEF Message
  <2>2. FrameSize \in Nat \ {0}
    BY SizesAssumption
  <2>3. p \in {1, 2} /\ (p = 2 => m.payload # 0)
    BY DEF Parts
  <2> QED
    BY ONLY <2>1, <2>2, <2>3
<1>4. PartLength(m, p) \in Nat \ {0}
  BY <1>3 DEF PartLength
<1>5. /\ PartStart(m, p) \in Nat /\ Size(m) \in Nat \ {0}
      /\ PartStart(m, p) + FrameSize + PartLength(m, p) <= Size(m)
      /\ \A i \in 1 .. FrameSize + PartLength(m, p) :
           Serialized(m)[PartStart(m, p) + i] = PartBytes(m, p)[i]
  BY <1>2, SerializedType
<1>6. Size(m) = IF m.payload = 0 THEN FrameSize + m.header
                ELSE FrameSize + m.header + FrameSize + m.payload
  BY <1>2, SerializedType
<1>7. /\ Start(s, k) \in Nat /\ Start(s, k + 1) \in Nat
      /\ Start(s, k + 1) = Start(s, k) + Size(m)
      /\ \A i \in 1 .. Size(m) : InTurn(s)[Start(s, k) + i] = Serialized(m)[i]
  BY <1>1, Layout
<1>8. /\ Start(s, k) \in Nat /\ PartStart(m, p) \in Nat /\ PartLength(m, p) \in Nat
       /\ FrameSize \in Nat /\ Size(m) \in Nat
  BY <1>3, <1>4, <1>5, <1>7
<1>9. base = Start(s, k) + PartStart(m, p) /\ base \in Nat
  BY <1>8
<1>10. base + FrameSize + PartLength(m, p)
         = Start(s, k) + (PartStart(m, p) + FrameSize + PartLength(m, p))
  BY ONLY <1>8, <1>9
<1>11. Start(s, k + 1) <= Len(InTurn(s)) /\ Len(InTurn(s)) \in Nat
  <2>1. Len(s) \in 0 .. Len(s) /\ Start(s, Len(s)) \in Nat /\ Len(InTurn(s)) = Start(s, Len(s))
    BY <1>1, Layout
  <2>2. k + 1 < Len(s) => Start(s, k + 1) < Start(s, Len(s))
    BY <1>1, <2>1, Layout
  <2>3. k + 1 < Len(s) \/ k + 1 = Len(s)
    BY <1>1
  <2> QED
    BY <1>7, <2>1, <2>2, <2>3
<1>12. ASSUME NEW i \in 1 .. FrameSize + PartLength(m, p)
      PROVE  InTurn(s)[base + i] = PartBytes(m, p)[i]
  <2>1. i \in Nat /\ 1 <= i /\ i <= FrameSize + PartLength(m, p)
    BY <1>8
  <2>2. PartStart(m, p) + i \in 1 .. Size(m)
    <3>1. PartStart(m, p) + FrameSize + PartLength(m, p) <= Size(m)
      BY <1>5
    <3> QED
      BY ONLY <1>8, <2>1, <3>1
  <2>3. base + i = Start(s, k) + (PartStart(m, p) + i)
    BY ONLY <1>8, <1>9, <2>1
  <2> QED
    BY <1>5, <1>7, <2>2, <2>3
<1>13. \A i \in 1 .. FrameSize + PartLength(m, p) :
         PartBytes(m, p)[i] =
           IF i <= FrameSize
           THEN FrameBytes(m, PartType(m, p), PartLength(m, p))[i]
           ELSE PartBody(m, p)[i - FrameSize]
  BY <1>2, <1>3, PartTypes
<1>14. ASSUME NEW i \in 1 .. FrameSize
       PROVE  InTurn(s)[base + i] = FrameBytes(m, PartType(m, p), PartLength(m, p))[i]
  <2>1. i \in 1 .. FrameSize + PartLength(m, p) /\ i <= FrameSize
    BY <1>3, <1>4
  <2> QED
    BY <1>12, <1>13, <2>1
<1>15. ASSUME NEW i \in 1 .. PartLength(m, p)
       PROVE  InTurn(s)[base + FrameSize + i] = PartBody(m, p)[i]
  <2>1. /\ FrameSize + i \in 1 .. FrameSize + PartLength(m, p) /\ ~(FrameSize + i <= FrameSize)
        /\ (FrameSize + i) - FrameSize = i
        /\ base + FrameSize + i = base + (FrameSize + i)
    <3>1. i \in Nat /\ 1 <= i /\ i <= PartLength(m, p) /\ base \in Nat
      BY <1>8, <1>9
    <3> QED
      BY ONLY <1>8, <3>1
  <2> QED
    BY <1>12, <1>13, <2>1
<1>16. base + FrameSize + PartLength(m, p) =
         IF p = 1 /\ m.payload # 0 THEN Start(s, k) + PartStart(m, 2) ELSE Start(s, k + 1)
  <2>1. PartStart(m, p) + FrameSize + PartLength(m, p) =
          IF p = 1 /\ m.payload # 0 THEN PartStart(m, 2) ELSE Size(m)
    BY <1>3, <1>6 DEF PartStart, PartLength
  <2> QED
    BY <1>7, <1>10, <2>1
<1>17. /\ base + FrameSize + PartLength(m, p) <= Start(s, k + 1)
       /\ base + FrameSize + PartLength(m, p) <= Len(InTurn(s))
  <2>1. \A x, y, z \in Nat : y <= z => x + y <= x + z
    OBVIOUS
  <2>2. PartStart(m, p) + FrameSize + PartLength(m, p) \in Nat
    BY <1>8
  <2>3. base + FrameSize + PartLength(m, p) <= Start(s, k + 1)
    <3>1. PartStart(m, p) + FrameSize + PartLength(m, p) <= Size(m)
      BY <1>5
    <3>2. Start(s, k + 1) = Start(s, k) + Size(m)
      BY <1>7
    <3> QED
      BY ONLY <1>8, <1>10, <2>1, <2>2, <3>1, <3>2
  <2>4. base + FrameSize + PartLength(m, p) \in Nat
    BY ONLY <1>8, <1>9
  <2> QED
    BY <1>7, <1>11, <2>3, <2>4
<1>18. FrameIsAt(InTurn(s), base, m, p) /\ BodyIsAt(InTurn(s), base, m, p)
  BY <1>14, <1>15 DEF FrameIsAt, BodyIsAt
<1> QED
  BY <1>2, <1>3, <1>4, <1>9, <1>16, <1>17, <1>18
-----------------------------------------------------------------------------

(* Slices and concatenations, by their elements.                           *)
LEMMA Slice ==
  ASSUME NEW S, NEW s \in Seq(S), NEW a \in Nat, NEW n \in Nat, a + n <= Len(s)
  PROVE  /\ SubSeq(s, a + 1, a + n) \in Seq(S) /\ Len(SubSeq(s, a + 1, a + n)) = n
         /\ \A i \in 1 .. n : SubSeq(s, a + 1, a + n)[i] = s[a + i]
<1> DEFINE t == SubSeq(s, a + 1, a + n)
<1>1. Len(s) \in Nat /\ \A i \in 1 .. Len(s) : s[i] \in S
  BY LenProperties, ElementOfSeq
<1>2. a + 1 \in Int /\ a + n \in Int /\ \A i \in a + 1 .. a + n : s[i] \in S
  BY <1>1
<1>3. /\ t \in Seq(S) /\ Len(t) = IF a + 1 <= a + n THEN a + n - (a + 1) + 1 ELSE 0
      /\ \A i \in 1 .. a + n - (a + 1) + 1 : t[i] = s[a + 1 + i - 1]
  BY <1>2, SubSeqProperties
<1> HIDE DEF t
<1>4. Len(t) = n /\ a + n - (a + 1) + 1 = n
  BY <1>3
<1>5. ASSUME NEW i \in 1 .. n PROVE t[i] = s[a + i]
  <2>1. a + 1 + i - 1 = a + i
    OBVIOUS
  <2> QED
    BY <1>3, <1>4, <2>1
<1>6. t \in Seq(S) /\ Len(t) = n /\ \A i \in 1 .. n : t[i] = s[a + i]
  BY <1>3, <1>4, <1>5
<1> QED
  BY <1>6 DEF t

(* A concatenation, by the elements of its two parts.                      *)
LEMMA Joined ==
  ASSUME NEW S, NEW x \in Seq(S), NEW y \in Seq(S)
  PROVE  /\ x \o y \in Seq(S) /\ Len(x \o y) = Len(x) + Len(y)
         /\ Len(x) \in Nat /\ Len(y) \in Nat
         /\ \A i \in 1 .. Len(x) : (x \o y)[i] = x[i]
         /\ \A i \in 1 .. Len(y) : (x \o y)[Len(x) + i] = y[i]
<1>1. /\ x \o y \in Seq(S) /\ Len(x \o y) = Len(x) + Len(y)
      /\ Len(x) \in Nat /\ Len(y) \in Nat
      /\ \A i \in 1 .. Len(x) + Len(y) :
           (x \o y)[i] = IF i <= Len(x) THEN x[i] ELSE y[i - Len(x)]
  BY ConcatProperties, LenProperties
<1>2. ASSUME NEW i \in 1 .. Len(x) PROVE (x \o y)[i] = x[i]
  BY <1>1
<1>3. ASSUME NEW i \in 1 .. Len(y) PROVE (x \o y)[Len(x) + i] = y[i]
  <2>1. /\ Len(x) + i \in 1 .. Len(x) + Len(y) /\ ~(Len(x) + i <= Len(x))
        /\ Len(x) + i - Len(x) = i
    BY <1>1
  <2> QED
    BY <1>1, <2>1
<1> QED
  BY <1>1, <1>2, <1>3

(* Two sequences with the same elements are the same.                      *)
LEMMA SameElements ==
  ASSUME NEW S, NEW x \in Seq(S), NEW y \in Seq(S), Len(x) = Len(y),
         \A i \in 1 .. Len(x) : x[i] = y[i]
  PROVE  x = y
<1>1. x \in [1 .. Len(x) -> S] /\ y \in [1 .. Len(x) -> S]
  BY LenProperties
<1> QED
  BY <1>1
(* ------------------------ the inductive invariant ---------------------- *)

(* piece is the end of what was received.                                  *)
IsTheLast(piece) ==
  \A i \in 1 .. Len(piece) : piece[i] = stream[received - Len(piece) + i]

(* The registers of the parser and the piece it works on, whatever the     *)
(* stream carries.                                                         *)
Registers ==
  /\ sent \in Seq(Message) /\ stream \in Seq(Byte)
  /\ received \in 0 .. Len(stream)
  /\ rest \in Seq(Byte) /\ Len(rest) <= MaxPiece /\ Len(rest) <= received
  /\ IsTheLast(rest)
  /\ framebuffer \in Seq(Byte) /\ bb \in Seq(Byte)
  /\ toRead \in Nat /\ failed \in BOOLEAN
  /\ Len(framebuffer) < FrameSize \/ failed
  /\ toRead > 0 => framebuffer = <<>> /\ frame \in [type : FrameTypes, of : Nat]
  /\ toRead = 0 /\ ~failed => bb = <<>>

(* The parser has a part of a frame that begins at base.                   *)
InFrame(base) ==
  /\ toRead = 0 /\ Handled = base + Len(framebuffer)
  /\ \A i \in 1 .. Len(framebuffer) : framebuffer[i] = stream[base + i]

(* It has a part of the body of the frame that begins at base.             *)
InBody(base, m, p) ==
  /\ toRead > 0 /\ Handled = base + FrameSize + Len(bb)
  /\ Len(bb) + toRead = PartLength(m, p)
  /\ frame = [type |-> PartType(m, p), of |-> m.id]
  /\ \A i \in 1 .. Len(bb) : bb[i] = PartBody(m, p)[i]

Held(m, p) == IF p = 2 THEN HeaderBytes(m) ELSE <<>>

(* It is in part p of message k + 1, with that message's header if it is   *)
(* the second part.                                                        *)
InPart(k, p) ==
  LET m == sent[k + 1]
      base == Start(sent, k) + PartStart(m, p) IN
  header = Held(m, p) /\ (InFrame(base) \/ InBody(base, m, p))

Deliveries == [msg_id : Nat, header : Seq(Byte), payload : Seq(Byte)]

(* It has delivered the first k messages, and is after them.               *)
After(k) ==
  /\ k \in 0 .. Len(sent)
  /\ out \in Seq(Deliveries) /\ Len(out) = k
  /\ \A i \in 1 .. k : out[i] = Expected(sent[i])
  /\ \/ k = Len(sent) /\ header = <<>> /\ InFrame(Start(sent, k))
     \/ k < Len(sent) /\ \E p \in Parts(sent[k + 1]) : InPart(k, p)

Parsing == ~failed /\ \E k \in 0 .. Len(sent) : After(k)

Inv == Registers /\ (Contiguous => Parsing)

(* What is left of a piece after its first n bytes.                        *)
LEMMA Consumed ==
  ASSUME Registers, NEW n \in 0 .. Len(rest), NEW q, q = SubSeq(rest, n + 1, Len(rest))
  PROVE  /\ q \in Seq(Byte) /\ Len(q) = Len(rest) - n
         /\ received - Len(q) = Handled + n
         /\ IsTheLast(q)
<1>1. /\ rest \in Seq(Byte) /\ Len(rest) \in Nat /\ n \in Nat /\ n <= Len(rest)
      /\ received \in Nat /\ Len(rest) <= received
      /\ \A i \in 1 .. Len(rest) : rest[i] = stream[Handled + i]
  BY LenProperties DEF Registers, IsTheLast, Handled
<1>2. PICK l \in Nat : Len(rest) = n + l
  <2>1. Len(rest) - n \in Nat /\ Len(rest) = n + (Len(rest) - n)
    BY <1>1
  <2> QED
    BY <2>1
<1>3. q = SubSeq(rest, n + 1, n + l)
  BY <1>2
<1>4. q \in Seq(Byte) /\ Len(q) = l /\ \A i \in 1 .. l : q[i] = rest[n + i]
  <2>1. rest \in Seq(Byte) /\ n \in Nat /\ l \in Nat /\ n + l <= Len(rest)
    BY <1>1, <1>2
  <2>2. /\ SubSeq(rest, n + 1, n + l) \in Seq(Byte) /\ Len(SubSeq(rest, n + 1, n + l)) = l
        /\ \A i \in 1 .. l : SubSeq(rest, n + 1, n + l)[i] = rest[n + i]
    BY ONLY <2>1, Slice, Zenon
  <2> QED
    BY ONLY <1>3, <2>2
<1>5. Len(q) = Len(rest) - n /\ received - Len(q) = Handled + n /\ Handled \in Nat
  <2>1. Len(q) = l
    BY <1>4
  <2>2. Len(q) = Len(rest) - n
    BY ONLY <1>1, <1>2, <2>1
  <2> QED
    BY ONLY <1>1, <1>2, <2>1, <2>2 DEF Handled
<1>6. ASSUME NEW i \in 1 .. Len(q) PROVE q[i] = stream[received - Len(q) + i]
  <2>1. n + i \in 1 .. Len(rest)
    BY <1>1, <1>2, <1>4
  <2>2. Handled + (n + i) = (Handled + n) + i
    <3>1. i \in Nat /\ Handled \in Nat /\ n \in Nat
      BY <1>1, <1>4, <1>5
    <3> QED
      BY ONLY <3>1
  <2>3. q[i] = rest[n + i]
    BY <1>4
  <2> QED
    BY <1>1, <1>5, <2>1, <2>2, <2>3
<1> QED
  BY <1>4, <1>5, <1>6 DEF IsTheLast

(* The same for a step that leaves that of the piece in hand.              *)
LEMMA RestOfPiece ==
  ASSUME Registers, NEW n \in 0 .. Len(rest), rest' = SubSeq(rest, n + 1, Len(rest)),
         received' = received, stream' = stream
  PROVE  /\ rest' \in Seq(Byte) /\ Len(rest') = Len(rest) - n
         /\ Handled' = Handled + n /\ IsTheLast(rest)'
<1>1. PICK q : q = SubSeq(rest, n + 1, Len(rest))
  OBVIOUS
<1>2. /\ q \in Seq(Byte) /\ Len(q) = Len(rest) - n
      /\ received - Len(q) = Handled + n
      /\ IsTheLast(q)
  BY <1>1, Consumed
<1>3. rest' = q
  BY <1>1
<1>4. IsTheLast(rest)'
  BY <1>2, <1>3 DEF IsTheLast
<1> QED
  BY <1>2, <1>3, <1>4 DEF Handled

(* receive() calls put() with what comes next in the stream.               *)
LEMMA PutFacts ==
  ASSUME Registers, NEW n \in 1 .. MaxPiece, Put(n)
  PROVE  Registers' /\ Handled' = Handled /\ framebuffer' = framebuffer /\ bb' = bb
<1>1. /\ received \in Nat /\ n \in Nat /\ n <= MaxPiece /\ Len(stream) \in Nat
      /\ stream \in Seq(Byte) /\ n <= Len(stream) - received /\ received' = received + n
  BY LenProperties, SizesAssumption DEF Registers, Put
<1>2. /\ rest' = SubSeq(stream, received + 1, received + n)
      /\ UNCHANGED <<sent, stream, parser, out, failed>>
  BY DEF Put
<1>3. received + n <= Len(stream) /\ received' \in 0 .. Len(stream) /\ n <= received'
  BY <1>1
<1>4. /\ rest' \in Seq(Byte) /\ Len(rest') = n
      /\ \A i \in 1 .. n : rest'[i] = stream[received + i]
  <2>1. PICK q : q = SubSeq(stream, received + 1, received + n)
    OBVIOUS
  <2>2. q \in Seq(Byte) /\ Len(q) = n /\ \A i \in 1 .. n : q[i] = stream[received + i]
    BY <1>1, <1>3, <2>1, Slice
  <2>3. rest' = q
    BY <1>2, <2>1
  <2> QED
    BY <2>2, <2>3
<1>5. Len(rest) = 0
  BY EmptySeq DEF Put
<1>6. Handled = received /\ Handled' = received
  BY <1>1, <1>4, <1>5 DEF Handled
<1>7. IsTheLast(rest)'
  <2>1. received' - Len(rest') = received
    BY <1>1, <1>4
  <2> QED
    BY <1>2, <1>4, <2>1 DEF IsTheLast
<1>8. sent' = sent /\ stream' = stream /\ framebuffer' = framebuffer /\ bb' = bb
      /\ toRead' = toRead /\ failed' = failed /\ frame' = frame
  BY <1>2 DEF parser
<1> QED
  BY <1>1, <1>3, <1>4, <1>6, <1>7, <1>8 DEF Registers

(* The bytes before those of the piece that the parser has put by.         *)
LEMMA AccumulatedFacts ==
  ASSUME Registers
  PROVE  /\ Accumulated \in Seq(Byte) /\ Len(Accumulated) = Len(framebuffer) + Len(rest)
         /\ Len(framebuffer) \in Nat /\ Len(rest) \in Nat
         /\ \A i \in 1 .. Len(framebuffer) : Accumulated[i] = framebuffer[i]
         /\ \A i \in 1 .. Len(rest) : Accumulated[Len(framebuffer) + i] = stream[Handled + i]
<1>1. framebuffer \in Seq(Byte) /\ rest \in Seq(Byte)
  BY DEF Registers
<1>2. /\ Accumulated \in Seq(Byte) /\ Len(Accumulated) = Len(framebuffer) + Len(rest)
      /\ Len(framebuffer) \in Nat /\ Len(rest) \in Nat
      /\ \A i \in 1 .. Len(framebuffer) : Accumulated[i] = framebuffer[i]
      /\ \A i \in 1 .. Len(rest) : Accumulated[Len(framebuffer) + i] = rest[i]
  BY <1>1, Joined DEF Accumulated
<1>3. \A i \in 1 .. Len(rest) : rest[i] = stream[Handled + i]
  BY DEF Registers, IsTheLast, Handled
<1> QED
  BY <1>2, <1>3

(* handle_frame() with too few bytes for a frame puts them all by.         *)
LEMMA ShortFacts ==
  ASSUME Registers, HandleShort
  PROVE  /\ Registers' /\ Handled' = Handled + Len(rest)
         /\ framebuffer' = Accumulated
<1>1. /\ framebuffer' = Accumulated /\ rest' = <<>> /\ toRead = 0 /\ ~failed
      /\ Len(Accumulated) < FrameSize
      /\ sent' = sent /\ stream' = stream /\ received' = received /\ toRead' = toRead
      /\ bb' = bb /\ frame' = frame /\ failed' = failed
  BY DEF HandleShort
<1>2. received \in Nat /\ Len(rest) \in Nat /\ Len(rest) <= received
  BY LenProperties DEF Registers
<1>3. rest' \in Seq(Byte) /\ Len(rest') = 0
  BY <1>1, EmptySeq
<1>4. Handled' = Handled + Len(rest)
  BY <1>1, <1>2, <1>3 DEF Handled
<1>5. Accumulated \in Seq(Byte)
  BY AccumulatedFacts
<1>6. IsTheLast(rest)'
  BY <1>3 DEF IsTheLast
<1>7. Len(rest') <= MaxPiece /\ Len(rest') <= received'
  BY <1>1, <1>2, <1>3, SizesAssumption
<1> QED
  BY <1>1, <1>3, <1>4, <1>5, <1>6, <1>7 DEF Registers

(* With enough of them it takes exactly FrameSize, if they decode.         *)
LEMMA FrameFacts ==
  ASSUME Registers, HandleFrame
  PROVE  /\ Registers'
         /\ IsFrame(Accumulated) => Handled' + Len(framebuffer) = Handled + FrameSize
<1>1. /\ Len(Accumulated) >= FrameSize /\ toRead = 0 /\ ~failed
      /\ sent' = sent /\ stream' = stream /\ received' = received
      /\ bb' = bb /\ header' = header /\ out' = out
  BY DEF HandleFrame
<1>2. /\ framebuffer \in Seq(Byte) /\ rest \in Seq(Byte) /\ bb = <<>>
      /\ received \in Nat /\ Len(rest) \in Nat /\ Len(rest) <= received
      /\ Len(framebuffer) < FrameSize /\ Len(framebuffer) \in Nat
      /\ FrameSize \in Nat /\ MaxPiece \in Nat /\ Len(rest) <= MaxPiece
  BY <1>1, LenProperties, SizesAssumption DEF Registers
<1>3. /\ Accumulated \in Seq(Byte) /\ Len(Accumulated) = Len(framebuffer) + Len(rest)
      /\ \A i \in 1 .. Len(rest) : Accumulated[Len(framebuffer) + i] = rest[i]
  BY <1>2, Joined DEF Accumulated
<1>4. PICK n \in Nat : n = FrameSize - Len(framebuffer)
  BY <1>2
<1>5. n \in 0 .. Len(rest) /\ n >= 1 /\ Len(framebuffer) + n = FrameSize
  BY <1>1, <1>2, <1>3, <1>4
<1>6. CASE IsFrame(Accumulated)
  <2>1. /\ frame' = [type |-> Accumulated[1].type, of |-> Accumulated[1].of]
        /\ toRead' = Accumulated[1].length /\ framebuffer' = <<>> /\ failed' = failed
        /\ rest' = SubSeq(Accumulated, FrameSize + 1, Len(Accumulated))
    BY <1>6 DEF HandleFrame
  <2>2. Accumulated[1] \in FrameByte
    <3>1. 1 \in 1 .. Len(Accumulated)
      BY <1>1, <1>2, <1>3
    <3>2. Accumulated[1] \in Byte /\ "type" \in DOMAIN Accumulated[1]
      BY <1>3, <1>6, <3>1, ElementOfSeq DEF IsFrame
    <3> QED
      BY <3>2 DEF Byte, BodyByte
  <2>3. toRead' \in Nat /\ frame' \in [type : FrameTypes, of : Nat]
    BY <2>1, <2>2 DEF FrameByte
  <2>4. rest' = SubSeq(rest, n + 1, Len(rest))
    <3>1. PICK l \in Nat : Len(rest) = n + l
      <4>1. Len(rest) - n \in Nat /\ Len(rest) = n + (Len(rest) - n)
        BY <1>2, <1>5
      <4> QED
        BY <4>1
    <3>2. Len(Accumulated) = FrameSize + l
      <4>1. /\ Len(Accumulated) = Len(framebuffer) + Len(rest) /\ Len(rest) = n + l
            /\ Len(framebuffer) + n = FrameSize /\ Len(framebuffer) \in Nat /\ l \in Nat
            /\ n \in Nat
        BY <1>2, <1>3, <1>4, <1>5, <3>1
      <4>2. \A a, b, c \in Nat : a + (b + c) = (a + b) + c
        OBVIOUS
      <4> QED
        BY ONLY <4>1, <4>2
    <3>3. PICK x : x = SubSeq(Accumulated, FrameSize + 1, FrameSize + l)
      OBVIOUS
    <3>4. FrameSize + l <= Len(Accumulated)
      BY <1>2, <3>2
    <3>5. PICK y : y = SubSeq(rest, n + 1, n + l)
      OBVIOUS
    <3>6. x \in Seq(Byte) /\ Len(x) = l /\ \A i \in 1 .. l : x[i] = Accumulated[FrameSize + i]
      BY ONLY <1>2, <1>3, <3>3, <3>4, Slice
    <3>7. y \in Seq(Byte) /\ Len(y) = l /\ \A i \in 1 .. l : y[i] = rest[n + i]
      BY <1>2, <3>1, <3>5, Slice
    <3>8. ASSUME NEW i \in 1 .. l PROVE x[i] = y[i]
      <4>1. n + i \in 1 .. Len(rest)
        BY <1>5, <3>1
      <4>2. Len(framebuffer) + (n + i) = FrameSize + i
        BY <1>2, <1>5
      <4> QED
        BY <1>3, <3>6, <3>7, <4>1, <4>2
    <3>9. x = y
      BY <3>6, <3>7, <3>8, SameElements
    <3> QED
      BY <2>1, <3>1, <3>2, <3>3, <3>5, <3>9
  <2>5. /\ rest' \in Seq(Byte) /\ Len(rest') = Len(rest) - n
        /\ Handled' = Handled + n /\ IsTheLast(rest)'
    BY <1>1, <1>5, <2>4, RestOfPiece
  <2>6. Handled' + Len(framebuffer) = Handled + FrameSize
    <3>1. Handled \in Nat
      BY <1>2 DEF Handled
    <3>2. Len(framebuffer) \in Nat /\ n \in Nat /\ Handled' = Handled + n
          /\ Len(framebuffer) + n = FrameSize
      BY <1>2, <1>5, <2>5
    <3> QED
      BY ONLY <3>1, <3>2
  <2>7. Len(rest') <= MaxPiece /\ Len(rest') <= received'
    BY <1>1, <1>2, <1>5, <2>5
  <2>8. framebuffer' \in Seq(Byte) /\ Len(framebuffer') < FrameSize
    BY <1>2, <2>1, EmptySeq
  <2> QED
    BY <1>1, <1>2, <2>1, <2>3, <2>5, <2>6, <2>7, <2>8 DEF Registers
<1>7. CASE ~IsFrame(Accumulated)
  <2>1. failed' = TRUE /\ framebuffer' = Accumulated /\ UNCHANGED <<frame, toRead, rest>>
    BY <1>7 DEF HandleFrame
  <2>2. IsTheLast(rest)'
    BY <1>1, <2>1 DEF Registers, IsTheLast
  <2> QED
    BY <1>1, <1>3, <1>7, <2>1, <2>2 DEF Registers
<1> QED
  BY <1>6, <1>7

(* The bytes of the body after a step of consume().                        *)
Read == TakesToRead(toRead, Len(rest))
BodySoFar == bb \o SubSeq(rest, 1, Read)

(* consume() moves what it reads from the piece to the body.               *)
LEMMA ConsumeFacts ==
  ASSUME Registers, Consume
  PROVE  /\ Registers' /\ Handled' = Handled + Read
         /\ Read \in Nat /\ Len(bb) \in Nat /\ toRead' = toRead - Read
         /\ Read <= toRead /\ Read <= Len(rest)
         /\ BodySoFar \in Seq(Byte) /\ Len(BodySoFar) = Len(bb) + Read
         /\ \A i \in 1 .. Len(bb) : BodySoFar[i] = bb[i]
         /\ \A i \in 1 .. Read : BodySoFar[Len(bb) + i] = stream[Handled + i]
<1>1. /\ rest # <<>> /\ ~failed /\ toRead > 0
      /\ toRead' = toRead - Read
      /\ rest' = SubSeq(rest, Read + 1, Len(rest))
      /\ IF toRead' = 0 THEN Finish(BodySoFar)
                        ELSE bb' = BodySoFar /\ UNCHANGED <<header, out, failed>>
      /\ sent' = sent /\ stream' = stream /\ received' = received
      /\ framebuffer' = framebuffer /\ frame' = frame
  BY DEF Consume, Read, BodySoFar
<1>2. /\ bb \in Seq(Byte) /\ rest \in Seq(Byte) /\ toRead \in Nat
      /\ received \in Nat /\ Len(rest) \in Nat /\ Len(rest) <= received
      /\ MaxPiece \in Nat /\ Len(rest) <= MaxPiece
      /\ framebuffer = <<>> /\ frame \in [type : FrameTypes, of : Nat]
  BY <1>1, LenProperties, SizesAssumption DEF Registers
<1>3. Read \in Nat /\ Read <= toRead /\ Read <= Len(rest)
  BY <1>2 DEF Read, TakesToRead
<1>4. PICK n \in Nat : n = Read
  BY <1>3
<1>5. \A i \in 1 .. Len(rest) : rest[i] = stream[Handled + i]
  BY DEF Registers, IsTheLast, Handled
<1>6. /\ rest' \in Seq(Byte) /\ Len(rest') = Len(rest) - n
      /\ Handled' = Handled + n /\ IsTheLast(rest)'
  <2>1. n \in 0 .. Len(rest) /\ rest' = SubSeq(rest, n + 1, Len(rest))
    BY <1>1, <1>3, <1>4
  <2> QED
    BY <1>1, <2>1, RestOfPiece
<1>7. Handled' = Handled + Read
  BY <1>4, <1>6
<1>8. PICK y : y = SubSeq(rest, 1, n)
  OBVIOUS
<1>9. y \in Seq(Byte) /\ Len(y) = n /\ \A i \in 1 .. n : y[i] = rest[i]
  <2>1. 0 + 1 = 1 /\ 0 + n = n /\ 0 \in Nat /\ \A i \in 1 .. n : 0 + i = i
    OBVIOUS
  <2>2. y = SubSeq(rest, 0 + 1, 0 + n) /\ 0 + n <= Len(rest)
    BY <1>3, <1>4, <1>8, <2>1
  <2>3. y \in Seq(Byte) /\ Len(y) = n /\ \A i \in 1 .. n : y[i] = rest[0 + i]
    BY <1>2, <2>1, <2>2, Slice
  <2> QED
    BY <2>1, <2>3
<1>10. BodySoFar = bb \o y
  BY <1>4, <1>8 DEF BodySoFar
<1>11. /\ BodySoFar \in Seq(Byte) /\ Len(BodySoFar) = Len(bb) + Read /\ Len(bb) \in Nat
       /\ \A i \in 1 .. Len(bb) : BodySoFar[i] = bb[i]
       /\ \A i \in 1 .. Len(y) : BodySoFar[Len(bb) + i] = y[i]
  <2>1. bb \in Seq(Byte)
    BY <1>2
  <2>2. /\ bb \o y \in Seq(Byte) /\ Len(bb \o y) = Len(bb) + Len(y) /\ Len(bb) \in Nat
        /\ \A i \in 1 .. Len(bb) : (bb \o y)[i] = bb[i]
        /\ \A i \in 1 .. Len(y) : (bb \o y)[Len(bb) + i] = y[i]
    <3>1. bb \in Seq(Byte) /\ y \in Seq(Byte)
      BY <1>9, <2>1
    <3> QED
      BY ONLY <3>1, Joined
  <2>3. Len(y) = Read
    BY <1>4, <1>9
  <2> HIDE DEF BodySoFar
  <2> QED
    BY ONLY <1>10, <2>2, <2>3
<1>12. ASSUME NEW i \in 1 .. Read PROVE BodySoFar[Len(bb) + i] = stream[Handled + i]
  <2>1. i \in 1 .. n /\ i \in 1 .. Len(rest)
    BY <1>2, <1>3, <1>4
  <2>2. rest[i] = stream[Handled + i]
    BY <1>5, <2>1 DEF Handled
  <2> QED
    BY <1>9, <1>11, <2>1, <2>2
<1>13. /\ toRead' \in Nat /\ Len(rest') <= MaxPiece /\ Len(rest') <= received'
  BY <1>1, <1>2, <1>3, <1>4, <1>6
<1>14. /\ bb' \in Seq(Byte) /\ failed' \in BOOLEAN
       /\ toRead' = 0 /\ ~failed' => bb' = <<>>
  <2>1. failed \in BOOLEAN
    BY DEF Registers
  <2>2. CASE toRead' # 0
    BY <1>1, <1>11, <2>1, <2>2
  <2>3. CASE toRead' = 0
    <3>1. Finish(BodySoFar)
      BY <1>1, <2>3
    <3>2. frame.type \in FrameTypes
      BY <1>2
    <3>3. \/ failed' = TRUE /\ bb' = BodySoFar
          \/ failed' = failed /\ bb' = <<>>
      BY <3>1, <3>2 DEF Finish, FrameTypes
    <3> QED
      BY <1>1, <1>11, <2>1, <3>3, EmptySeq
  <2> QED
    BY <2>2, <2>3
<1>15. Len(framebuffer') < FrameSize /\ framebuffer' \in Seq(Byte)
  BY <1>1, <1>2, EmptySeq, SizesAssumption
<1>16. Registers'
  BY <1>1, <1>2, <1>6, <1>13, <1>14, <1>15 DEF Registers
<1> QED
  BY <1>1, <1>3, <1>7, <1>11, <1>12, <1>16

(* The registers to begin with, on both kinds of streams.                  *)
LEMMA InitRegisters == Init => Registers
<1> SUFFICES ASSUME Init PROVE Registers
  OBVIOUS
<1>1. /\ sent \in Seq(Message)
      /\ received = 0 /\ rest = <<>> /\ failed = FALSE
      /\ framebuffer = <<>> /\ toRead = 0 /\ bb = <<>>
  BY TrafficAssumption DEF Init, Message
<1>2. stream \in Seq(Byte)
  <2>1. CASE stream = InTurn(sent)
    BY <1>1, <2>1, Layout
  <2>2. CASE CanInterrupt(sent) /\ stream = Interrupted(sent)
    <3>1. PICK a, b : a = Serialized(sent[1]) /\ b = Serialized(sent[2])
      OBVIOUS
    <3>2. a \in Seq(Byte) /\ b \in Seq(Byte) /\ Len(a) \in Nat
      <4>1. sent[1] \in Message /\ sent[2] \in Message
        <5>1. Len(sent) = 2
          BY <2>2 DEF CanInterrupt
        <5>2. 1 \in 1 .. Len(sent) /\ 2 \in 1 .. Len(sent)
          BY <5>1
        <5> QED
          BY <1>1, <5>2, ElementOfSeq
      <4> QED
        BY <3>1, <4>1, SerializedType, LenProperties
    <3>3. ChunkSize \in Nat /\ Len(a) > ChunkSize
      BY <2>2, <3>1, SizesAssumption DEF CanInterrupt
    <3>4. PICK l \in Nat : Len(a) = ChunkSize + l
      <4>1. Len(a) - ChunkSize \in Nat /\ Len(a) = ChunkSize + (Len(a) - ChunkSize)
        BY <3>2, <3>3
      <4> QED
        BY <4>1
    <3>5. SubSeq(a, 0 + 1, 0 + ChunkSize) \in Seq(Byte)
      <4>1. 0 \in Nat /\ 0 + ChunkSize <= Len(a)
        BY <3>2, <3>3
      <4> QED
        BY ONLY <3>2, <3>3, <4>1, Slice, Zenon
    <3>6. SubSeq(a, ChunkSize + 1, ChunkSize + l) \in Seq(Byte)
      <4>1. ChunkSize + l <= Len(a)
        BY <3>2, <3>4
      <4> QED
        BY ONLY <3>2, <3>3, <3>4, <4>1, Slice, Zenon
    <3>7. SubSeq(a, 1, ChunkSize) \in Seq(Byte)
      <4>1. 0 + 1 = 1 /\ 0 + ChunkSize = ChunkSize
        BY <3>3
      <4> QED
        BY <3>5, <4>1
    <3>8. SubSeq(a, 1, ChunkSize) \o b \in Seq(Byte)
      BY <3>2, <3>7, ConcatProperties
    <3>9. (SubSeq(a, 1, ChunkSize) \o b) \o SubSeq(a, ChunkSize + 1, ChunkSize + l) \in Seq(Byte)
      BY <3>6, <3>8, ConcatProperties
    <3>10. stream = (SubSeq(a, 1, ChunkSize) \o b) \o SubSeq(a, ChunkSize + 1, Len(a))
      BY <2>2, <3>1 DEF Interrupted
    <3> QED
      BY <3>4, <3>9, <3>10
  <2> QED
    BY <2>1, <2>2 DEF Init
<1>3. Len(stream) \in Nat
  BY <1>2, LenProperties
<1>4. Len(rest) = 0 /\ rest \in Seq(Byte) /\ framebuffer \in Seq(Byte) /\ Len(framebuffer) = 0
      /\ bb \in Seq(Byte)
  BY <1>1, EmptySeq
<1>5. IsTheLast(rest)
  BY <1>4 DEF IsTheLast
<1>6. /\ Len(framebuffer) < FrameSize /\ Len(rest) <= MaxPiece /\ Len(rest) <= received
      /\ received \in 0 .. Len(stream) /\ toRead \in Nat /\ ~(toRead > 0) /\ failed \in BOOLEAN
  <2>1. FrameSize \in Nat \ {0} /\ MaxPiece \in Nat
    BY SizesAssumption
  <2>2. Len(framebuffer) < FrameSize /\ Len(rest) <= MaxPiece
    BY <1>4, <2>1
  <2> QED
    <3>1. received = 0 /\ Len(rest) = 0 /\ toRead = 0 /\ failed = FALSE
      BY <1>1, <1>4
    <3>2. failed \in BOOLEAN
      BY ONLY <3>1
    <3>3. received \in 0 .. Len(stream) /\ Len(rest) <= received
      BY ONLY <1>3, <3>1
    <3>4. toRead \in Nat /\ ~(toRead > 0)
      BY ONLY <3>1
    <3> QED
      BY ONLY <2>2, <3>2, <3>3, <3>4
<1> QED
  BY ONLY <1>1, <1>2, <1>4, <1>5, <1>6 DEF Registers

(* Every step keeps them well typed.                                       *)
LEMMA StepRegisters == Registers /\ [Next]_vars => Registers'
<1> SUFFICES ASSUME Registers, [Next]_vars PROVE Registers'
  OBVIOUS
<1>1. ASSUME NEW n \in 1 .. MaxPiece, Put(n) PROVE Registers'
  BY <1>1, PutFacts
<1>2. CASE HandleShort
  BY <1>2, ShortFacts
<1>3. CASE HandleFrame
  BY <1>3, FrameFacts
<1>4. CASE Consume
  BY <1>4, ConsumeFacts
<1>5. CASE UNCHANGED vars
  <2>1. /\ sent' = sent /\ stream' = stream /\ received' = received /\ rest' = rest
        /\ framebuffer' = framebuffer /\ bb' = bb /\ toRead' = toRead
        /\ failed' = failed /\ frame' = frame
    BY <1>5 DEF vars, parser
  <2>2. IsTheLast(rest)'
    BY <2>1 DEF Registers, IsTheLast
  <2> QED
    BY <2>1, <2>2 DEF Registers
<1> QED
  BY <1>1, <1>2, <1>3, <1>4, <1>5 DEF Next

(* The type invariant of the model is a part of that.                      *)
LEMMA RegistersTypeOK == Registers => TypeOK
<1> SUFFICES ASSUME Registers PROVE TypeOK
  OBVIOUS
<1>1. toRead > 0 => frame # <<>>
  <2>1. frame \in [type : FrameTypes, of : Nat] => frame # <<>>
    <3>1. DOMAIN <<>> = {}
      OBVIOUS
    <3>2. frame \in [type : FrameTypes, of : Nat] => "of" \in DOMAIN frame
      OBVIOUS
    <3> QED
      BY <3>1, <3>2
  <2> QED
    BY <2>1 DEF Registers
<1> QED
  BY <1>1 DEF Registers, TypeOK

(* The parser's registers are well typed, and what it has still to read    *)
(* belongs to a frame it has seen, on every stream.                        *)
THEOREM WellTyped == Spec => []TypeOK
<1>1. Spec => []Registers
  BY InitRegisters, StepRegisters, PTL DEF Spec
<1> QED
  BY <1>1, RegistersTypeOK, PTL
-----------------------------------------------------------------------------

(* The rest is of streams that carry one message after another: what the   *)
(* parser has is always a part of the message whose turn it is.            *)

(* The registers that every step keeps.                                    *)
Fixed == sent' = sent /\ stream' = stream

(* No step of the parser changes what the peer sends.                      *)
LEMMA StreamIsFixed == [Next]_vars => Fixed
  BY DEF Next, vars, Put, HandleShort, HandleFrame, Consume, Fixed

(* Nothing is consumed that the stream does not have.                      *)
LEMMA HandledType ==
  ASSUME Registers
  PROVE  /\ Handled \in Nat /\ Handled + Len(rest) <= Len(stream)
         /\ Len(stream) \in Nat /\ Len(rest) \in Nat /\ Len(framebuffer) \in Nat
         /\ (rest # <<>> => Len(rest) > 0)
<1>1. /\ received \in Nat /\ received <= Len(stream) /\ Len(stream) \in Nat
      /\ Len(rest) \in Nat /\ Len(rest) <= received /\ Len(framebuffer) \in Nat
  BY LenProperties DEF Registers
<1>2. rest # <<>> => Len(rest) > 0
  <2>1. rest \in Seq(Byte)
    BY DEF Registers
  <2>2. Len(rest) = 0 => rest = <<>>
    BY <2>1, EmptySeq
  <2> QED
    BY <1>1, <2>2
<1> QED
  BY <1>1, <1>2 DEF Handled

(* What is put by and the piece are one stretch of the stream.             *)
LEMMA AccumulatedInFrame ==
  ASSUME Registers, NEW base \in Nat, InFrame(base)
  PROVE  /\ \A i \in 1 .. Len(Accumulated) : Accumulated[i] = stream[base + i]
         /\ base + Len(Accumulated) <= Len(stream)
<1>1. /\ Accumulated \in Seq(Byte) /\ Len(Accumulated) = Len(framebuffer) + Len(rest)
      /\ Len(framebuffer) \in Nat /\ Len(rest) \in Nat
      /\ \A i \in 1 .. Len(framebuffer) : Accumulated[i] = framebuffer[i]
      /\ \A i \in 1 .. Len(rest) : Accumulated[Len(framebuffer) + i] = stream[Handled + i]
  BY AccumulatedFacts
<1>2. /\ Handled = base + Len(framebuffer)
      /\ \A i \in 1 .. Len(framebuffer) : framebuffer[i] = stream[base + i]
  BY DEF InFrame
<1>3. ASSUME NEW i \in 1 .. Len(Accumulated) PROVE Accumulated[i] = stream[base + i]
  <2>1. i \in Nat /\ 1 <= i /\ i <= Len(framebuffer) + Len(rest)
    BY <1>1
  <2>2. CASE i <= Len(framebuffer)
    BY <1>1, <1>2, <2>1, <2>2
  <2>3. CASE ~(i <= Len(framebuffer))
    <3>1. PICK j \in Nat : i = Len(framebuffer) + j
      <4>1. i - Len(framebuffer) \in Nat /\ i = Len(framebuffer) + (i - Len(framebuffer))
        BY <1>1, <2>1, <2>3
      <4> QED
        BY <4>1
    <3>2. j \in 1 .. Len(rest)
      BY <1>1, <2>1, <2>3, <3>1
    <3>3. Handled + j = base + i
      <4>1. base \in Nat /\ Len(framebuffer) \in Nat /\ j \in Nat
        BY <1>1, <3>1
      <4> QED
        BY ONLY <1>2, <3>1, <4>1
    <3> QED
      BY <1>1, <3>1, <3>2, <3>3
  <2> QED
    BY <2>2, <2>3
<1>4. base + Len(Accumulated) <= Len(stream)
  <2>1. Handled + Len(rest) <= Len(stream)
    BY HandledType
  <2>2. base + Len(Accumulated) = Handled + Len(rest)
    BY ONLY <1>1, <1>2
  <2> QED
    BY <2>1, <2>2
<1> QED
  BY <1>3, <1>4

(* A short piece makes the stretch of a frame longer.                      *)
LEMMA FrameGrows ==
  ASSUME Registers, NEW base \in Nat, InFrame(base), HandleShort
  PROVE  InFrame(base)'
<1>1. framebuffer' = Accumulated /\ Handled' = Handled + Len(rest)
  BY ShortFacts
<1>2. toRead' = 0 /\ stream' = stream
  BY DEF HandleShort
<1>3. \A i \in 1 .. Len(Accumulated) : Accumulated[i] = stream[base + i]
  BY AccumulatedInFrame
<1>4. /\ Handled = base + Len(framebuffer) /\ Len(Accumulated) = Len(framebuffer) + Len(rest)
      /\ Len(framebuffer) \in Nat /\ Len(rest) \in Nat /\ base \in Nat
  BY AccumulatedFacts DEF InFrame
<1>5. Handled + Len(rest) = base + Len(Accumulated)
  BY ONLY <1>4
<1> QED
  BY <1>1, <1>2, <1>3, <1>5 DEF InFrame

(* A step that leaves parser and output alone stays where it is.           *)
LEMMA SamePlace ==
  ASSUME Parsing,
         sent' = sent, stream' = stream, framebuffer' = framebuffer, toRead' = toRead,
         bb' = bb, header' = header, frame' = frame, out' = out, failed' = failed,
         Handled' = Handled
  PROVE  Parsing'
<1>1. \A base : InFrame(base) => InFrame(base)'
  BY DEF InFrame
<1>2. \A base, m, p : InBody(base, m, p) => InBody(base, m, p)'
  BY DEF InBody
<1>3. PICK k \in 0 .. Len(sent) : After(k)
  BY DEF Parsing
<1>4. \A p : InPart(k, p) => InPart(k, p)'
  BY <1>1, <1>2 DEF InPart
<1>5. After(k)'
  BY <1>1, <1>3, <1>4 DEF After
<1> QED
  BY <1>3, <1>5 DEF Parsing

(* Put(n) is such a step.                                                  *)
LEMMA PutParsing ==
  ASSUME Registers, Parsing, NEW n \in 1 .. MaxPiece, Put(n)
  PROVE  Parsing'
  BY PutFacts, SamePlace DEF Put, parser

(* HandleShort stays in its part.                                          *)
LEMMA ShortParsing ==
  ASSUME Registers, Contiguous, Parsing, HandleShort
  PROVE  Parsing'
<1>1. /\ sent' = sent /\ stream' = stream /\ header' = header /\ out' = out
      /\ failed' = failed /\ toRead = 0
  BY DEF HandleShort
<1>2. sent \in Seq(Message) /\ Len(sent) \in Nat
  BY LenProperties DEF Registers
<1>3. PICK k \in 0 .. Len(sent) : After(k)
  BY DEF Parsing
<1>4. CASE k = Len(sent) /\ header = <<>> /\ InFrame(Start(sent, k))
  <2>1. PICK base \in Nat : base = Start(sent, k)
    BY <1>2, Layout
  <2>2. InFrame(base)'
    BY <1>4, <2>1, FrameGrows
  <2>3. InFrame(Start(sent, k))'
    BY <1>1, <2>1, <2>2
  <2>4. After(k)'
    BY <1>1, <1>3, <1>4, <2>3 DEF After
  <2> QED
    BY <1>1, <1>3, <2>4 DEF Parsing
<1>5. CASE k < Len(sent) /\ \E p \in Parts(sent[k + 1]) : InPart(k, p)
  <2>1. PICK m : m = sent[k + 1]
    OBVIOUS
  <2>2. PICK p \in Parts(m) : InPart(k, p)
    BY <1>5, <2>1
  <2>3. PICK base : base = Start(sent, k) + PartStart(m, p)
    OBVIOUS
  <2>4. base \in Nat
    BY <1>2, <1>5, <2>1, <2>3, PartLayout
  <2>5. header = Held(m, p) /\ InFrame(base)
    BY <1>1, <2>1, <2>2, <2>3 DEF InPart, InBody
  <2>6. InFrame(base)'
    BY <2>4, <2>5, FrameGrows
  <2>7. InPart(k, p)'
    BY <1>1, <2>1, <2>3, <2>5, <2>6 DEF InPart
  <2>8. After(k)'
    BY <1>1, <1>3, <1>5, <2>1, <2>7 DEF After
  <2> QED
    BY <1>1, <1>3, <2>8 DEF Parsing
<1> QED
  BY <1>3, <1>4, <1>5 DEF After

(* The first byte of a whole frame is that of the frame that begins there. *)
LEMMA FrameIsDecoded ==
  ASSUME Registers, Contiguous, HandleFrame,
         NEW k \in 0 .. Len(sent), k < Len(sent), NEW m, m = sent[k + 1],
         NEW p \in Parts(m), NEW base, base = Start(sent, k) + PartStart(m, p),
         InFrame(base)
  PROVE  /\ failed' = failed
         /\ InBody(base, m, p)'
<1>1. sent \in Seq(Message) /\ stream = InTurn(sent)
  BY DEF Registers, Contiguous
<1>2. /\ base \in Nat /\ PartLength(m, p) \in Nat \ {0}
      /\ FrameIsAt(InTurn(sent), base, m, p)
  <2>1. sent \in Seq(Message)
    BY <1>1
  <2> QED
    BY <2>1, PartLayout
<1>3. /\ Len(Accumulated) >= FrameSize /\ toRead = 0 /\ ~failed /\ bb' = bb
      /\ FrameSize \in Nat \ {0} /\ Len(Accumulated) \in Nat
  BY AccumulatedFacts, LenProperties, SizesAssumption DEF HandleFrame
<1>4. 1 \in 1 .. FrameSize /\ 1 \in 1 .. Len(Accumulated)
  BY <1>3
<1>5. Accumulated[1] = stream[base + 1]
  BY <1>2, <1>4, AccumulatedInFrame
<1>6. Accumulated[1] = [of |-> m.id, type |-> PartType(m, p), length |-> PartLength(m, p), at |-> 1]
  BY <1>1, <1>2, <1>4, <1>5 DEF FrameIsAt, FrameBytes
<1>7. IsFrame(Accumulated)
  BY <1>6 DEF IsFrame
<1>8. /\ frame' = [type |-> PartType(m, p), of |-> m.id] /\ toRead' = PartLength(m, p)
      /\ failed' = failed
  BY <1>6, <1>7 DEF HandleFrame
<1>9. Len(bb') = 0
  BY <1>3, EmptySeq DEF Registers
<1>10. Handled' = base + FrameSize
  <2>1. /\ Handled' + Len(framebuffer) = Handled + FrameSize
        /\ Handled = base + Len(framebuffer) /\ Len(framebuffer) \in Nat
    BY <1>7, FrameFacts, HandledType DEF InFrame
  <2>2. Handled' \in Nat
    <3>1. Registers'
      BY FrameFacts
    <3>2. rest' \in Seq(Byte) /\ Len(rest') <= received' /\ received' \in Nat
      BY <3>1 DEF Registers
    <3> QED
      BY <3>2, LenProperties DEF Handled
  <2> QED
    BY ONLY <1>2, <1>3, <2>1, <2>2
<1>11. Handled' = base + FrameSize + Len(bb')
  BY <1>2, <1>3, <1>9, <1>10
<1>12. toRead' > 0 /\ Len(bb') + toRead' = PartLength(m, p)
  BY <1>2, <1>8, <1>9
<1> QED
  BY <1>8, <1>9, <1>11, <1>12 DEF InBody

(* HandleFrame begins the body; there is none after the last message.      *)
LEMMA FrameParsing ==
  ASSUME Registers, Contiguous, Parsing, HandleFrame
  PROVE  Parsing'
<1>1. /\ sent' = sent /\ stream' = stream /\ header' = header /\ out' = out /\ toRead = 0
      /\ rest # <<>>
  BY DEF HandleFrame
<1>2. sent \in Seq(Message) /\ Len(sent) \in Nat
  BY LenProperties DEF Registers
<1>3. PICK k \in 0 .. Len(sent) : After(k)
  BY DEF Parsing
<1>4. ~(k = Len(sent) /\ InFrame(Start(sent, k)))
  <2> SUFFICES ASSUME k = Len(sent), InFrame(Start(sent, k)) PROVE FALSE
    OBVIOUS
  <2>1. Len(stream) = Start(sent, k)
    BY <1>2, Layout DEF Contiguous
  <2>2. Handled = Len(stream) + Len(framebuffer)
    BY <2>1 DEF InFrame
  <2> QED
    BY <1>1, <2>2, HandledType
<1>5. k < Len(sent) /\ \E p \in Parts(sent[k + 1]) : InPart(k, p)
  BY <1>3, <1>4 DEF After
<1>6. PICK m : m = sent[k + 1]
  OBVIOUS
<1>7. PICK p \in Parts(m) : InPart(k, p)
  BY <1>5, <1>6
<1>8. PICK base : base = Start(sent, k) + PartStart(m, p)
  OBVIOUS
<1>9. header = Held(m, p) /\ InFrame(base)
  BY <1>1, <1>6, <1>7, <1>8 DEF InPart, InBody
<1>10. failed' = failed /\ InBody(base, m, p)'
  BY <1>5, <1>6, <1>8, <1>9, FrameIsDecoded
<1>11. InPart(k, p)'
  BY <1>1, <1>6, <1>8, <1>9, <1>10 DEF InPart
<1>12. After(k)'
  BY <1>1, <1>3, <1>5, <1>6, <1>11 DEF After
<1> QED
  BY <1>1, <1>3, <1>10, <1>12 DEF Parsing

Agree(bytes, whole) == \A i \in 1 .. Len(bytes) : bytes[i] = whole[i]

(* What consume() has after its step is that much of the body.             *)
LEMMA BodyGrows ==
  ASSUME Registers, Contiguous, Consume,
         NEW k \in 0 .. Len(sent), k < Len(sent), NEW m, m = sent[k + 1],
         NEW p \in Parts(m), NEW base, base = Start(sent, k) + PartStart(m, p),
         InBody(base, m, p)
  PROVE  /\ Handled' = base + FrameSize + Len(BodySoFar)
         /\ Len(BodySoFar) + toRead' = PartLength(m, p)
         /\ Agree(BodySoFar, PartBody(m, p))
         /\ toRead' = 0 => BodySoFar = PartBody(m, p)
<1>1. sent \in Seq(Message)
  BY DEF Registers
<1>2. /\ m \in Message /\ base \in Nat /\ PartLength(m, p) \in Nat /\ p \in {1, 2}
      /\ BodyIsAt(InTurn(sent), base, m, p)
  <2>1. m \in Message /\ PartLength(m, p) \in Nat \ {0} /\ p \in {1, 2}
    BY <1>1, PartLayout
  <2>2. base \in Nat /\ BodyIsAt(InTurn(sent), base, m, p)
    BY <1>1, PartLayout
  <2> QED
    BY <2>1, <2>2
<1>3. \A i \in 1 .. PartLength(m, p) : stream[base + FrameSize + i] = PartBody(m, p)[i]
  BY <1>2 DEF BodyIsAt, Contiguous
<1>4. /\ Handled' = Handled + Read /\ Read \in Nat /\ Len(bb) \in Nat
      /\ toRead' = toRead - Read /\ Read <= toRead /\ toRead \in Nat
      /\ BodySoFar \in Seq(Byte) /\ Len(BodySoFar) = Len(bb) + Read
      /\ FrameSize \in Nat
  BY ConsumeFacts, SizesAssumption DEF Registers
<1>5. /\ Handled = base + FrameSize + Len(bb) /\ Len(bb) + toRead = PartLength(m, p)
  BY DEF InBody
<1>6. Handled' = base + FrameSize + Len(BodySoFar)
  BY ONLY <1>2, <1>4, <1>5
<1>7. Len(BodySoFar) + toRead' = PartLength(m, p) /\ Len(BodySoFar) <= PartLength(m, p)
  BY ONLY <1>2, <1>4, <1>5
<1>8. ASSUME NEW i \in 1 .. Len(BodySoFar) PROVE BodySoFar[i] = PartBody(m, p)[i]
  <2>1. i \in Nat /\ 1 <= i /\ i <= Len(bb) + Read /\ i \in 1 .. PartLength(m, p)
    BY <1>2, <1>4, <1>7
  <2>2. CASE i <= Len(bb)
    <3>1. i \in 1 .. Len(bb)
      BY <1>4, <2>1, <2>2
    <3>2. BodySoFar[i] = bb[i]
      BY <3>1, ConsumeFacts
    <3>3. bb[i] = PartBody(m, p)[i]
      BY <3>1 DEF InBody
    <3> QED
      BY <3>2, <3>3
  <2>3. CASE ~(i <= Len(bb))
    <3>1. PICK j \in Nat : i = Len(bb) + j
      <4>1. i - Len(bb) \in Nat /\ i = Len(bb) + (i - Len(bb))
        BY <1>4, <2>1, <2>3
      <4> QED
        BY <4>1
    <3>2. j \in 1 .. Read
      BY <1>4, <2>1, <2>3, <3>1
    <3>3. BodySoFar[Len(bb) + j] = stream[Handled + j]
      BY <3>2, ConsumeFacts
    <3>4. Handled + j = base + FrameSize + i
      BY ONLY <1>2, <1>4, <1>5, <3>1
    <3> QED
      BY <1>3, <2>1, <3>1, <3>3, <3>4
  <2> QED
    BY <2>2, <2>3
<1>9. toRead' = 0 => BodySoFar = PartBody(m, p)
  <2> SUFFICES ASSUME toRead' = 0 PROVE BodySoFar = PartBody(m, p)
    OBVIOUS
  <2>1. PartBody(m, p) \in Seq(Byte) /\ Len(PartBody(m, p)) = PartLength(m, p)
    BY <1>2, PartTypes
  <2>2. Len(BodySoFar) = Len(PartBody(m, p))
    BY <1>4, <1>7, <2>1
  <2> QED
    BY <1>4, <1>8, <2>1, <2>2, SameElements
<1> QED
  BY <1>6, <1>7, <1>8, <1>9 DEF Agree

(* The last byte of message k + 1 is consumed.                             *)
Finishes(k) ==
  /\ k \in 0 .. Len(sent) /\ k < Len(sent) /\ After(k)
  /\ out' = Append(out, Expected(sent[k + 1]))
  /\ header' = <<>> /\ toRead' = 0 /\ framebuffer' = <<>> /\ failed' = FALSE
  /\ Handled' = Start(sent, k + 1)
  /\ Fixed

(* The parser is then at the first frame of the next message.              *)
LEMMA NextMessage ==
  ASSUME Registers, NEW k, Finishes(k)
  PROVE  Parsing'
<1>1. sent \in Seq(Message) /\ Len(sent) \in Nat
  BY LenProperties DEF Registers
<1>2. /\ k \in 0 .. Len(sent) /\ k < Len(sent) /\ k + 1 \in 0 .. Len(sent)
      /\ k + 1 \in 1 .. Len(sent) /\ k \in Nat
  BY <1>1 DEF Finishes
<1>3. /\ out \in Seq(Deliveries) /\ Len(out) = k
      /\ \A i \in 1 .. k : out[i] = Expected(sent[i])
  BY DEF Finishes, After
<1>4. PICK d : d = Expected(sent[k + 1])
  OBVIOUS
<1>5. d \in Deliveries
  <2>1. sent[k + 1] \in Message
    BY <1>1, <1>2, ElementOfSeq
  <2>2. /\ sent[k + 1].id \in Nat /\ sent[k + 1].header \in Nat
        /\ sent[k + 1].payload \in Nat
    BY <2>1 DEF Message
  <2>3. HeaderBytes(sent[k + 1]) \in Seq(Byte) /\ PayloadBytes(sent[k + 1]) \in Seq(Byte)
    BY <2>1, <2>2, BodyType DEF HeaderBytes, PayloadBytes
  <2> QED
    BY <1>4, <2>2, <2>3 DEF Expected, Delivery, Deliveries
<1>6. out' = Append(out, d) /\ sent' = sent /\ stream' = stream
  BY <1>4 DEF Finishes, Fixed
<1>7. /\ Append(out, d) \in Seq(Deliveries) /\ Len(Append(out, d)) = Len(out) + 1
      /\ Append(out, d)[Len(out) + 1] = d
      /\ \A i \in 1 .. Len(out) : Append(out, d)[i] = out[i]
  BY <1>3, <1>5, AppendProperties
<1>8. out' \in Seq(Deliveries) /\ Len(out') = k + 1
  BY <1>3, <1>6, <1>7
<1>9. ASSUME NEW i \in 1 .. k + 1 PROVE out'[i] = Expected(sent[i])
  BY <1>2, <1>3, <1>4, <1>6, <1>7
<1>10. PICK base : base = Start(sent, k + 1)
  OBVIOUS
<1>11. base \in Nat
  BY <1>1, <1>2, <1>10, Layout
<1>12. InFrame(base)'
  <2>1. toRead' = 0 /\ framebuffer' = <<>> /\ Handled' = base
    BY <1>10 DEF Finishes
  <2>2. Len(framebuffer') = 0
    BY <2>1, EmptySeq
  <2>3. Handled' = base + Len(framebuffer')
    BY <1>11, <2>1, <2>2
  <2> QED
    BY <2>1, <2>2, <2>3 DEF InFrame
<1>13. InFrame(Start(sent, k + 1))'
  BY <1>6, <1>10, <1>12
<1>14. header' = <<>> /\ failed' = FALSE
  BY DEF Finishes
<1>15. CASE k + 1 = Len(sent)
  <2>1. After(k + 1)'
    BY <1>2, <1>6, <1>8, <1>9, <1>13, <1>14, <1>15 DEF After
  <2> QED
    BY <1>2, <1>6, <1>14, <2>1 DEF Parsing
<1>16. CASE k + 1 # Len(sent)
  <2>1. PICK n : n = sent[k + 1 + 1]
    OBVIOUS
  <2>2. 1 \in Parts(n) /\ PartStart(n, 1) = 0 /\ Held(n, 1) = <<>>
    BY DEF Parts, PartStart, Held
  <2>3. Start(sent, k + 1) + PartStart(n, 1) = base
    BY <1>10, <1>11, <2>2
  <2>4. InPart(k + 1, 1)'
    BY <1>6, <1>12, <1>14, <2>1, <2>2, <2>3 DEF InPart
  <2>5. k + 1 < Len(sent)
    BY <1>1, <1>2, <1>16
  <2>6. After(k + 1)'
    BY <1>2, <1>6, <1>8, <1>9, <2>1, <2>2, <2>4, <2>5 DEF After
  <2> QED
    BY <1>2, <1>6, <1>14, <2>6 DEF Parsing
<1> QED
  BY <1>15, <1>16

(* finish() of the body of part p of message k + 1.                        *)
LEMMA PartFinishes ==
  ASSUME Registers, Contiguous, Consume, toRead' = 0, ~failed,
         NEW k \in 0 .. Len(sent), k < Len(sent), After(k), NEW m, m = sent[k + 1],
         NEW p \in Parts(m), NEW base, base = Start(sent, k) + PartStart(m, p),
         header = Held(m, p), InBody(base, m, p)
  PROVE  Parsing'
<1>1. sent \in Seq(Message) /\ Len(sent) \in Nat
  BY LenProperties DEF Registers
<1>2. /\ m \in Message /\ base \in Nat /\ PartLength(m, p) \in Nat \ {0} /\ p \in {1, 2}
      /\ base + FrameSize + PartLength(m, p) =
           IF p = 1 /\ m.payload # 0 THEN Start(sent, k) + PartStart(m, 2)
                                     ELSE Start(sent, k + 1)
  <2>1. m \in Message /\ base \in Nat /\ PartLength(m, p) \in Nat \ {0} /\ p \in {1, 2}
    BY <1>1, PartLayout
  <2> QED
    BY <1>1, <2>1, PartLayout
<1>3. BodySoFar = PartBody(m, p) /\ Handled' = base + FrameSize + PartLength(m, p)
  <2>1. PartBody(m, p) \in Seq(Byte) /\ Len(PartBody(m, p)) = PartLength(m, p)
    BY <1>2, PartTypes
  <2>2. BodySoFar = PartBody(m, p) /\ Handled' = base + FrameSize + Len(BodySoFar)
    BY BodyGrows
  <2> QED
    BY <2>1, <2>2
<1>4. Finish(PartBody(m, p))
  BY <1>3 DEF Consume, BodySoFar, Read
<1>5. frame = [type |-> PartType(m, p), of |-> m.id] /\ toRead > 0
  BY DEF InBody
<1>6. /\ framebuffer' = <<>> /\ Fixed
  BY <1>5 DEF Consume, Registers, Fixed
<1>7. CASE p = 1 /\ m.payload # 0
  <2>1. frame.type = "HEADER" /\ IsJson(HeaderBytes(m)) /\ PartBody(m, p) = HeaderBytes(m)
    <3>1. k + 1 \in DOMAIN sent
      BY <1>1, LenProperties
    <3> QED
      BY <1>5, <1>7, <3>1 DEF PartType, PartBody, IsJson
  <2>2. header' = HeaderBytes(m) /\ bb' = <<>> /\ out' = out /\ failed' = failed
    BY <1>4, <2>1 DEF Finish
  <2>3. PICK start : start = Start(sent, k) + PartStart(m, 2)
    OBVIOUS
  <2>4. start \in Nat /\ Handled' = start /\ 2 \in Parts(m) /\ Held(m, 2) = HeaderBytes(m)
    <3>1. FrameSize \in Nat
      BY SizesAssumption
    <3>2. base + FrameSize + PartLength(m, p) \in Nat
      BY <1>2, <3>1
    <3> QED
      BY <1>2, <1>3, <1>7, <2>3, <3>2 DEF Parts, Held
  <2>5. InFrame(start)'
    <3>1. Len(framebuffer') = 0
      BY <1>6, EmptySeq
    <3>2. Handled' = start + Len(framebuffer')
      BY <2>4, <3>1
    <3> QED
      BY <3>1, <3>2 DEF InFrame
  <2>6. InPart(k, 2)'
    BY <1>6, <2>2, <2>3, <2>4, <2>5 DEF InPart, Fixed
  <2>7. After(k)'
    BY <1>6, <2>2, <2>4, <2>6 DEF After, Fixed
  <2> QED
    BY <1>6, <2>2, <2>7 DEF Parsing, Fixed
<1>8. CASE ~(p = 1 /\ m.payload # 0)
  <2>1. Handled' = Start(sent, k + 1)
    BY <1>2, <1>3, <1>8
  <2>2. out' = Append(out, Expected(m)) /\ header' = <<>> /\ failed' = failed
    <3>1. CASE p = 1
      <4>1. /\ frame.type = "COMMAND" /\ frame.of = m.id /\ PartBody(m, p) = HeaderBytes(m)
            /\ header = <<>> /\ m.payload = 0
        BY <1>5, <1>8, <3>1 DEF PartType, PartBody, Held
      <4>2. IsJson(HeaderBytes(m))
        <5>1. k + 1 \in DOMAIN sent
          BY <1>1, LenProperties
        <5> QED
          BY <5>1 DEF IsJson
      <4>3. /\ out' = Append(out, Delivery(m.id, HeaderBytes(m), <<>>))
            /\ header' = header /\ failed' = failed
        BY <1>4, <4>1, <4>2 DEF Finish
      <4>4. PayloadBytes(m) = <<>>
        <5>1. PayloadBytes(m) \in Seq(Byte) /\ Len(PayloadBytes(m)) = 0
          BY <1>2, <4>1, BodyType DEF PayloadBytes
        <5> QED
          BY <5>1, EmptySeq
      <4> QED
        BY <4>1, <4>3, <4>4 DEF Expected
    <3>2. CASE p = 2
      <4>1. /\ frame.type = "PAYLOAD" /\ frame.of = m.id /\ PartBody(m, p) = PayloadBytes(m)
            /\ header = HeaderBytes(m)
        BY <1>5, <3>2 DEF PartType, PartBody, Held
      <4>2. /\ out' = Append(out, Delivery(m.id, HeaderBytes(m), PayloadBytes(m)))
            /\ header' = <<>> /\ failed' = failed
        BY <1>4, <4>1 DEF Finish, HeaderAfterPayload
      <4> QED
        BY <4>2 DEF Expected
    <3> QED
      BY <1>2, <3>1, <3>2
  <2>3. failed' = FALSE
    BY <2>2 DEF Registers
  <2>4. Finishes(k)
    BY <1>6, <2>1, <2>2, <2>3 DEF Finishes
  <2> QED
    BY <2>4, NextMessage
<1> QED
  BY <1>7, <1>8

(* Consume stays in the body, or ends its part.                            *)
LEMMA ConsumeParsing ==
  ASSUME Registers, Contiguous, Parsing, Consume
  PROVE  Parsing'
<1>1. /\ sent' = sent /\ stream' = stream /\ toRead > 0 /\ ~failed /\ frame' = frame
      /\ toRead' # 0 => bb' = BodySoFar /\ header' = header /\ out' = out /\ failed' = failed
  BY DEF Consume, BodySoFar, Read
<1>2. PICK k \in 0 .. Len(sent) : After(k)
  BY DEF Parsing
<1>3. k < Len(sent) /\ \E p \in Parts(sent[k + 1]) : InPart(k, p)
  BY <1>1, <1>2 DEF After, InFrame
<1>4. PICK m : m = sent[k + 1]
  OBVIOUS
<1>5. PICK p \in Parts(m) : InPart(k, p)
  BY <1>3, <1>4
<1>6. PICK base : base = Start(sent, k) + PartStart(m, p)
  OBVIOUS
<1>7. header = Held(m, p) /\ InBody(base, m, p)
  BY <1>1, <1>4, <1>5, <1>6 DEF InPart, InFrame
<1>8. CASE toRead' = 0
  BY <1>1, <1>2, <1>3, <1>4, <1>6, <1>7, <1>8, PartFinishes
<1>9. CASE toRead' # 0
  <2>1. /\ Handled' = base + FrameSize + Len(BodySoFar)
        /\ Len(BodySoFar) + toRead' = PartLength(m, p)
        /\ Agree(BodySoFar, PartBody(m, p))
    BY <1>3, <1>4, <1>6, <1>7, BodyGrows
  <2>2. toRead' > 0
    <3>1. toRead' \in Nat
      BY ConsumeFacts DEF Registers
    <3> QED
      BY <1>9, <3>1
  <2>3. frame = [type |-> PartType(m, p), of |-> m.id]
    BY <1>7 DEF InBody
  <2>4. InBody(base, m, p)'
    BY <1>1, <1>9, <2>1, <2>2, <2>3 DEF InBody, Agree
  <2>5. InPart(k, p)'
    BY <1>1, <1>4, <1>6, <1>7, <1>9, <2>4 DEF InPart
  <2>6. After(k)'
    BY <1>1, <1>2, <1>3, <1>4, <1>9, <2>5 DEF After
  <2> QED
    BY <1>1, <1>2, <1>9, <2>6 DEF Parsing
<1> QED
  BY <1>8, <1>9
-----------------------------------------------------------------------------

(* The parser begins at the first frame of the first message.              *)
LEMMA InitParsing ==
  ASSUME Registers, Init
  PROVE  Parsing
<1>1. /\ received = 0 /\ rest = <<>> /\ failed = FALSE /\ out = <<>>
      /\ framebuffer = <<>> /\ toRead = 0 /\ header = <<>>
  BY DEF Init
<1>2. sent \in Seq(Message) /\ Len(sent) \in Nat /\ 0 \in 0 .. Len(sent)
  <2>1. sent \in Seq(Message)
    BY DEF Registers
  <2> QED
    BY <2>1, LenProperties
<1>3. Len(rest) = 0 /\ Len(framebuffer) = 0 /\ Len(out) = 0 /\ out \in Seq(Deliveries)
  BY <1>1, EmptySeq
<1>4. Handled = 0 /\ Start(sent, 0) = 0
  <2>1. Start(sent, 0) = 0
    BY <1>2, Layout
  <2>2. received - Len(rest) = 0
    <3>1. received = 0 /\ Len(rest) = 0
      BY <1>1, <1>3
    <3> QED
      BY ONLY <3>1
  <2> QED
    BY <2>1, <2>2 DEF Handled
<1>5. InFrame(0)
  BY <1>1, <1>3, <1>4 DEF InFrame
<1>6. CASE Len(sent) = 0
  <2>1. After(0)
    BY <1>1, <1>2, <1>3, <1>4, <1>5, <1>6 DEF After
  <2> QED
    BY <1>1, <1>2, <2>1 DEF Parsing
<1>7. CASE Len(sent) # 0
  <2>1. PICK m : m = sent[0 + 1]
    OBVIOUS
  <2>2. 1 \in Parts(m) /\ PartStart(m, 1) = 0 /\ Held(m, 1) = <<>>
    BY DEF Parts, PartStart, Held
  <2>3. InPart(0, 1)
    <3>1. Start(sent, 0) + PartStart(m, 1) = 0
      BY <1>4, <2>2
    <3> QED
      BY <1>1, <1>5, <2>1, <2>2, <3>1 DEF InPart
  <2>4. 0 < Len(sent)
    BY <1>2, <1>7
  <2>5. After(0)
    BY <1>2, <1>3, <2>1, <2>2, <2>3, <2>4 DEF After
  <2> QED
    BY <1>1, <1>2, <2>5 DEF Parsing
<1> QED
  BY <1>6, <1>7

(* Every step keeps it in a part of the message whose turn it is.          *)
LEMMA StepParsing ==
  ASSUME Registers, Contiguous, Parsing, [Next]_vars
  PROVE  Parsing'
<1>1. ASSUME NEW n \in 1 .. MaxPiece, Put(n) PROVE Parsing'
  BY <1>1, PutParsing
<1>2. CASE HandleShort
  BY <1>2, ShortParsing
<1>3. CASE HandleFrame
  BY <1>3, FrameParsing
<1>4. CASE Consume
  BY <1>4, ConsumeParsing
<1>5. CASE UNCHANGED vars
  BY <1>5, SamePlace DEF vars, parser, Handled
<1> QED
  BY <1>1, <1>2, <1>3, <1>4, <1>5 DEF Next

(* The invariant: registers well typed, and on a stream that carries one   *)
(* message after another the parser is where it should be.                 *)
THEOREM ParserInvariant == Spec => []Inv
<1>1. Init => Inv
  BY InitRegisters, InitParsing DEF Inv
<1>2. Inv /\ [Next]_vars => Inv'
  <2> SUFFICES ASSUME Inv, [Next]_vars PROVE Inv'
    OBVIOUS
  <2>1. Registers'
    BY StepRegisters DEF Inv
  <2>2. Contiguous' => Contiguous
    BY StreamIsFixed DEF Fixed, Contiguous
  <2>3. Contiguous' => Parsing'
    BY <2>2, StepParsing DEF Inv
  <2> QED
    BY <2>1, <2>3 DEF Inv
<1> QED
  BY <1>1, <1>2, PTL DEF Spec

(* x bytes into a part are before the next message.                        *)
LEMMA Between ==
  ASSUME NEW a \in Nat, NEW b \in Nat, NEW f \in Nat, NEW l \in Nat, NEW next \in Nat,
         NEW x \in Nat, x < f + l, a + b + f + l <= next
  PROVE  a <= a + b + x /\ a + b + x < next /\ (a + b + x = a => b = 0 /\ x = 0)
  OBVIOUS

(* What was consumed is between the end of the message delivered last and  *)
(* that of the next, and at the first of the two nothing is left of it.    *)
LEMMA WhereItIs ==
  ASSUME Registers, Contiguous, ~failed, NEW k \in 0 .. Len(sent), After(k)
  PROVE  /\ Start(sent, k) <= Handled
         /\ k < Len(sent) => Handled < Start(sent, k + 1)
         /\ Handled = Start(sent, k) => framebuffer = <<>> /\ toRead = 0 /\ header = <<>>
<1>1. sent \in Seq(Message) /\ Len(sent) \in Nat
  BY LenProperties DEF Registers
<1>2. /\ FrameSize \in Nat \ {0} /\ Len(framebuffer) < FrameSize
      /\ Len(framebuffer) \in Nat /\ Len(bb) \in Nat /\ toRead \in Nat
      /\ framebuffer \in Seq(Byte)
  BY LenProperties, SizesAssumption DEF Registers
<1>3. Start(sent, k) \in Nat
  BY <1>1, Layout
<1>4. Len(framebuffer) = 0 => framebuffer = <<>>
  BY <1>2, EmptySeq
<1>5. CASE k = Len(sent) /\ header = <<>> /\ InFrame(Start(sent, k))
  BY <1>2, <1>3, <1>4, <1>5 DEF InFrame
<1>6. CASE k < Len(sent) /\ \E p \in Parts(sent[k + 1]) : InPart(k, p)
  <2>1. PICK m : m = sent[k + 1]
    OBVIOUS
  <2>2. PICK p \in Parts(m) : InPart(k, p)
    BY <1>6, <2>1
  <2>3. PICK base : base = Start(sent, k) + PartStart(m, p)
    OBVIOUS
  <2>4. m \in Message /\ base \in Nat /\ PartLength(m, p) \in Nat \ {0} /\ p \in {1, 2}
    BY <1>1, <1>6, <2>1, <2>3, PartLayout
  <2>5. base + FrameSize + PartLength(m, p) <= Start(sent, k + 1)
    BY <1>1, <1>6, <2>1, <2>3, PartLayout
  <2>6. Start(sent, k + 1) \in Nat
    <3>1. k + 1 \in 0 .. Len(sent)
      BY <1>1, <1>6
    <3> QED
      BY <1>1, <3>1, Layout
  <2>7. PartStart(m, p) \in Nat /\ (p = 2 => PartStart(m, p) > 0)
    <3>1. m.header \in Nat
      BY <2>4 DEF Message
    <3> QED
      BY <1>2, <2>4, <3>1 DEF PartStart
  <2>8. header = Held(m, p) /\ (InFrame(base) \/ InBody(base, m, p))
    BY <2>1, <2>2, <2>3 DEF InPart
  <2>9. PICK a \in Nat, b \in Nat, l \in Nat, next \in Nat :
           /\ a = Start(sent, k) /\ b = PartStart(m, p) /\ l = PartLength(m, p)
           /\ next = Start(sent, k + 1)
    BY <1>3, <2>4, <2>6, <2>7
  <2>10. FrameSize \in Nat /\ base = a + b /\ a + b + FrameSize + l <= next
    BY <1>2, <2>3, <2>5, <2>9
  <2>11. ASSUME NEW x \in Nat, x < FrameSize + l
         PROVE  a <= a + b + x /\ a + b + x < next /\ (a + b + x = a => b = 0 /\ x = 0)
    BY ONLY <2>10, <2>11, Between
  <2>12. CASE InFrame(base)
    <3>1. Handled = base + Len(framebuffer) /\ toRead = 0
      BY <2>12 DEF InFrame
    <3>2. Len(framebuffer) < FrameSize + l /\ Len(framebuffer) \in Nat
      <4>1. l \in Nat
        OBVIOUS
      <4> QED
        BY ONLY <1>2, <4>1
    <3>3. /\ Start(sent, k) <= Handled /\ Handled < Start(sent, k + 1)
          /\ Handled = Start(sent, k) => PartStart(m, p) = 0 /\ Len(framebuffer) = 0
      BY <2>9, <2>10, <2>11, <3>1, <3>2
    <3>4. PartStart(m, p) = 0 => header = <<>>
      BY <2>4, <2>7, <2>8 DEF Held
    <3> QED
      BY <1>4, <3>1, <3>3, <3>4
  <2>13. CASE InBody(base, m, p)
    <3>1. /\ Handled = base + FrameSize + Len(bb) /\ toRead > 0
          /\ Len(bb) + toRead = PartLength(m, p)
      BY <2>13 DEF InBody
    <3>2. PICK x \in Nat : x = FrameSize + Len(bb)
      BY <1>2
    <3>3. x < FrameSize + l /\ x > 0
      <4>1. Len(bb) + toRead = l /\ l \in Nat /\ toRead > 0
        BY <2>9, <3>1
      <4>2. Len(bb) < l
        BY ONLY <1>2, <4>1
      <4> QED
        BY ONLY <1>2, <3>2, <4>1, <4>2
    <3>4. Handled = base + x
      <4>1. Handled = base + (FrameSize + Len(bb))
        BY ONLY <1>2, <2>4, <3>1
      <4> QED
        BY <3>2, <4>1
    <3>5. Start(sent, k) < Handled /\ Handled < Start(sent, k + 1)
      <4>1. a <= a + b + x /\ a + b + x < next /\ (a + b + x = a => b = 0 /\ x = 0)
        BY <2>11, <3>3
      <4>2. a < a + b + x
        BY ONLY <3>3, <4>1
      <4> QED
        BY <2>9, <2>10, <3>4, <4>1, <4>2
    <3>6. Handled \in Nat
      BY HandledType
    <3> QED
      BY <1>3, <3>5, <3>6
  <2> QED
    BY <2>8, <2>12, <2>13
<1> QED
  BY <1>5, <1>6 DEF After

(* The messages that end before what was consumed are the first k, and no  *)
(* other ends just there.                                                  *)
LEMMA Consumption ==
  ASSUME Registers, Contiguous, ~failed, NEW k \in 0 .. Len(sent), After(k),
         NEW j \in 0 .. Len(sent)
  PROVE  /\ Start(sent, j) <= Handled <=> j <= k
         /\ Start(sent, j) = Handled => j = k
<1>1. sent \in Seq(Message) /\ Len(sent) \in Nat
  BY LenProperties DEF Registers
<1>2. Start(sent, k) \in Nat /\ Start(sent, j) \in Nat /\ Handled \in Nat
  BY <1>1, Layout, HandledType
<1>3. Start(sent, k) <= Handled
  BY WhereItIs
<1>4. CASE j = k
  BY <1>1, <1>3, <1>4
<1>5. CASE j < k
  <2>1. Start(sent, j) < Start(sent, k)
    BY <1>1, <1>5, Layout
  <2> QED
    BY <1>2, <1>3, <1>5, <2>1
<1>6. CASE k < j
  <2>1. k + 1 \in 0 .. Len(sent) /\ k < Len(sent) /\ (k + 1 = j \/ k + 1 < j)
    BY <1>1, <1>6
  <2>2. Start(sent, k + 1) \in Nat
    BY <1>1, <2>1, Layout
  <2>3. Start(sent, k + 1) <= Start(sent, j)
    <3>1. CASE k + 1 = j
      BY <1>2, <3>1
    <3>2. CASE k + 1 < j
      <4>1. Start(sent, k + 1) < Start(sent, j)
        BY <1>1, <2>1, <3>2, Layout
      <4> QED
        BY <1>2, <2>2, <4>1
    <3> QED
      BY <2>1, <3>1, <3>2
  <2>4. Handled < Start(sent, k + 1)
    BY <2>1, WhereItIs
  <2>5. ~(Start(sent, j) <= Handled) /\ Start(sent, j) # Handled
    BY ONLY <1>2, <2>2, <2>3, <2>4
  <2> QED
    BY <1>6, <2>5
<1> QED
  BY <1>1, <1>4, <1>5, <1>6

(* What comes out is what arrived, however the bytes were cut into pieces: *)
(* exactly the messages whose last byte was consumed, in order, each once, *)
(* with its own header and its own payload.                                *)
THEOREM WhatArrivedIsDelivered == Spec => []DeliversWhatArrived
<1>1. Inv => DeliversWhatArrived
  <2> SUFFICES ASSUME Inv, Contiguous
               PROVE  /\ Len(out) <= Len(sent)
                      /\ \A i \in DOMAIN out : out[i] = Expected(sent[i])
                      /\ \A i \in DOMAIN sent : Arrived(i) <=> i <= Len(out)
    BY DEF DeliversWhatArrived
  <2>1. PICK k \in 0 .. Len(sent) : After(k)
    BY DEF Inv, Parsing
  <2>2. /\ out \in Seq(Deliveries) /\ Len(out) = k
        /\ \A i \in 1 .. k : out[i] = Expected(sent[i])
    BY <2>1 DEF After
  <2>3. DOMAIN out = 1 .. k /\ DOMAIN sent = 1 .. Len(sent) /\ Len(sent) \in Nat
    BY <2>2, LenProperties DEF Inv, Registers
  <2>4. ASSUME NEW i \in DOMAIN sent PROVE Arrived(i) <=> i <= k
    <3>1. i \in 0 .. Len(sent)
      BY <2>3
    <3>2. Start(sent, i) <= Handled <=> i <= k
      BY <2>1, <3>1, Consumption DEF Inv, Parsing
    <3> QED
      BY <3>2 DEF Arrived, Start
  <2> QED
    BY <2>2, <2>3, <2>4
<1> QED
  BY <1>1, ParserInvariant, PTL

(* put() never raises on such a stream: the parser always finds the type   *)
(* of a frame where it decodes one, and a whole header where it needs one. *)
THEOREM PutNeverRaises == Spec => []NeverRaises
<1>1. Inv => NeverRaises
  BY DEF Inv, Parsing, NeverRaises
<1> QED
  BY <1>1, ParserInvariant, PTL

(* Between two messages nothing of the first is left for the second to     *)
(* pick up.                                                                *)
THEOREM NothingIsLeftBetween == Spec => []CleanAtBoundary
<1>1. Inv => CleanAtBoundary
  <2> SUFFICES ASSUME Inv, Contiguous, AtBoundary
               PROVE  framebuffer = <<>> /\ toRead = 0 /\ bb = <<>> /\ header = <<>>
    BY DEF CleanAtBoundary
  <2>1. PICK k \in 0 .. Len(sent) : After(k)
    BY DEF Inv, Parsing
  <2>2. PICK j \in 0 .. Len(sent) : Start(sent, j) = Handled
    BY DEF AtBoundary, Start
  <2>3. Registers /\ ~failed
    BY DEF Inv, Parsing
  <2>4. j = k
    BY <2>1, <2>2, <2>3, Consumption
  <2>5. framebuffer = <<>> /\ toRead = 0 /\ header = <<>>
    BY <2>1, <2>2, <2>3, <2>4, WhereItIs
  <2> QED
    BY <2>3, <2>5 DEF Registers
<1> QED
  BY <1>1, ParserInvariant, PTL
=============================================================================
