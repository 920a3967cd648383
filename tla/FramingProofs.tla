--------------------------- MODULE FramingProofs ---------------------------
(***************************************************************************)
(* Lemmas about Push: what the parser holds after a byte, and when a frame *)
(* ends.                                                                   *)
(***************************************************************************)
EXTENDS Framing, SequenceTheorems, TLAPS

\* The length a header declares is a number.
LEMMA Declared ==
  ASSUME NEW t \in Seq(Octets), Len(t) >= 3
  PROVE  DeclaredLen(t) \in Nat
<1>1. 3 \in 1 .. Len(t)
  OBVIOUS
<1>2. t[3] \in Octets
  BY <1>1, ElementOfSeq
<1>3. QED
  BY <1>2, FramingAssumption DEF DeclaredLen

\* A partial frame leaves room for the next byte.
LEMMA RoomForByte ==
  ASSUME NEW h, IsPartial(h)
  PROVE  h \in Seq(Octets) /\ Len(h) \in Nat /\ Len(h) < MaxFrame /\ MaxPayload \in Nat
<1>1. h \in Seq(Octets) /\ Len(h) \in Nat /\ MaxPayload \in Nat
  BY FramingAssumption DEF IsPartial
<1>2. CASE Len(h) >= 5
  <2>1. DeclaredLen(h) \in Nat
    BY <1>1, <1>2, Declared
  <2>2. DeclaredLen(h) <= MaxPayload /\ Len(h) < 5 + DeclaredLen(h)
    BY <1>2 DEF IsPartial, HeaderLen
  <2>3. QED
    BY <1>1, <2>1, <2>2 DEF MaxFrame, HeaderLen
<1>3. CASE Len(h) < 5
  BY <1>1, <1>3 DEF MaxFrame, HeaderLen
<1>4. QED
  BY <1>1, <1>2, <1>3

\* What Push makes of a byte, given that the parser holds a partial frame.
LEMMA PushKeepsPartial ==
  ASSUME NEW h, IsPartial(h), NEW b \in Octets
  PROVE  /\ IsPartial(Push(h, b).held)
         /\ Push(h, b).result \in Errors \cup {"incomplete", "request"}
         /\ Push(h, b).result # "FrameTooLong"
         /\ Push(h, b).result = "incomplete" => Push(h, b).held = Append(h, b)
         /\ Push(h, b).result # "incomplete" => Push(h, b).held = <<>>
         /\ Push(h, b).result = "request" =>
              Push(h, b).frame = Append(h, b) /\ IsFrame(Append(h, b))
<1> DEFINE frame == Append(h, b)
           n == Len(frame)
           declared == DeclaredLen(frame)
<1>1. /\ h \in Seq(Octets) /\ Len(h) \in Nat /\ MaxPayload \in Nat /\ Len(h) # MaxFrame
      /\ frame \in Seq(Octets) /\ n = Len(h) + 1
      /\ \A i \in 1 .. Len(h) : frame[i] = h[i]
      /\ h = <<>> => frame[1] = b
      /\ h # <<>> => Len(h) >= 1
  BY RoomForByte DEF MaxFrame, HeaderLen
<1>2. ASSUME n >= 5 PROVE declared \in Nat
  <2>1. Len(frame) >= 3
    BY <1>1, <1>2
  <2>2. QED
    BY <1>1, <2>1, Declared, Zenon
<1>3. IsPartial(<<>>)
  BY DEF IsPartial, HeaderLen
<1>4. CASE h = <<>> /\ b # Magic
  <2>1. Push(h, b) = [held |-> <<>>, result |-> "BadMagic"]
    BY <1>4 DEF Push, Emptied
  <2>2. Push(h, b).held = <<>> /\ Push(h, b).result = "BadMagic"
    BY <2>1
  <2>3. QED
    BY <1>3, <2>2 DEF Errors
<1>5. CASE ~(h = <<>> /\ b # Magic)
  <2>1. frame[1] = Magic
    BY <1>1, <1>5 DEF IsPartial
  <2>2. CASE n = 5 /\ declared > MaxPayload
    <3>1. Push(h, b) = [held |-> <<>>, result |-> "BadLength"]
      BY <1>1, <1>5, <2>2 DEF Push, Emptied, HeaderLen
    <3>2. Push(h, b).held = <<>> /\ Push(h, b).result = "BadLength"
      BY <3>1
    <3>3. QED
      BY <1>3, <3>2 DEF Errors
  <2>3. CASE ~(n = 5 /\ declared > MaxPayload)
    <3>1. n >= 5 => declared <= MaxPayload /\ n <= 5 + declared
      <4>1. CASE n > 5
        <5>1. Len(h) >= 5
          BY <1>1, <4>1
        <5>2. DeclaredLen(h) <= MaxPayload /\ Len(h) < 5 + DeclaredLen(h)
          BY <5>1 DEF IsPartial, HeaderLen
        <5>3. declared = DeclaredLen(h)
          BY <1>1, <5>1 DEF DeclaredLen
        <5>4. QED
          BY <1>1, <1>2, <4>1, <5>2, <5>3
      <4>2. CASE n = 5
        BY <1>1, <1>2, <2>3, <4>2
      <4>3. QED
        BY <1>1, <4>1, <4>2
    <3>2. CASE n >= 5 /\ n = 5 + declared
      <4>1. Push(h, b) = [held |-> <<>>, result |-> "request", frame |-> frame]
        BY <1>1, <1>5, <2>3, <3>2 DEF Push, HeaderLen
      <4>2. IsFrame(frame)
        BY <2>1, <3>1, <3>2 DEF IsFrame, HeaderLen
      <4>3. QED
        BY <1>3, <4>1, <4>2
    <3>3. CASE ~(n >= 5 /\ n = 5 + declared)
      <4>1. IsPartial(frame)
        <5>1. n >= 5 => declared <= MaxPayload /\ n < 5 + declared
          BY <1>1, <1>2, <3>1, <3>3
        <5>2. QED
          BY <1>1, <2>1, <5>1 DEF IsPartial, HeaderLen
      <4>2. Push(h, b) = Kept(frame)
        BY <1>1, <1>5, <2>3, <3>3 DEF Push, HeaderLen
      <4>3. QED
        BY <4>1, <4>2 DEF Kept
    <3>4. QED
      BY <3>2, <3>3
  <2>4. QED
    BY <2>2, <2>3
<1>6. QED
  BY <1>4, <1>5

\* A frame ends with its last byte and not before.
LEMMA FrameEndsWhole ==
  ASSUME NEW h, IsPartial(h), NEW b \in Octets, IsFrame(Append(h, b))
  PROVE  Push(h, b).result = "request"
<1> DEFINE frame == Append(h, b)
           n == Len(frame)
<1>1. /\ h \in Seq(Octets) /\ Len(h) \in Nat /\ MaxPayload \in Nat /\ Len(h) # MaxFrame
      /\ frame \in Seq(Octets) /\ n = Len(h) + 1
      /\ h = <<>> => frame[1] = b
  BY RoomForByte DEF MaxFrame, HeaderLen
<1>2. /\ n >= 5 /\ n = 5 + DeclaredLen(frame) /\ DeclaredLen(frame) <= MaxPayload
      /\ frame[1] = Magic
  BY DEF IsFrame, HeaderLen
<1>3. DeclaredLen(frame) \in Nat
  <2>1. Len(frame) >= 3
    BY <1>1, <1>2
  <2>2. QED
    BY <1>1, <2>1, Declared, Zenon
<1>4. /\ ~(h = <<>> /\ b # Magic)
      /\ ~(n = 5 /\ DeclaredLen(frame) > MaxPayload)
  BY <1>1, <1>2, <1>3
<1>5. Push(h, b) = [held |-> <<>>, result |-> "request", frame |-> frame]
  BY <1>1, <1>2, <1>4 DEF Push, HeaderLen
<1>6. QED
  BY <1>5

\* The beginning of a frame is kept.
LEMMA PartialGoesOn ==
  ASSUME NEW h, IsPartial(h), NEW b \in Octets, IsPartial(Append(h, b))
  PROVE  Push(h, b).result = "incomplete"
<1> DEFINE a == Append(h, b)
           n == Len(a)
<1>1. /\ h \in Seq(Octets) /\ Len(h) \in Nat /\ MaxPayload \in Nat /\ Len(h) # MaxFrame
      /\ a \in Seq(Octets) /\ n = Len(h) + 1 /\ a # <<>>
      /\ h = <<>> => a[1] = b
  BY RoomForByte DEF MaxFrame, HeaderLen
<1>2. a[1] = Magic /\ (n >= 5 => DeclaredLen(a) <= MaxPayload /\ n < 5 + DeclaredLen(a))
  BY <1>1 DEF IsPartial, HeaderLen
<1>3. ASSUME n >= 5 PROVE DeclaredLen(a) \in Nat
  <2>1. Len(a) >= 3
    BY <1>1, <1>3
  <2>2. QED
    BY <1>1, <2>1, Declared, Zenon
<1>4. /\ ~(h = <<>> /\ b # Magic)
      /\ ~(n = 5 /\ DeclaredLen(a) > MaxPayload)
      /\ ~(n >= 5 /\ n = 5 + DeclaredLen(a))
  BY <1>1, <1>2, <1>3
<1>5. Push(h, b) = Kept(a)
  BY <1>1, <1>4 DEF Push, HeaderLen
<1>6. QED
  BY <1>5 DEF Kept

\* The beginning of something longer.
LEMMA Prefix ==
  ASSUME NEW t \in Seq(Octets), NEW n \in Nat, n < Len(t)
  PROVE  /\ SubSeq(t, 1, n) \in Seq(Octets)
         /\ Len(SubSeq(t, 1, n)) = n
         /\ \A i \in 1 .. n : SubSeq(t, 1, n)[i] = t[i]
         /\ Append(SubSeq(t, 1, n), t[n + 1]) = SubSeq(t, 1, n + 1)
         /\ SubSeq(t, 1, Len(t)) = t
         /\ t[n + 1] \in Octets
OBVIOUS

\* Four fields that fit make a frame (encode_response, and the host's packets),
\* and the request Parser::push makes of a frame has the fields that went in.
LEMMA EncodedIsFrame ==
  ASSUME NEW command \in Octets, NEW sequence \in Octets, NEW flags \in Octets,
         NEW payload \in Seq(Octets), Len(payload) <= MaxPayload
  PROVE  LET frame == Encoded(command, sequence, flags, payload)
         IN  /\ frame \in Seq(Octets) /\ IsFrame(frame)
             /\ Len(frame) \in Nat /\ Len(frame) >= 5
             /\ Decoded(frame) = [command |-> command, sequence |-> sequence,
                                  flags |-> flags, payload |-> payload]
<1> DEFINE h == <<Magic, command, Len(payload), sequence, flags>>
           f == h \o payload
<1>1. Len(payload) \in Nat
  OBVIOUS
<1>2. Encoded(command, sequence, flags, payload) = f
  BY DEF Encoded
<1>3. /\ Len(h) = 5 /\ h[1] = Magic /\ h[2] = command /\ h[3] = Len(payload)
      /\ h[4] = sequence /\ h[5] = flags
  OBVIOUS
<1>4. h \in Seq(Octets)
  <2>1. Magic \in Octets /\ Len(payload) \in 0 .. MaxPayload /\ 0 .. MaxPayload \subseteq Octets
    BY <1>1, FramingAssumption
  <2>2. Len(payload) \in Octets
    BY <2>1
  <2>3. QED
    BY <2>1, <2>2
<1> HIDE DEF h
<1>5. /\ f \in Seq(Octets) /\ Len(f) = 5 + Len(payload)
      /\ \A i \in 1 .. 5 + Len(payload) : f[i] = IF i <= 5 THEN h[i] ELSE payload[i - 5]
  <2>1. /\ h \o payload \in Seq(Octets) /\ Len(h \o payload) = Len(h) + Len(payload)
        /\ \A i \in 1 .. Len(h) + Len(payload) :
             (h \o payload)[i] = IF i <= Len(h) THEN h[i] ELSE payload[i - Len(h)]
    BY <1>4, ConcatProperties
  <2>2. QED
    BY <1>3, <2>1
<1> HIDE DEF f
<1>6. f[1] = Magic /\ f[2] = command /\ f[3] = Len(payload) /\ f[4] = sequence /\ f[5] = flags
  BY <1>1, <1>3, <1>5
<1>7. SubSeq(f, 6, Len(f)) = payload
  <2> DEFINE q == SubSeq(f, 6, Len(f))
  <2>1. q \in Seq(Octets) /\ Len(q) = Len(payload)
        /\ \A i \in 1 .. Len(payload) : q[i] = f[5 + i]
    BY <1>1, <1>5
  <2>2. \A i \in 1 .. Len(payload) : q[i] = payload[i]
    <3> HIDE DEF q
    <3>1. QED
      BY <1>1, <1>5, <2>1
  <2> HIDE DEF q
  <2>3. q = payload
    BY <2>1, <2>2, SeqEqual
  <2>4. QED
    BY <2>3 DEF q
<1>8. Decoded(f) = [command |-> command, sequence |-> sequence, flags |-> flags,
                    payload |-> payload]
  <2>1. HeaderLen + 1 = 6
    BY DEF HeaderLen
  <2>2. Decoded(f) = [command |-> f[2], sequence |-> f[4], flags |-> f[5],
                      payload |-> SubSeq(f, 6, Len(f))]
    BY <2>1 DEF Decoded
  <2>3. QED
    BY <1>6, <1>7, <2>2
<1>9. IsFrame(f)
  BY <1>1, <1>5, <1>6 DEF IsFrame, HeaderLen, DeclaredLen
<1>10. Len(f) \in Nat /\ Len(f) >= 5
  BY <1>1, <1>5
<1>11. QED
  BY <1>2, <1>5, <1>8, <1>9, <1>10
=============================================================================
