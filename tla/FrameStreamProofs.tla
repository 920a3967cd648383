------------------------- MODULE FrameStreamProofs -------------------------
(***************************************************************************)
(* What the parser does with a stream of frames, broken-off frames, bad    *)
(* lengths and noise, for all headers and contents, with the magic byte    *)
(* anywhere in them.                                                       *)
(***************************************************************************)
EXTENDS FrameStream, FramingProofs

-----------------------------------------------------------------------------
(* The transmissions.                                                      *)

\* A nonempty sequence of bytes.
Bytes(t) == t \in Seq(Octets) /\ Len(t) >= 1

\* A header that declares more than a parser takes.
Oversized(t) == Len(t) >= HeaderLen /\ DeclaredLen(t) \in Nat /\ DeclaredLen(t) > MaxPayload

\* The constants are numbers and bytes.
LEMMA Numbers ==
  /\ Octets \subseteq Nat /\ MaxPayload \in Nat /\ Magic \in Octets
  /\ MaxFrame = 5 + MaxPayload /\ Silence = 4 + MaxPayload /\ Silence \in Nat
BY FramingAssumption DEF MaxFrame, HeaderLen, Silence

\* The fields of a header are bytes, and contents are sequences of bytes.
LEMMA PartShape ==
  /\ \A h \in Headers : h[1] \in Octets /\ h[2] \in Octets /\ h[3] \in Octets
  /\ \A p \in Contents : p \in Seq(Octets) /\ Len(p) \in Nat
BY StreamAssumption

\* What is shorter than the beginning of a frame, or than a frame, is the
\* beginning of one.
LEMMA BeginningIsPartial ==
  ASSUME NEW t \in Seq(Octets), IsPartial(t) \/ IsFrame(t), NEW n \in Nat, n < Len(t)
  PROVE  IsPartial(SubSeq(t, 1, n))
<1> DEFINE s == SubSeq(t, 1, n)
<1>1. s \in Seq(Octets) /\ Len(s) = n /\ \A i \in 1 .. n : s[i] = t[i]
  BY Prefix
<1>2. t[1] = Magic
  BY DEF IsPartial, IsFrame
<1>3. s # <<>> => s[1] = Magic
  BY <1>1, <1>2
<1>4. ASSUME n >= 5
      PROVE  DeclaredLen(s) <= MaxPayload /\ n < 5 + DeclaredLen(s)
  <2>1. DeclaredLen(s) = DeclaredLen(t)
    BY <1>1, <1>4 DEF DeclaredLen
  <2>2. Len(t) \in Nat /\ Len(t) >= 5
    BY <1>4
  <2>3. DeclaredLen(t) \in Nat
    BY <2>2, Declared
  <2>4. DeclaredLen(t) <= MaxPayload /\ Len(t) <= 5 + DeclaredLen(t)
    BY <2>2, <2>3 DEF IsPartial, IsFrame, HeaderLen
  <2>5. QED
    BY <2>1, <2>2, <2>3, <2>4
<1>5. QED
  BY <1>1, <1>3, <1>4 DEF IsPartial, HeaderLen

\* A frame is a whole frame of bytes.
LEMMA FrameShape ==
  ASSUME NEW t \in Frames
  PROVE  Bytes(t) /\ IsFrame(t)
<1>1. PICK h \in Headers, p \in {p \in Contents : Len(p) <= MaxPayload} :
        t = Encoded(h[1], h[2], h[3], p)
  BY DEF Frames
<1>2. /\ h[1] \in Octets /\ h[2] \in Octets /\ h[3] \in Octets
      /\ p \in Seq(Octets) /\ Len(p) <= MaxPayload
  BY <1>1, PartShape
<1>3. t \in Seq(Octets) /\ IsFrame(t) /\ Len(t) \in Nat /\ Len(t) >= 5
  BY <1>1, <1>2, EncodedIsFrame
<1>4. QED
  BY <1>3 DEF Bytes

\* What follows a header leaves its bytes where they are.
LEMMA HeaderFirst ==
  ASSUME NEW header \in Seq(Octets), Len(header) = 5, NEW p \in Seq(Octets)
  PROVE  /\ header \o p \in Seq(Octets) /\ Len(header \o p) = 5 + Len(p)
         /\ (header \o p)[1] = header[1] /\ (header \o p)[3] = header[3]
<1>1. Len(p) \in Nat
  OBVIOUS
<1> DEFINE t == header \o p
<1>2. /\ t \in Seq(Octets) /\ Len(t) = Len(header) + Len(p)
      /\ \A i \in 1 .. Len(header) + Len(p) :
           t[i] = IF i <= Len(header) THEN header[i] ELSE p[i - Len(header)]
  BY ConcatProperties
<1> HIDE DEF t
<1>3. QED
  <2>1. 1 \in 1 .. 5 + Len(p) /\ 3 \in 1 .. 5 + Len(p)
    BY <1>1
  <2>2. t[1] = header[1] /\ t[3] = header[3]
    BY <1>2, <2>1
  <2>3. QED
    BY <1>2, <2>2 DEF t

\* A header with a bad length is complete and declares more than a frame holds.
LEMMA TooLongShape ==
  ASSUME NEW t \in TooLong
  PROVE  Bytes(t) /\ Oversized(t) /\ t[1] = Magic
<1> DEFINE Longer == {n \in Octets : n > MaxPayload}
           Long(h, n, p) == <<Magic, h[1], n, h[2], h[3]>> \o p
<1>a. TooLong = {Long(h, n, p) : h \in Headers, n \in Longer, p \in Contents}
  BY DEF TooLong
<1>b. \A h, n, p : Long(h, n, p) = <<Magic, h[1], n, h[2], h[3]>> \o p
  OBVIOUS
<1>c. \A n \in Longer : n \in Octets /\ n > MaxPayload
  OBVIOUS
<1> HIDE DEF Long, Longer
<1>1. PICK h \in Headers, n \in Longer, p \in Contents : t = Long(h, n, p)
  BY <1>a
<1>2. n \in Octets /\ n \in Nat /\ n > MaxPayload
  BY <1>c, Numbers
<1> DEFINE header == <<Magic, h[1], n, h[2], h[3]>>
<1>3. /\ header \in Seq(Octets) /\ Len(header) = 5 /\ header[1] = Magic /\ header[3] = n
      /\ p \in Seq(Octets) /\ Len(p) \in Nat
  <2>1. Magic \in Octets /\ h[1] \in Octets /\ h[2] \in Octets /\ h[3] \in Octets
    BY Numbers, PartShape
  <2>2. header \in Seq(Octets) /\ Len(header) = 5 /\ header[1] = Magic /\ header[3] = n
    BY <1>2, <2>1
  <2>3. QED
    BY <2>2, PartShape
<1>4. t = header \o p
  BY <1>1, <1>b
<1> HIDE DEF header
<1>5. t \in Seq(Octets) /\ Len(t) = 5 + Len(p) /\ t[1] = Magic /\ t[3] = n
  <2>1. /\ header \o p \in Seq(Octets) /\ Len(header \o p) = 5 + Len(p)
        /\ (header \o p)[1] = header[1] /\ (header \o p)[3] = header[3]
    BY <1>3, HeaderFirst
  <2>2. QED
    BY <1>3, <1>4, <2>1
<1>6. QED
  BY <1>2, <1>3, <1>5 DEF Bytes, Oversized, DeclaredLen, HeaderLen

\* What is broken off is the beginning of a frame.
LEMMA BrokenOffShape ==
  ASSUME NEW t \in BrokenOff
  PROVE  Bytes(t) /\ IsPartial(t)
<1>1. \/ \E frame \in Frames : \E n \in 1 .. Len(frame) - 1 : t = SubSeq(frame, 1, n)
      \/ \E frame \in TooLong : \E n \in 1 .. HeaderLen - 1 : t = SubSeq(frame, 1, n)
  BY DEF BrokenOff
<1>2. CASE \E frame \in Frames : \E n \in 1 .. Len(frame) - 1 : t = SubSeq(frame, 1, n)
  <2>1. PICK frame \in Frames : \E n \in 1 .. Len(frame) - 1 : t = SubSeq(frame, 1, n)
    BY <1>2
  <2>2. PICK n \in 1 .. Len(frame) - 1 : t = SubSeq(frame, 1, n)
    BY <2>1
  <2>3. frame \in Seq(Octets) /\ IsFrame(frame) /\ n \in Nat /\ n >= 1 /\ n < Len(frame)
    BY FrameShape DEF Bytes
  <2>4. t \in Seq(Octets) /\ Len(t) = n
    BY <2>2, <2>3, Prefix
  <2>5. IsPartial(t)
    BY <2>2, <2>3, BeginningIsPartial
  <2>6. QED
    BY <2>3, <2>4, <2>5 DEF Bytes
<1>3. CASE \E frame \in TooLong : \E n \in 1 .. HeaderLen - 1 : t = SubSeq(frame, 1, n)
  <2>1. PICK frame \in TooLong : \E n \in 1 .. HeaderLen - 1 : t = SubSeq(frame, 1, n)
    BY <1>3
  <2>2. PICK n \in 1 .. HeaderLen - 1 : t = SubSeq(frame, 1, n)
    BY <2>1
  <2>3. /\ frame \in Seq(Octets) /\ Len(frame) >= 5 /\ frame[1] = Magic
        /\ n \in Nat /\ n >= 1 /\ n < 5 /\ n < Len(frame)
    BY TooLongShape DEF Bytes, Oversized, HeaderLen
  <2>4. t \in Seq(Octets) /\ Len(t) = n /\ t[1] = frame[1]
    BY <2>2, <2>3, Prefix
  <2>5. QED
    BY <2>3, <2>4 DEF Bytes, IsPartial, HeaderLen
<1>4. QED
  BY <1>1, <1>2, <1>3

\* Noise starts no frame.
LEMMA NoiseShape ==
  ASSUME NEW t \in Noise
  PROVE  Bytes(t) /\ \A i \in 1 .. Len(t) : t[i] # Magic
<1>1. t \in Contents /\ t # <<>> /\ \A i \in 1 .. Len(t) : t[i] # Magic
  BY DEF Noise
<1>2. t \in Seq(Octets)
  BY <1>1, PartShape
<1>3. QED
  BY <1>1, <1>2 DEF Bytes

\* Every transmission is a nonempty sequence of bytes.
LEMMA TransmissionShape ==
  ASSUME NEW t \in Transmissions
  PROVE  t # <<>> /\ t \in Seq(Octets) /\ Len(t) \in Nat /\ Len(t) >= 1
BY FrameShape, BrokenOffShape, TooLongShape, NoiseShape DEF Transmissions, Bytes

\* A frame ends a transmission, whatever the transmission is.
LEMMA FramesAreWhole ==
  ASSUME NEW t \in Transmissions, NEW n \in 1 .. Len(t), IsFrame(SubSeq(t, 1, n))
  PROVE  n = Len(t)
<1> DEFINE s == SubSeq(t, 1, n)
<1>2. t \in Seq(Octets) /\ Len(t) \in Nat /\ n \in Nat /\ n <= Len(t) /\ n >= 1
  BY TransmissionShape
<1>3. Len(s) = n /\ \A i \in 1 .. n : s[i] = t[i]
  BY <1>2
<1>4. n >= 5 /\ s[1] = Magic /\ s[3] <= MaxPayload /\ n = 5 + s[3]
  BY <1>3 DEF IsFrame, HeaderLen, DeclaredLen
<1>5. t[1] = Magic /\ t[3] <= MaxPayload /\ n = 5 + t[3] /\ Len(t) >= 5 /\ t[3] \in Nat
  <2>1. 1 \in 1 .. n /\ 3 \in 1 .. n
    BY <1>2, <1>4
  <2>2. s[1] = t[1] /\ s[3] = t[3]
    BY <1>3, <2>1
  <2>3. DeclaredLen(t) \in Nat
    BY <1>2, <1>4, Declared
  <2>4. QED
    BY <1>2, <1>4, <2>2, <2>3 DEF DeclaredLen
<1>6. CASE t \in Frames
  BY <1>5, <1>6, FrameShape DEF IsFrame, HeaderLen, DeclaredLen
<1>7. CASE t \in BrokenOff
  <2>1. IsPartial(t)
    BY <1>7, BrokenOffShape
  <2>2. Len(t) < 5 + t[3]
    BY <1>5, <2>1 DEF IsPartial, HeaderLen, DeclaredLen
  <2>3. QED
    BY <1>2, <1>5, <2>2
<1>8. CASE t \in TooLong
  <2>1. t[3] > MaxPayload
    BY <1>8, TooLongShape DEF Oversized, DeclaredLen
  <2>2. QED
    BY <1>5, <2>1, Numbers
<1>9. CASE t \in Noise
  <2>1. 1 \in 1 .. Len(t)
    BY <1>2
  <2>2. QED
    BY <1>5, <1>9, <2>1, NoiseShape
<1>10. QED
  BY <1>6, <1>7, <1>8, <1>9 DEF Transmissions

\* What leaves the parser in the middle of a frame is a frame
\* broken off.
LEMMA CutsArePartial ==
  ASSUME NEW t \in Transmissions, IsPartial(t)
  PROVE  t \in BrokenOff
<1>1. Len(t) >= 1 /\ Len(t) \in Nat /\ t \in Seq(Octets)
  BY TransmissionShape
<1>2. t[1] = Magic /\ (Len(t) >= 5 => DeclaredLen(t) <= MaxPayload /\ Len(t) < 5 + DeclaredLen(t))
  BY <1>1 DEF IsPartial, HeaderLen
<1>3. Len(t) >= 5 => DeclaredLen(t) \in Nat
  <2>1. SUFFICES ASSUME Len(t) >= 3 PROVE DeclaredLen(t) \in Nat
    BY <1>1
  <2>2. QED
    BY <1>1, <2>1, Declared
<1>4. t \notin Frames
  BY <1>1, <1>2, <1>3, FrameShape DEF IsFrame, HeaderLen
<1>5. t \notin TooLong
  BY <1>1, <1>2, <1>3, TooLongShape, Numbers DEF Oversized, HeaderLen
<1>6. t \notin Noise
  <2>1. 1 \in 1 .. Len(t)
    BY <1>1
  <2>2. QED
    BY <1>2, <2>1, NoiseShape
<1>7. QED
  BY <1>4, <1>5, <1>6 DEF Transmissions

-----------------------------------------------------------------------------
(* A parser in step with the host.                                         *)

\* What it holds after so many bytes of a transmission.
HeldOf(t, n) == IF IsPartial(SubSeq(t, 1, n)) THEN SubSeq(t, 1, n) ELSE <<>>

\* The magic bytes among the first n bytes are the first of all, or inside what
\* a parser that got the first takes for a frame.
OnTrack(t, n) == \A i \in 2 .. n : t[i] = Magic => IsPartial(SubSeq(t, 1, i - 1))

\* Magic bytes in what a parser waits for do not matter, whatever they are.
LEMMA StaysOnTrack ==
  ASSUME NEW t \in Transmissions, NEW n \in 0 .. Len(t)
  PROVE  /\ ~Misleading(t) => OnTrack(t, n)
         /\ t \in TooLong /\ n <= HeaderLen => OnTrack(t, n)
<1>1. t \in Seq(Octets) /\ Len(t) \in Nat
  BY TransmissionShape
<1>2. ASSUME IsPartial(t) \/ IsFrame(t) PROVE OnTrack(t, n)
  <2>1. ASSUME NEW i \in 2 .. n PROVE IsPartial(SubSeq(t, 1, i - 1))
    <3>1. i - 1 \in Nat /\ i - 1 < Len(t)
      BY <1>1
    <3>2. QED
      BY <1>1, <1>2, <3>1, BeginningIsPartial
  <2>2. QED
    BY <2>1 DEF OnTrack
<1>3. ASSUME t \in TooLong, NEW i \in 2 .. 5 PROVE IsPartial(SubSeq(t, 1, i - 1))
  <2>1. i - 1 \in Nat /\ i - 1 >= 1 /\ i - 1 < 5 /\ i - 1 < Len(t) /\ t[1] = Magic
    BY <1>1, <1>3, TooLongShape DEF Oversized, HeaderLen
  <2>2. /\ SubSeq(t, 1, i - 1) \in Seq(Octets) /\ Len(SubSeq(t, 1, i - 1)) = i - 1
        /\ SubSeq(t, 1, i - 1)[1] = Magic
    BY <1>1, <2>1, Prefix
  <2>3. QED
    BY <2>1, <2>2 DEF IsPartial, HeaderLen
<1>4. t \in TooLong /\ n <= HeaderLen => OnTrack(t, n)
  BY <1>3 DEF OnTrack, HeaderLen
<1>5. ASSUME ~Misleading(t), t \in TooLong PROVE OnTrack(t, n)
  <2>1. \A i \in 6 .. Len(t) : t[i] # Magic
    BY <1>5 DEF Misleading, HeaderLen
  <2>2. ASSUME NEW i \in 2 .. n, t[i] = Magic PROVE IsPartial(SubSeq(t, 1, i - 1))
    <3>1. i \in 2 .. 5
      BY <1>1, <2>1, <2>2
    <3>2. QED
      BY <1>3, <1>5, <3>1
  <2>3. QED
    BY <2>2 DEF OnTrack
<1>6. ASSUME t \in Noise PROVE OnTrack(t, n)
  BY <1>1, <1>6, NoiseShape DEF OnTrack
<1>7. ~Misleading(t) => OnTrack(t, n)
  BY <1>2, <1>5, <1>6, FrameShape, BrokenOffShape DEF Transmissions
<1>8. QED
  BY <1>4, <1>7

\* What is the beginning of a frame, or a frame, was one a byte ago.
LEMMA PartialBefore ==
  ASSUME NEW h \in Seq(Octets), NEW b \in Octets,
         IsPartial(Append(h, b)) \/ IsFrame(Append(h, b))
  PROVE  IsPartial(h)
<1> DEFINE a == Append(h, b)
<1>1. Len(h) \in Nat /\ a \in Seq(Octets) /\ Len(a) = Len(h) + 1 /\ a # <<>>
      /\ \A i \in 1 .. Len(h) : a[i] = h[i]
  OBVIOUS
<1>2. a[1] = Magic
  BY <1>1 DEF IsPartial, IsFrame
<1>3. h # <<>> => h[1] = Magic
  BY <1>1, <1>2
<1>4. ASSUME Len(h) >= 5
      PROVE  DeclaredLen(h) <= MaxPayload /\ Len(h) < 5 + DeclaredLen(h)
  <2>1. DeclaredLen(a) = DeclaredLen(h)
    BY <1>1, <1>4 DEF DeclaredLen
  <2>2. DeclaredLen(h) \in Nat
    <3>1. Len(h) >= 3
      BY <1>1, <1>4
    <3>2. QED
      BY <3>1, Declared, Zenon
  <2>3. DeclaredLen(a) <= MaxPayload /\ Len(a) <= 5 + DeclaredLen(a)
    BY <1>1, <1>4, <2>1, <2>2 DEF IsPartial, IsFrame, HeaderLen
  <2>4. QED
    BY <1>1, <2>1, <2>2, <2>3
<1>5. QED
  BY <1>3, <1>4 DEF IsPartial, HeaderLen

\* One byte of a transmission in step.
LEMMA ByteInStep ==
  ASSUME NEW t \in Seq(Octets), NEW n \in Nat, n < Len(t), OnTrack(t, n + 1)
  PROVE  /\ IsPartial(HeldOf(t, n))
         /\ t[n + 1] \in Octets
         /\ Push(HeldOf(t, n), t[n + 1]).held = HeldOf(t, n + 1)
         /\ Push(HeldOf(t, n), t[n + 1]).result = "request" <=> IsFrame(SubSeq(t, 1, n + 1))
         /\ IsFrame(SubSeq(t, 1, n + 1)) =>
              Append(HeldOf(t, n), t[n + 1]) = SubSeq(t, 1, n + 1)
<1> DEFINE s == SubSeq(t, 1, n)
           b == t[n + 1]
           a == SubSeq(t, 1, n + 1)
<1>1. Len(t) \in Nat
  OBVIOUS
<1>2. s \in Seq(Octets) /\ Len(s) = n /\ b \in Octets /\ a = Append(s, b)
  BY <1>1, Prefix
<1>3. IsPartial(<<>>)
  BY DEF IsPartial, HeaderLen
<1> HIDE DEF s, b, a
<1>4. CASE IsPartial(s)
  <2>1. HeldOf(t, n) = s
    BY <1>4 DEF HeldOf, s
  <2>2. CASE IsPartial(a)
    <3>1. Push(s, b).result = "incomplete" /\ Push(s, b).held = a
      BY <1>2, <1>4, <2>2, PartialGoesOn, PushKeepsPartial
    <3>2. ~IsFrame(a)
      BY <2>2 DEF IsPartial, IsFrame
    <3>3. HeldOf(t, n + 1) = a
      BY <2>2 DEF HeldOf, a
    <3>4. QED
      BY <1>2, <1>4, <2>1, <3>1, <3>2, <3>3 DEF a, b
  <2>3. CASE ~IsPartial(a)
    <3>1. Push(s, b).result # "incomplete" /\ Push(s, b).held = <<>>
      BY <1>2, <1>4, <2>3, PushKeepsPartial
    <3>2. Push(s, b).result = "request" <=> IsFrame(a)
      BY <1>2, <1>4, PushKeepsPartial, FrameEndsWhole
    <3>3. HeldOf(t, n + 1) = <<>>
      BY <2>3 DEF HeldOf, a
    <3>4. QED
      BY <1>2, <1>4, <2>1, <3>1, <3>2, <3>3 DEF a, b
  <2>4. QED
    BY <2>2, <2>3
<1>5. CASE ~IsPartial(s)
  <2>1. HeldOf(t, n) = <<>>
    BY <1>5 DEF HeldOf, s
  <2>2. n # 0
    BY <1>2, <1>3, <1>5
  <2>3. b # Magic
    <3>1. n + 1 \in 2 .. n + 1 /\ (n + 1) - 1 = n
      BY <2>2
    <3>2. QED
      BY <1>5, <3>1 DEF OnTrack, b, s
  <2>4. Push(<<>>, b) = [held |-> <<>>, result |-> "BadMagic"]
    BY <2>3 DEF Push, Emptied
  <2>5. ~IsPartial(a) /\ ~IsFrame(a)
    BY <1>2, <1>5, PartialBefore
  <2>6. HeldOf(t, n + 1) = <<>>
    BY <2>5 DEF HeldOf, a
  <2>7. Push(<<>>, b).held = <<>> /\ Push(<<>>, b).result # "request"
    BY <2>4
  <2>8. QED
    BY <1>2, <1>3, <2>1, <2>5, <2>6, <2>7 DEF a, b
<1>6. QED
  BY <1>4, <1>5

-----------------------------------------------------------------------------
(* The stream.                                                             *)

\* A parser in step holds what it should for as long as it is on track, and a
\* host that is not astray has it in step.  Wherever it is, the byte it got
\* first was a magic byte: the silence is shorter than what it holds.
StreamInv ==
  /\ StreamTypeOK
  /\ IF sending = <<>> THEN sent = 0 /\ inStep
     ELSE sending \in Transmissions /\ sent >= 1 /\ (Misleading(sending) => astray)
  /\ held # <<>> => quiet < Len(held)
  /\ inStep /\ OnTrack(sending, sent) =>
       /\ held = HeldOf(sending, sent)
       /\ delivered = IF IsFrame(SubSeq(sending, 1, sent)) THEN SubSeq(sending, 1, sent)
                      ELSE NoRequest
  /\ ~astray => inStep
  /\ NoInventedRequest

\* What a byte does to parser and delivery.
LEMMA TakesByte ==
  ASSUME IsPartial(held), NEW b \in Octets, Takes(b)
  PROVE  /\ held' = Push(held, b).held
         /\ IsPartial(held')
         /\ held' = <<>> \/ held' = Append(held, b)
         /\ delivered' = IF Push(held, b).result = "request" THEN Append(held, b) ELSE NoRequest
         /\ delivered' # NoRequest => IsFrame(delivered') /\ delivered' = Append(held, b)
<1>1. /\ held' = IF Push(held, b).result \in Errors THEN <<>> ELSE Push(held, b).held
      /\ delivered' = IF Push(held, b).result = "request" THEN Push(held, b).frame
                      ELSE NoRequest
  BY DEF Takes
<1>2. Push(held, b).result \in Errors => Push(held, b).held = <<>>
  BY PushKeepsPartial DEF Errors
<1>3. held' = Push(held, b).held
  BY <1>1, <1>2
<1>4. QED
  BY <1>1, <1>3, PushKeepsPartial

\* A byte in step.
LEMMA StaysInStep ==
  ASSUME IsPartial(held), NEW t \in Transmissions, NEW n \in Nat, n < Len(t),
         held = HeldOf(t, n), OnTrack(t, n + 1), Takes(t[n + 1])
  PROVE  /\ t[n + 1] \in Octets
         /\ held' = HeldOf(t, n + 1)
         /\ delivered' = IF IsFrame(SubSeq(t, 1, n + 1)) THEN SubSeq(t, 1, n + 1) ELSE NoRequest
         /\ delivered' # NoRequest => delivered' = t /\ n + 1 = Len(t)
<1> DEFINE a == SubSeq(t, 1, n + 1)
<1>1. Len(t) \in Nat /\ t \in Seq(Octets)
  BY TransmissionShape
<1>2. /\ t[n + 1] \in Octets
      /\ Push(held, t[n + 1]).held = HeldOf(t, n + 1)
      /\ Push(held, t[n + 1]).result = "request" <=> IsFrame(a)
      /\ IsFrame(a) => Append(held, t[n + 1]) = a
  BY <1>1, ByteInStep
<1>3. /\ held' = HeldOf(t, n + 1)
      /\ delivered' = IF IsFrame(a) THEN a ELSE NoRequest
  BY <1>2, TakesByte
<1>4. IsFrame(a) => n + 1 = Len(t)
  <2>1. n + 1 \in 1 .. Len(t)
    BY <1>1
  <2>2. QED
    BY <2>1, FramesAreWhole
<1>5. n + 1 = Len(t) => a = t
  BY <1>1
<1>6. QED
  BY <1>2, <1>3, <1>4, <1>5

\* The silence stays shorter than what the parser holds.
LEMMA SilenceIsShort ==
  ASSUME IsPartial(held), quiet \in 0 .. Silence, held # <<>> => quiet < Len(held),
         NEW b \in Octets, Takes(b)
  PROVE  /\ quiet' \in 0 .. Silence
         /\ held' # <<>> => quiet' < Len(held')
<1>1. /\ held' = Push(held, b).held
      /\ held' = <<>> \/ held' = Append(held, b)
      /\ held \in Seq(Octets) /\ Len(held) \in Nat
  BY TakesByte, RoomForByte
<1>2. quiet' = IF b = Magic THEN 0 ELSE IF quiet < Silence THEN quiet + 1 ELSE quiet
  BY DEF Takes, QuietAfter
<1>3. quiet' \in 0 .. Silence /\ quiet' <= quiet + 1
  BY <1>2, Numbers
<1>4. CASE held = <<>>
  <2>1. b # Magic => Push(held, b) = [held |-> <<>>, result |-> "BadMagic"]
    BY <1>4 DEF Push, Emptied
  <2>2. b # Magic => held' = <<>>
    BY <1>1, <2>1
  <2>3. Len(Append(held, b)) = 1
    BY <1>1, <1>4
  <2>4. held' # <<>> => quiet' = 0 /\ Len(held') = 1
    BY <1>1, <1>2, <2>2, <2>3
  <2>5. QED
    BY <1>3, <2>4
<1>5. CASE held # <<>>
  <2>1. Len(Append(held, b)) = Len(held) + 1
    BY <1>1
  <2>2. QED
    BY <1>1, <1>3, <1>5, <2>1
<1>6. QED
  BY <1>4, <1>5

\* Only a frame broken off ends with the parser in the middle of one, if the
\* parser was empty and stayed on track.
LEMMA EmptyAtTheEnd ==
  ASSUME StreamInv, sent = Len(sending), inStep, sending # <<>> => ~Misleading(sending)
  PROVE  held = <<>>
<1>1. SUFFICES ASSUME held # <<>> PROVE FALSE
  OBVIOUS
<1>2. CASE sending = <<>>
  <2>1. SubSeq(sending, 1, sent) = <<>> /\ OnTrack(sending, sent)
    BY <1>2 DEF OnTrack
  <2>2. held = HeldOf(sending, sent)
    BY <2>1 DEF StreamInv
  <2>3. QED
    BY <1>1, <2>1, <2>2 DEF HeldOf
<1>3. CASE sending # <<>>
  <2>1. sending \in Transmissions
    BY <1>3 DEF StreamInv
  <2>2. sending \in Seq(Octets) /\ Len(sending) \in Nat /\ SubSeq(sending, 1, sent) = sending
    BY <2>1, TransmissionShape
  <2>3. sent \in 0 .. Len(sending)
    BY <2>2
  <2>4. OnTrack(sending, sent)
    BY <1>3, <2>1, <2>3, StaysOnTrack
  <2>5. held = HeldOf(sending, sent)
    BY <2>4 DEF StreamInv
  <2>6. IsPartial(sending)
    BY <1>1, <2>2, <2>5 DEF HeldOf
  <2>7. QED
    BY <1>3, <2>1, <2>6, CutsArePartial DEF Misleading
<1>4. QED
  BY <1>2, <1>3

\* A silence empties the parser.
LEMMA SilenceEmpties ==
  ASSUME StreamInv, quiet = Silence
  PROVE  held = <<>>
<1>1. SUFFICES ASSUME held # <<>> PROVE FALSE
  OBVIOUS
<1>2. quiet < Len(held) /\ IsPartial(held)
  BY <1>1 DEF StreamInv, StreamTypeOK
<1>3. Len(held) \in Nat /\ Len(held) < MaxFrame
  BY <1>2, RoomForByte
<1>4. QED
  BY <1>2, <1>3, Numbers

\* The initial state satisfies the invariant.
LEMMA StreamInvInit == StreamInit => StreamInv
<1> SUFFICES ASSUME StreamInit PROVE StreamInv
  OBVIOUS
<1>1. /\ sending = <<>> /\ sent = 0 /\ held = <<>> /\ delivered = NoRequest /\ inStep = TRUE
      /\ quiet = Silence /\ Silence \in Nat /\ astray = FALSE
  BY Numbers DEF StreamInit
<1>2. SubSeq(sending, 1, sent) = <<>> /\ Len(sending) = 0
  BY <1>1
<1>3. IsPartial(<<>>) /\ ~IsFrame(<<>>)
  BY DEF IsPartial, IsFrame, HeaderLen
<1>4. held = HeldOf(sending, sent)
  BY <1>1, <1>2, <1>3 DEF HeldOf
<1>5. StreamTypeOK
  <2>1. sent \in 0 .. Len(sending) /\ quiet \in 0 .. Silence
    BY <1>1, <1>2
  <2>2. QED
    BY <1>1, <1>3, <2>1 DEF StreamTypeOK
<1>6. delivered = IF IsFrame(SubSeq(sending, 1, sent)) THEN SubSeq(sending, 1, sent) ELSE NoRequest
  BY <1>1, <1>2, <1>3
<1>7. NoInventedRequest
  BY <1>1 DEF NoInventedRequest
<1>8. QED
  BY <1>1, <1>4, <1>5, <1>6, <1>7 DEF StreamInv

\* What a byte of the transmission `t` leaves a parser in step with.
InStepWith(t, n) ==
  /\ held' = HeldOf(t, n)
  /\ delivered' = IF IsFrame(SubSeq(t, 1, n)) THEN SubSeq(t, 1, n) ELSE NoRequest
  /\ delivered' # NoRequest => delivered' = t /\ n = Len(t)

\* Starting a transmission keeps the invariant.
LEMMA BeginKeepsInv ==
  ASSUME StreamInv, BeginTransmission
  PROVE  StreamInv'
<1>1. PICK t \in Transmissions :
        /\ sending' = t /\ Takes(t[1])
        /\ astray' = (Misleading(t) \/ (astray /\ quiet < Silence))
  BY DEF BeginTransmission
<1>2. sent = Len(sending) /\ sent' = 1 /\ inStep' = (held = <<>>)
  BY DEF BeginTransmission
<1>3. t # <<>> /\ t \in Seq(Octets) /\ Len(t) \in Nat /\ Len(t) >= 1 /\ t[1] \in Octets
  BY TransmissionShape
<1>4. IsPartial(held) /\ quiet \in 0 .. Silence /\ (held # <<>> => quiet < Len(held))
  BY DEF StreamInv, StreamTypeOK
<1>5. /\ IsPartial(held')
      /\ delivered' # NoRequest => IsFrame(delivered')
  BY <1>1, <1>3, <1>4, TakesByte
<1>6. quiet' \in 0 .. Silence /\ (held' # <<>> => quiet' < Len(held'))
  BY <1>1, <1>3, <1>4, SilenceIsShort
<1>7. astray' \in BOOLEAN /\ inStep' \in BOOLEAN
  BY <1>1, <1>2
<1>8. StreamTypeOK'
  BY <1>1, <1>2, <1>3, <1>5, <1>6, <1>7 DEF StreamTypeOK
<1>9. ~astray' => held = <<>>
  <2>1. SUFFICES ASSUME ~astray', held # <<>> PROVE FALSE
    OBVIOUS
  <2>2. quiet # Silence
    BY <2>1, SilenceEmpties
  <2>3. quiet < Silence
    BY <1>4, <2>2, Numbers
  <2>4. ~astray
    BY <1>1, <2>1, <2>3
  <2>5. inStep /\ (sending # <<>> => ~Misleading(sending))
    BY <2>4 DEF StreamInv
  <2>6. QED
    BY <1>2, <2>1, <2>5, EmptyAtTheEnd
<1>10. held = <<>> /\ OnTrack(t, 1) => InStepWith(t, 1)
  <2>1. SUFFICES ASSUME held = <<>>, OnTrack(t, 1) PROVE InStepWith(t, 1)
    OBVIOUS
  <2>2. SubSeq(t, 1, 0) = <<>> /\ 0 \in Nat /\ 0 < Len(t) /\ 0 + 1 = 1
    BY <1>3
  <2>3. held = HeldOf(t, 0)
    BY <2>1, <2>2 DEF HeldOf
  <2>4. QED
    BY <1>1, <1>4, <2>1, <2>2, <2>3, StaysInStep DEF InStepWith
<1>11. OnTrack(t, 1)
  BY DEF OnTrack
<1>12. /\ ~astray' => inStep'
       /\ inStep' => InStepWith(t, 1)
       /\ Misleading(t) => astray'
  BY <1>1, <1>2, <1>9, <1>10, <1>11
<1>13. NoInventedRequest'
  BY <1>1, <1>2, <1>12 DEF NoInventedRequest, InStepWith
<1>14. inStep' => /\ held' = HeldOf(sending', sent')
                  /\ delivered' = IF IsFrame(SubSeq(sending', 1, sent'))
                                  THEN SubSeq(sending', 1, sent') ELSE NoRequest
  BY <1>1, <1>2, <1>12 DEF InStepWith
<1>15. /\ sending' # <<>> /\ sending' \in Transmissions /\ sent' >= 1
       /\ Misleading(sending') => astray'
  BY <1>1, <1>2, <1>3, <1>12
<1>16. QED
  BY <1>6, <1>8, <1>12, <1>13, <1>14, <1>15 DEF StreamInv, Misleading

\* Sending a byte keeps the invariant.
LEMMA SendKeepsInv ==
  ASSUME StreamInv, SendByte
  PROVE  StreamInv'
<1>1. /\ sent < Len(sending) /\ Takes(sending[sent + 1]) /\ sent' = sent + 1
      /\ sending' = sending /\ inStep' = inStep /\ astray' = astray
  BY DEF SendByte
<1>2. sending # <<>>
  BY <1>1 DEF StreamInv
<1>3. /\ sending \in Transmissions /\ sending \in Seq(Octets) /\ Len(sending) \in Nat
      /\ sent \in Nat /\ sent >= 1 /\ (Misleading(sending) => astray)
  BY <1>2, TransmissionShape DEF StreamInv, StreamTypeOK
<1>4. /\ IsPartial(held) /\ quiet \in 0 .. Silence /\ inStep \in BOOLEAN /\ astray \in BOOLEAN
      /\ held # <<>> => quiet < Len(held)
      /\ ~astray => inStep
  BY DEF StreamInv, StreamTypeOK
<1>5. sending[sent + 1] \in Octets
  BY <1>1, <1>3
<1>6. /\ IsPartial(held')
      /\ delivered' # NoRequest => IsFrame(delivered')
  BY <1>1, <1>4, <1>5, TakesByte
<1>7. quiet' \in 0 .. Silence /\ (held' # <<>> => quiet' < Len(held'))
  BY <1>1, <1>4, <1>5, SilenceIsShort
<1>8. StreamTypeOK'
  BY <1>1, <1>3, <1>4, <1>6, <1>7 DEF StreamTypeOK
<1>9. inStep /\ OnTrack(sending, sent + 1) => InStepWith(sending, sent + 1)
  <2>1. SUFFICES ASSUME inStep, OnTrack(sending, sent + 1) PROVE InStepWith(sending, sent + 1)
    OBVIOUS
  <2>2. OnTrack(sending, sent)
    BY <1>3, <2>1 DEF OnTrack
  <2>3. held = HeldOf(sending, sent)
    BY <2>1, <2>2 DEF StreamInv
  <2>4. QED
    BY <1>1, <1>3, <1>4, <2>1, <2>3, StaysInStep DEF InStepWith
<1>10. ~astray => InStepWith(sending, sent + 1)
  <2>1. SUFFICES ASSUME ~astray PROVE InStepWith(sending, sent + 1)
    OBVIOUS
  <2>2. ~Misleading(sending) /\ inStep /\ sent + 1 \in 0 .. Len(sending)
    BY <1>1, <1>3, <1>4, <2>1
  <2>3. QED
    BY <1>3, <1>9, <2>2, StaysOnTrack
<1>11. NoInventedRequest'
  BY <1>1, <1>10 DEF NoInventedRequest, InStepWith
<1>12. inStep' /\ OnTrack(sending', sent') =>
         /\ held' = HeldOf(sending', sent')
         /\ delivered' = IF IsFrame(SubSeq(sending', 1, sent')) THEN SubSeq(sending', 1, sent')
                         ELSE NoRequest
  BY <1>1, <1>9 DEF InStepWith
<1>13. /\ sending' # <<>> /\ sending' \in Transmissions /\ sent' >= 1
       /\ Misleading(sending') => astray'
       /\ ~astray' => inStep'
  BY <1>1, <1>2, <1>3, <1>4
<1>14. QED
  BY <1>7, <1>8, <1>11, <1>12, <1>13 DEF StreamInv, Misleading

\* Every step keeps the invariant.
LEMMA StreamInvNext == StreamInv /\ [StreamNext]_streamVars => StreamInv'
<1> SUFFICES ASSUME StreamInv, [StreamNext]_streamVars PROVE StreamInv'
  OBVIOUS
<1>1. CASE UNCHANGED streamVars
  BY <1>1 DEF streamVars, StreamInv, StreamTypeOK, NoInventedRequest
<1>2. QED
  BY <1>1, BeginKeepsInv, SendKeepsInv DEF StreamNext

\* The invariant of the stream.
LEMMA StreamInvariant == StreamSpec => []StreamInv
BY StreamInvInit, StreamInvNext, PTL DEF StreamSpec

-----------------------------------------------------------------------------
(* Theorems.                                                               *)

\* The parser always holds the beginning of a frame and always has room for a
\* byte, so it never answers FrameTooLong (Parser::push).
THEOREM StreamTypeCorrect == StreamSpec => []StreamTypeOK
<1>1. StreamInv => StreamTypeOK
  BY DEF StreamInv
<1>2. QED
  BY <1>1, StreamInvariant, PTL

\* A request that was not sent comes of a frame broken off, or of a magic byte
\* behind a bad length, with no silence since (main of i2c-bridge,
\* Parser::push).
THEOREM RequestsAreSent == StreamSpec => []NoInventedRequest
<1>1. StreamInv => NoInventedRequest
  BY DEF StreamInv
<1>2. QED
  BY <1>1, StreamInvariant, PTL

\* A frame that begins when the parser is empty is delivered unchanged and
\* with its last byte, whatever bytes it is made of, and neither noise nor a
\* header with a bad length leaves anything behind (Parser::push, Parser::reset).
THEOREM FramesAreDelivered == StreamSpec => []FramesArriveWhole
<1>1. StreamInv => FramesArriveWhole
  <2> SUFFICES ASSUME StreamInv, inStep
               PROVE  /\ sending \in Frames =>
                           /\ held = IF sent < Len(sending) THEN SubSeq(sending, 1, sent) ELSE <<>>
                           /\ delivered = IF sent < Len(sending) THEN NoRequest ELSE sending
                      /\ sending \in Noise \/ (sending \in TooLong /\ sent = HeaderLen) =>
                           held = <<>>
    BY DEF FramesArriveWhole
  <2> DEFINE s == SubSeq(sending, 1, sent)
  <2>1. sent \in 0 .. Len(sending)
    BY DEF StreamInv, StreamTypeOK
  <2>7. OnTrack(sending, sent) => /\ held = HeldOf(sending, sent)
                                  /\ delivered = IF IsFrame(s) THEN s ELSE NoRequest
    BY DEF StreamInv
  <2>2. ASSUME sending \in Transmissions
        PROVE  /\ sending \in Seq(Octets) /\ Len(sending) \in Nat /\ sent \in Nat /\ sent >= 1
               /\ s \in Seq(Octets) /\ Len(s) = sent /\ \A i \in 1 .. sent : s[i] = sending[i]
               /\ sent = Len(sending) => s = sending
    <3>1. sending \in Seq(Octets) /\ Len(sending) \in Nat /\ sent \in Nat /\ sent >= 1
      BY <2>1, <2>2, TransmissionShape DEF StreamInv
    <3>2. QED
      BY <2>1, <3>1
  <2>3. ASSUME sending \in Frames
        PROVE  /\ held = IF sent < Len(sending) THEN SubSeq(sending, 1, sent) ELSE <<>>
               /\ delivered = IF sent < Len(sending) THEN NoRequest ELSE sending
    <3>1. sending \in Transmissions /\ IsFrame(sending) /\ sending \in Seq(Octets)
      BY <2>3, FrameShape DEF Transmissions, Bytes
    <3>5. ~Misleading(sending)
      <4>1. ~IsPartial(sending)
        BY <3>1 DEF IsPartial, IsFrame
      <4>2. ~Oversized(sending)
        BY <3>1, Numbers DEF IsFrame, Oversized
      <4>3. QED
        BY <4>1, <4>2, BrokenOffShape, TooLongShape DEF Misleading
    <3>6. held = HeldOf(sending, sent) /\ delivered = IF IsFrame(s) THEN s ELSE NoRequest
      BY <2>1, <2>7, <3>1, <3>5, StaysOnTrack
    <3>2. CASE sent < Len(sending)
      <4>1. IsPartial(s)
        BY <2>2, <3>1, <3>2, BeginningIsPartial
      <4>2. ~IsFrame(s)
        BY <4>1 DEF IsPartial, IsFrame
      <4>3. QED
        BY <3>2, <3>6, <4>1, <4>2 DEF HeldOf
    <3>3. CASE sent = Len(sending)
      <4>1. s = sending /\ ~IsPartial(sending)
        BY <2>2, <3>1, <3>3 DEF IsPartial, IsFrame
      <4>2. held = <<>> /\ delivered = sending
        BY <3>1, <3>6, <4>1 DEF HeldOf
      <4>3. ~(sent < Len(sending))
        BY <2>2, <3>1, <3>3
      <4>4. QED
        BY <4>2, <4>3
    <3>4. QED
      BY <2>1, <2>2, <3>1, <3>2, <3>3
  <2>4. ASSUME sending \in Noise PROVE held = <<>>
    <3>1. sending \in Transmissions /\ Len(sending) >= 1 /\ sending[1] # Magic
      BY <2>4, NoiseShape DEF Transmissions, Bytes
    <3>2. OnTrack(sending, sent)
      BY <2>1, <2>4, <2>2, <3>1, NoiseShape DEF OnTrack
    <3>3. s[1] # Magic /\ s # <<>>
      <4>1. s[1] = sending[1]
        BY <2>2, <3>1
      <4>2. s # <<>>
        BY <2>2, <3>1
      <4>3. QED
        BY <3>1, <4>1, <4>2
    <3>4. QED
      BY <2>7, <3>2, <3>3 DEF HeldOf, IsPartial
  <2>5. ASSUME sending \in TooLong, sent = HeaderLen PROVE held = <<>>
    <3>1. sending \in Transmissions /\ Oversized(sending)
      BY <2>5, TooLongShape DEF Transmissions
    <3>2. DeclaredLen(s) = DeclaredLen(sending) /\ Len(s) >= HeaderLen
      BY <2>2, <2>5, <3>1 DEF DeclaredLen, HeaderLen
    <3>3. ~IsPartial(s)
      BY <3>1, <3>2, Numbers DEF IsPartial, Oversized
    <3>4. OnTrack(sending, sent)
      BY <2>1, <2>5, <3>1, StaysOnTrack DEF HeaderLen
    <3>5. QED
      BY <2>7, <3>3, <3>4 DEF HeldOf
  <2>6. QED
    BY <2>3, <2>4, <2>5
<1>2. QED
  BY <1>1, StreamInvariant, PTL

\* A silence as long as a frame can go on after its first byte empties the
\* parser, and where no misleading transmission came since the last one a
\* transmission finds it empty (Parser::push, main).
THEOREM ParserRecovers == StreamSpec => []RecoversInSilence
<1>1. StreamInv => RecoversInSilence
  <2>1. ASSUME StreamInv PROVE quiet = Silence => held = <<>>
    BY <2>1, SilenceEmpties
  <2>2. ASSUME StreamInv PROVE ~astray => inStep
    BY <2>2 DEF StreamInv
  <2>3. QED
    BY <2>1, <2>2 DEF RecoversInSilence
<1>2. QED
  BY <1>1, StreamInvariant, PTL
=============================================================================
