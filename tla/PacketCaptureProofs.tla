------------------------ MODULE PacketCaptureProofs ------------------------
(***************************************************************************)
(* What parse_packet makes of a capture, for every capture.  Where the     *)
(* frames of a capture end is defined by recursion over the places before; *)
(* the proofs reason about it with the least place at which a claim about  *)
(* the ends would fail.                                                    *)
(***************************************************************************)
EXTENDS PacketCapture, FramingProofs, WellFoundedInduction

-----------------------------------------------------------------------------
(* The ends of the frames of a sequence of bytes.                          *)

\* The bytes of c after place j and up to place i are a frame.
FrameBetween(c, j, i) ==
  /\ j + HeaderLen <= i
  /\ c[j + 1] = Magic
  /\ c[j + 3] <= MaxPayload
  /\ i = j + HeaderLen + c[j + 3]

\* C holds the places up to n at which one frame after another ends.
EndsUpTo(c, n, C) ==
  /\ C \subseteq 0 .. n
  /\ \A i \in 0 .. n : i \in C <=> i = 0 \/ \E j \in 0 .. i - 1 : j \in C /\ FrameBetween(c, j, i)

\* A set of numbers that is not empty has a least one.
LEMMA Least ==
  ASSUME NEW T, T \subseteq Nat, T # {}
  PROVE  \E m \in T : \A n \in T : m <= n
<1>1. PICK m \in T : \A n \in T : <<n, m>> \notin OpToRel(<, Nat)
  BY NatLessThanWellFounded, WFMin, Zenon
<1>2. ASSUME NEW n \in T PROVE m <= n
  <2>1. m \in Nat /\ n \in Nat
    OBVIOUS
  <2>2. ~(n < m)
    BY <1>1, <2>1, Zenon DEF OpToRel
  <2>3. QED
    BY <2>1, <2>2
<1>3. QED
  BY <1>1, <1>2

\* The ends up to a place are decided by the bytes up to it.
LEMMA EndsAreUnique ==
  ASSUME NEW c, NEW d, NEW n \in Nat, NEW m \in Nat, n <= m,
         \A i \in 1 .. n : c[i] = d[i],
         NEW C, EndsUpTo(c, n, C), NEW D, EndsUpTo(d, m, D)
  PROVE  \A i \in 0 .. n : i \in C <=> i \in D
<1> DEFINE Bad == {i \in 0 .. n : ~(i \in C <=> i \in D)}
<1> SUFFICES ASSUME Bad # {} PROVE FALSE
  OBVIOUS
<1>1. PICK i \in Bad : \A k \in Bad : i <= k
  <2>1. Bad \subseteq Nat
    OBVIOUS
  <2>2. QED
    BY <2>1, Least
<1>2. i \in 0 .. n /\ i \in 0 .. m /\ ~(i \in C <=> i \in D)
  OBVIOUS
<1>3. \A j \in 0 .. i - 1 : j \in C <=> j \in D
  <2> SUFFICES ASSUME NEW j \in 0 .. i - 1, ~(j \in C <=> j \in D) PROVE FALSE
    OBVIOUS
  <2>1. j \in Bad /\ j < i
    BY <1>2
  <2>2. QED
    BY <1>1, <1>2, <2>1
<1>4. ASSUME NEW j \in 0 .. i - 1 PROVE FrameBetween(c, j, i) <=> FrameBetween(d, j, i)
  <2>1. j + HeaderLen <= i => c[j + 1] = d[j + 1] /\ c[j + 3] = d[j + 3]
    BY <1>2 DEF HeaderLen
  <2>2. QED
    BY <2>1 DEF FrameBetween
<1>5. i \in C <=> i = 0 \/ \E j \in 0 .. i - 1 : j \in C /\ FrameBetween(c, j, i)
  BY <1>2 DEF EndsUpTo
<1>6. i \in D <=> i = 0 \/ \E j \in 0 .. i - 1 : j \in D /\ FrameBetween(d, j, i)
  BY <1>2 DEF EndsUpTo
<1>7. QED
  BY <1>2, <1>3, <1>4, <1>5, <1>6

\* There is such a set for every place.
LEMMA EndsExist ==
  ASSUME NEW c, NEW n \in Nat
  PROVE  \E C : EndsUpTo(c, n, C)
<1> DEFINE Bad == {k \in Nat : ~\E C : EndsUpTo(c, k, C)}
<1> SUFFICES ASSUME Bad # {} PROVE FALSE
  OBVIOUS
<1>1. PICK k \in Bad : \A i \in Bad : k <= i
  <2>1. Bad \subseteq Nat
    OBVIOUS
  <2>2. QED
    BY <2>1, Least
<1>2. k \in Nat /\ ~\E C : EndsUpTo(c, k, C)
  OBVIOUS
<1>3. CASE k = 0
  <2>1. EndsUpTo(c, 0, {0})
    BY DEF EndsUpTo
  <2>2. QED
    BY <1>2, <1>3, <2>1
<1>4. CASE k # 0
  <2>1. k - 1 \in Nat /\ k - 1 \notin Bad
    <3>1. k - 1 \in Nat /\ ~(k <= k - 1)
      BY <1>2, <1>4
    <3>2. QED
      BY <1>1, <3>1
  <2>2. PICK C : EndsUpTo(c, k - 1, C)
    BY <2>1
  <2> DEFINE ends == \E j \in 0 .. k - 1 : j \in C /\ FrameBetween(c, j, k)
             D == IF ends THEN C \cup {k} ELSE C
  <2>3. /\ C \subseteq 0 .. k - 1
        /\ \A i \in 0 .. k - 1 :
             i \in C <=> i = 0 \/ \E j \in 0 .. i - 1 : j \in C /\ FrameBetween(c, j, i)
    BY <2>2 DEF EndsUpTo
  <2>4. /\ D \subseteq 0 .. k
        /\ \A i \in 0 .. k - 1 : i \in D <=> i \in C
        /\ k \in D <=> ends
    <3>1. k \notin C
      BY <1>2, <2>3
    <3> HIDE DEF ends
    <3>2. QED
      BY <1>2, <2>3, <3>1
  <2>5. ASSUME NEW i \in 0 .. k
        PROVE  i \in D <=> i = 0 \/ \E j \in 0 .. i - 1 : j \in D /\ FrameBetween(c, j, i)
    <3> HIDE DEF D
    <3>1. \A j \in 0 .. i - 1 : j \in 0 .. k - 1 /\ (j \in D <=> j \in C)
      BY <1>2, <2>4
    <3>2. CASE i = k
      BY <1>4, <2>4, <3>1, <3>2
    <3>3. CASE i # k
      <4>1. i \in 0 .. k - 1
        BY <1>2, <3>3
      <4>2. QED
        BY <2>3, <2>4, <3>1, <4>1
    <3>4. QED
      BY <3>2, <3>3
  <2>6. EndsUpTo(c, k, D)
    <3> HIDE DEF D
    <3>1. QED
      BY <2>4, <2>5 DEF EndsUpTo
  <2>7. QED
    BY <1>2, <2>6
<1>5. QED
  BY <1>3, <1>4

\* No end lies within a frame that begins at an end: the frames follow one
\* another.
LEMMA EndsFollowOneAnother ==
  ASSUME NEW c, NEW n \in Nat, NEW C, EndsUpTo(c, n, C),
         NEW i \in C, NEW j \in C, j < i, NEW k \in Nat, FrameBetween(c, j, k)
  PROVE  k <= i
<1> DEFINE Bad == {x \in C : \E y \in C, z \in Nat : y < x /\ FrameBetween(c, y, z) /\ ~(z <= x)}
<1> SUFFICES ASSUME Bad # {} PROVE FALSE
  OBVIOUS
<1>1. /\ C \subseteq Nat
      /\ \A x \in C : x = 0 \/ \E p \in 0 .. x - 1 : p \in C /\ FrameBetween(c, p, x)
  BY DEF EndsUpTo
<1>2. PICK x \in Bad : \A w \in Bad : x <= w
  <2>1. Bad \subseteq Nat
    BY <1>1
  <2>2. QED
    BY <2>1, Least
<1>3. x \in C /\ x \in Nat
  BY <1>1
<1>4. PICK y \in C, z \in Nat : y < x /\ FrameBetween(c, y, z) /\ ~(z <= x)
  OBVIOUS
<1>5. y \in Nat /\ x # 0
  BY <1>1, <1>3, <1>4
<1>6. PICK p \in 0 .. x - 1 : p \in C /\ FrameBetween(c, p, x)
  BY <1>1, <1>3, <1>5
<1>7. p \in Nat /\ p < x
  BY <1>3, <1>6
<1>8. \A w \in C, v \in C, u \in Nat : w < x /\ v < w /\ FrameBetween(c, v, u) => u <= w
  <2> SUFFICES ASSUME NEW w \in C, NEW v \in C, NEW u \in Nat, w < x, v < w,
                      FrameBetween(c, v, u), ~(u <= w)
               PROVE  FALSE
    OBVIOUS
  <2>1. w \in Bad /\ w \in Nat
    BY <1>1
  <2>2. x <= w
    BY <1>2, <2>1
  <2>3. QED
    BY <1>3, <2>1, <2>2
<1>9. CASE p = y
  <2>1. z = x
    BY <1>4, <1>6, <1>9 DEF FrameBetween
  <2>2. QED
    BY <1>3, <1>4, <2>1
<1>10. CASE y < p
  <2>1. z <= p
    BY <1>4, <1>6, <1>7, <1>8, <1>10
  <2>2. QED
    BY <1>3, <1>4, <1>7, <2>1
<1>11. CASE p < y
  <2>1. x <= y
    BY <1>3, <1>4, <1>6, <1>8, <1>11
  <2>2. QED
    BY <1>3, <1>4, <1>5, <2>1
<1>12. QED
  BY <1>5, <1>7, <1>9, <1>10, <1>11

\* The set Ends is: its recursive definition has a solution, so that the set
\* consists of the places at which one frame after another ends.
LEMMA EndsOfCapture ==
  ASSUME capture \in Seq(Octets)
  PROVE  EndsUpTo(capture, Len(capture), Ends)
<1> DEFINE N == 0 .. Len(capture)
           whole(j) == j + HeaderLen <= Len(capture) /\ capture[j + 1] = Magic
                       /\ capture[j + 3] <= MaxPayload
                       /\ j + HeaderLen + capture[j + 3] <= Len(capture)
           Solves(f) == f = [i \in N |-> i = 0 \/ \E j \in 0 .. i - 1 :
                                           f[j] /\ whole(j) /\ i = j + HeaderLen + capture[j + 3]]
           boundary == CHOOSE f : Solves(f)
<1>1. Ends = {i \in N : boundary[i]}
  BY DEF Ends
<1>2. Len(capture) \in Nat
  OBVIOUS
<1>3. PICK C : EndsUpTo(capture, Len(capture), C)
  BY <1>2, EndsExist
<1>4. ASSUME NEW i \in N, NEW j \in 0 .. i - 1
      PROVE  whole(j) /\ i = j + HeaderLen + capture[j + 3] <=> FrameBetween(capture, j, i)
  <2>1. j \in Nat /\ i \in Nat /\ i <= Len(capture)
    BY <1>2
  <2>2. CASE j + HeaderLen <= Len(capture)
    <3>1. capture[j + 3] \in Nat
      <4>1. j + 3 \in 1 .. Len(capture)
        BY <1>2, <2>1, <2>2 DEF HeaderLen
      <4>2. QED
        BY <4>1, ElementOfSeq, FramingAssumption
    <3>2. QED
      BY <1>2, <2>1, <2>2, <3>1 DEF FrameBetween, HeaderLen
  <2>3. CASE ~(j + HeaderLen <= Len(capture))
    BY <1>2, <2>1, <2>3 DEF FrameBetween, HeaderLen
  <2>4. QED
    BY <2>2, <2>3
<1> HIDE DEF whole
<1>5. \E f : Solves(f)
  <2> DEFINE f == [i \in N |-> i \in C]
  <2>1. ASSUME NEW i \in N
        PROVE  f[i] = (i = 0 \/ \E j \in 0 .. i - 1 :
                         f[j] /\ whole(j) /\ i = j + HeaderLen + capture[j + 3])
    <3>1. \A j \in 0 .. i - 1 : j \in N /\ f[j] = (j \in C)
      BY <1>2
    <3>2. i \in C <=> i = 0 \/ \E j \in 0 .. i - 1 : j \in C /\ FrameBetween(capture, j, i)
      BY <1>3 DEF EndsUpTo
    <3>3. f[i] = (i \in C)
      OBVIOUS
    <3> HIDE DEF f
    <3>4. (i \in C) = (i = 0 \/ \E j \in 0 .. i - 1 :
                         f[j] /\ whole(j) /\ i = j + HeaderLen + capture[j + 3])
      <4>1. ASSUME NEW j \in 0 .. i - 1
            PROVE  f[j] /\ whole(j) /\ i = j + HeaderLen + capture[j + 3]
                     <=> j \in C /\ FrameBetween(capture, j, i)
        BY <1>4, <3>1
      <4>2. QED
        BY <3>2, <4>1
    <3>5. QED
      BY <3>3, <3>4
  <2>2. Solves(f)
    BY <2>1
  <2>3. QED
    BY <2>2
<1>6. Solves(boundary)
  <2> HIDE DEF Solves
  <2>1. QED
    BY <1>5
<1>7. \A i \in N : boundary[i] <=> i = 0 \/ \E j \in 0 .. i - 1 :
                                     boundary[j] /\ whole(j) /\ i = j + HeaderLen + capture[j + 3]
  <2> HIDE DEF boundary
  <2>1. QED
    BY <1>6
<1> HIDE DEF boundary
<1>8. ASSUME NEW i \in N
      PROVE  i \in Ends <=> i = 0 \/ \E j \in 0 .. i - 1 : j \in Ends /\ FrameBetween(capture, j, i)
  <2>1. \A j \in 0 .. i - 1 : j \in N
    BY <1>2
  <2>2. QED
    BY <1>1, <1>4, <1>7, <2>1
<1>9. QED
  BY <1>1, <1>8 DEF EndsUpTo

\* A frame ends where IsFrame says so.
LEMMA FrameBetweenIsFrame ==
  ASSUME NEW c \in Seq(Octets), NEW j \in Nat, NEW i \in 0 .. Len(c), j <= i
  PROVE  FrameBetween(c, j, i) <=> IsFrame(SubSeq(c, j + 1, i))
<1> DEFINE s == SubSeq(c, j + 1, i)
<1>1. Len(s) = i - j /\ i \in Nat /\ \A k \in 1 .. i - j : s[k] = c[j + k]
  OBVIOUS
<1>2. CASE j + 5 <= i
  <2>1. s[1] = c[j + 1] /\ s[3] = c[j + 3]
    BY <1>1, <1>2
  <2>2. c[j + 3] \in Nat
    <3>1. j + 3 \in 1 .. Len(c)
      BY <1>2
    <3>2. QED
      BY <3>1, ElementOfSeq, FramingAssumption
  <2>3. FrameBetween(c, j, i) <=> IsFrame(s)
    <3> HIDE DEF s
    <3>1. QED
      <4>1. Len(s) = i - j /\ i \in Nat /\ j \in Nat
        BY <1>1
      <4>2. IsFrame(s) <=> Len(s) >= 5 /\ c[j + 1] = Magic /\ c[j + 3] <= MaxPayload
                             /\ Len(s) = 5 + c[j + 3]
        BY <2>1, Zenon DEF IsFrame, DeclaredLen, HeaderLen
      <4>3. FrameBetween(c, j, i) <=> j + 5 <= i /\ c[j + 1] = Magic /\ c[j + 3] <= MaxPayload
                                        /\ i = j + 5 + c[j + 3]
        BY Zenon DEF FrameBetween, HeaderLen
      <4>4. Len(s) >= 5 /\ (Len(s) = 5 + c[j + 3] <=> i = j + 5 + c[j + 3])
        BY <1>2, <2>2, <4>1
      <4>5. QED
        BY <1>2, <4>2, <4>3, <4>4
  <2>4. QED
    BY <2>3
<1>3. CASE ~(j + 5 <= i)
  <2>1. FrameBetween(c, j, i) <=> IsFrame(s)
    <3> HIDE DEF s
    <3>1. QED
      BY <1>1, <1>3 DEF FrameBetween, IsFrame, HeaderLen
  <2>2. QED
    BY <2>1
<1>4. QED
  BY <1>2, <1>3

-----------------------------------------------------------------------------
(* The parser and the ends of the frames.                                  *)

\* The place where the frame the parser is in the middle of begins.
FrameStart == Len(capture) - Len(held)

\* As long as no error was returned the parser is in the middle of the frame
\* after the last end; after an error the capture ends within no frame; and a
\* capture that was parsed to its end yields the frame it ends with.
CaptureInv ==
  /\ CaptureTypeOK
  /\ ~failed => FrameStart \in Ends /\ \A i \in Ends : i <= FrameStart
  /\ failed => Len(capture) \notin Ends
  /\ ~failed /\ held = <<>> =>
       IF capture = <<>> THEN request = <<>>
       ELSE \E i \in Ends : /\ i < Len(capture)
                            /\ request = SubSeq(capture, i + 1, Len(capture))
                            /\ IsFrame(request)

\* A fresh parser has parsed the empty capture.
LEMMA CaptureInvInit == CaptureInit => CaptureInv
<1> SUFFICES ASSUME CaptureInit PROVE CaptureInv
  OBVIOUS
<1>1. capture = <<>> /\ held = <<>> /\ request = <<>> /\ failed = FALSE /\ truncated \in BOOLEAN
  BY DEF CaptureInit
<1>2. capture \in Seq(Octets) /\ Len(capture) = 0
  BY <1>1
<1>3. CaptureTypeOK
  BY <1>1 DEF CaptureTypeOK, IsPartial, HeaderLen
<1>4. EndsUpTo(capture, 0, Ends)
  BY <1>2, EndsOfCapture
<1>5. FrameStart = 0
  BY <1>1 DEF FrameStart
<1>6. FrameStart \in Ends /\ \A i \in Ends : i <= FrameStart
  BY <1>4, <1>5 DEF EndsUpTo
<1>7. QED
  BY <1>1, <1>3, <1>6 DEF CaptureInv

\* The byte that is looked at makes a frame of what the parser holds exactly
\* when the capture now ends at the end of a frame.
LEMMA NextEnd ==
  ASSUME CaptureTypeOK, NEW byte \in Octets, capture' = Append(capture, byte),
         FrameStart \in Ends, \A i \in Ends : i <= FrameStart
  PROVE  /\ Append(held, byte) = SubSeq(capture', FrameStart + 1, Len(capture'))
         /\ FrameStart \in Nat /\ FrameStart < Len(capture')
         /\ \A i \in 0 .. Len(capture) : i \in Ends' <=> i \in Ends
         /\ Ends' \subseteq 0 .. Len(capture')
         /\ Len(capture') \in Ends' <=> IsFrame(Append(held, byte))
<1> DEFINE c == capture'
           L == Len(capture)
           s == FrameStart
<1>1. /\ capture \in Seq(Octets) /\ L \in Nat /\ c \in Seq(Octets) /\ Len(c) = L + 1
      /\ c[L + 1] = byte /\ \A i \in 1 .. L : c[i] = capture[i]
      /\ held \in Seq(Octets) /\ Len(held) \in Nat
  BY DEF CaptureTypeOK, IsPartial
<1>2. EndsUpTo(capture, L, Ends)
  BY <1>1, EndsOfCapture
<1>3. EndsUpTo(c, L + 1, Ends')
  <2>1. (capture \in Seq(Octets) => EndsUpTo(capture, Len(capture), Ends))'
    BY EndsOfCapture, PTL
  <2>2. QED
    BY <1>1, <2>1
<1>4. \A i \in 0 .. L : i \in Ends' <=> i \in Ends
  <2>1. \A i \in 0 .. L : i \in Ends <=> i \in Ends'
    <3> HIDE DEF c, L
    <3>1. L + 1 \in Nat /\ L <= L + 1
      BY <1>1
    <3>2. \A i \in 1 .. L : capture[i] = c[i]
      BY <1>1
    <3>3. QED
      BY <1>1, <1>2, <1>3, <3>1, <3>2, EndsAreUnique
  <2>2. QED
    BY <2>1
<1>5. Ends' \subseteq 0 .. L + 1 /\ Ends \subseteq 0 .. L
  BY <1>2, <1>3 DEF EndsUpTo
<1>6. s \in 0 .. L /\ s \in Ends' /\ Len(held) = L - s
  <2>1. s \in 0 .. L
    BY <1>5
  <2>2. QED
    BY <1>1, <1>4, <2>1 DEF FrameStart
<1>7. Append(held, byte) = SubSeq(c, s + 1, L + 1)
  <2>1. held = SubSeq(capture, s + 1, L)
    <3>1. held = SubSeq(capture, L - Len(held) + 1, L)
      BY DEF CaptureTypeOK
    <3>2. QED
      BY <3>1 DEF FrameStart
  <2>2. /\ SubSeq(c, s + 1, L + 1) \in Seq(Octets) /\ Len(SubSeq(c, s + 1, L + 1)) = L + 1 - s
        /\ \A k \in 1 .. L + 1 - s : SubSeq(c, s + 1, L + 1)[k] = c[s + k]
    <3> HIDE DEF c, L, s
    <3>1. QED
      BY <1>1, <1>6
  <2>3. /\ Append(held, byte) \in Seq(Octets) /\ Len(Append(held, byte)) = L + 1 - s
        /\ \A k \in 1 .. L - s : Append(held, byte)[k] = capture[s + k]
        /\ Append(held, byte)[L + 1 - s] = byte
    <3> HIDE DEF c, L, s
    <3>1. \A k \in 1 .. L - s : held[k] = capture[s + k]
      BY <1>1, <1>6, <2>1
    <3>2. /\ Append(held, byte) \in Seq(Octets) /\ Len(Append(held, byte)) = Len(held) + 1
          /\ \A k \in 1 .. Len(held) : Append(held, byte)[k] = held[k]
          /\ Append(held, byte)[Len(held) + 1] = byte
      BY <1>1
    <3>3. Len(held) = L - s /\ Len(held) + 1 = L + 1 - s
      BY <1>1, <1>6
    <3>4. QED
      BY <3>1, <3>2, <3>3
  <2>4. ASSUME NEW k \in 1 .. L + 1 - s
        PROVE  Append(held, byte)[k] = SubSeq(c, s + 1, L + 1)[k]
    <3> HIDE DEF c, L, s
    <3>1. CASE k = L + 1 - s
      BY <1>1, <1>6, <2>2, <2>3, <3>1
    <3>2. CASE k # L + 1 - s
      <4>1. k \in 1 .. L - s /\ s + k \in 1 .. L
        BY <1>1, <1>6, <3>2
      <4>2. QED
        BY <1>1, <2>2, <2>3, <4>1
    <3>3. QED
      BY <3>1, <3>2
  <2> HIDE DEF c, L, s
  <2>5. QED
    BY <2>2, <2>3, <2>4, SeqEqual
<1>8. FrameBetween(c, s, L + 1) <=> IsFrame(Append(held, byte))
  <2> HIDE DEF c, L, s
  <2>1. s \in Nat /\ L + 1 \in 0 .. Len(c) /\ s <= L + 1
    BY <1>1, <1>6
  <2>2. QED
    BY <1>1, <1>7, <2>1, FrameBetweenIsFrame
<1>9. L + 1 \in Ends' <=> \E j \in 0 .. L : j \in Ends' /\ FrameBetween(c, j, L + 1)
  <2> HIDE DEF c, L
  <2>1. L + 1 \in 0 .. L + 1 /\ L + 1 # 0 /\ (L + 1) - 1 = L
    BY <1>1
  <2>2. QED
    BY <1>3, <2>1 DEF EndsUpTo
<1>10. ASSUME L + 1 \in Ends' PROVE FrameBetween(c, s, L + 1)
  <2>1. PICK j \in 0 .. L : j \in Ends' /\ FrameBetween(c, j, L + 1)
    BY <1>9, <1>10
  <2>2. j \in Ends /\ j <= s
    BY <1>4, <2>1
  <2>3. CASE j < s
    <3>1. L + 1 <= s
      <4> HIDE DEF c, L, s
      <4>1. L + 1 \in Nat
        BY <1>1
      <4>2. QED
        BY <1>3, <1>6, <2>1, <2>3, <4>1, EndsFollowOneAnother
    <3>2. QED
      BY <1>1, <1>6, <3>1
  <2>4. QED
    <3> HIDE DEF c, L, s
    <3>1. j = s \/ j < s
      BY <1>1, <1>6, <2>2
    <3>2. QED
      BY <2>1, <2>3, <3>1
<1>11. L + 1 \in Ends' <=> IsFrame(Append(held, byte))
  <2> HIDE DEF c, L, s
  <2>1. QED
    BY <1>6, <1>8, <1>9, <1>10
<1>12. QED
  BY <1>1, <1>4, <1>5, <1>6, <1>7, <1>11

\* A byte keeps the invariant.
LEMMA NextByteKeepsInv ==
  ASSUME CaptureInv, NEW byte \in Octets, NextByte(byte)
  PROVE  CaptureInv'
<1> DEFINE pushed == Push(held, byte)
           frame == Append(held, byte)
           s == FrameStart
           L == Len(capture)
<1>1. /\ CaptureTypeOK /\ ~failed /\ s \in Ends /\ \A i \in Ends : i <= s
      /\ capture' = Append(capture, byte) /\ truncated' = truncated
      /\ held' = pushed.held /\ failed' = (pushed.result \in Errors)
      /\ request' = IF pushed.result = "request" THEN pushed.frame ELSE request
  BY DEF CaptureInv, NextByte
<1>2. /\ capture' \in Seq(Octets) /\ Len(capture') = L + 1 /\ L \in Nat /\ capture' # <<>>
      /\ IsPartial(held) /\ held \in Seq(Octets) /\ Len(held) \in Nat
      /\ frame \in Seq(Octets) /\ Len(frame) = Len(held) + 1 /\ frame # <<>>
      /\ s = L - Len(held)
  BY <1>1 DEF CaptureTypeOK, IsPartial, FrameStart
<1>3. /\ IsPartial(pushed.held)
      /\ pushed.result \in Errors \cup {"incomplete", "request"}
      /\ pushed.result = "incomplete" => pushed.held = frame
      /\ pushed.result # "incomplete" => pushed.held = <<>>
      /\ pushed.result = "request" => pushed.frame = frame /\ IsFrame(frame)
  BY <1>2, PushKeepsPartial
<1>4. IsFrame(frame) => pushed.result = "request"
  BY <1>2, FrameEndsWhole
<1>5. /\ frame = SubSeq(capture', s + 1, L + 1)
      /\ s \in Nat /\ s < L + 1
      /\ \A i \in 0 .. L : i \in Ends' <=> i \in Ends
      /\ Ends' \subseteq 0 .. L + 1
      /\ L + 1 \in Ends' <=> IsFrame(frame)
  <2> HIDE DEF s
  <2>1. /\ frame = SubSeq(capture', FrameStart + 1, Len(capture'))
        /\ FrameStart \in Nat /\ FrameStart < Len(capture')
        /\ \A i \in 0 .. L : i \in Ends' <=> i \in Ends
        /\ Ends' \subseteq 0 .. Len(capture')
        /\ Len(capture') \in Ends' <=> IsFrame(frame)
    <3>1. FrameStart \in Ends /\ \A i \in Ends : i <= FrameStart
      BY <1>1 DEF s
    <3>2. QED
      BY <1>1, <3>1, NextEnd
  <2>2. QED
    BY <1>2, <2>1 DEF s
<1>6. s \in Ends'
  BY <1>1, <1>2, <1>5
<1> HIDE DEF pushed, frame, s, L
<1>7. "incomplete" \notin Errors /\ "request" \notin Errors
  BY DEF Errors
<1>8. CASE pushed.result = "request"
  <2>1. /\ held' = <<>> /\ ~failed' /\ request' = frame /\ IsFrame(frame)
        /\ Len(held') = 0
    <3>1. ~failed'
      BY <1>1, <1>7, <1>8, Zenon
    <3>2. held' = <<>> /\ request' = frame /\ IsFrame(frame)
      <4>1. pushed.held = <<>> /\ pushed.frame = frame /\ IsFrame(frame)
        BY <1>3, <1>8
      <4>2. QED
        BY <1>1, <1>8, <4>1, Zenon
    <3>3. QED
      BY <3>1, <3>2
  <2>2. CaptureTypeOK'
    <3>1. SubSeq(capture', L + 1 - 0 + 1, L + 1) = <<>>
      BY <1>2
    <3>2. QED
      BY <1>1, <1>2, <1>3, <2>1, <3>1 DEF CaptureTypeOK
  <2>3. FrameStart' = L + 1
    BY <1>2, <2>1 DEF FrameStart, s, L
  <2>4. FrameStart' \in Ends' /\ \A i \in Ends' : i <= FrameStart'
    BY <1>2, <1>5, <2>1, <2>3
  <2>5. QED
    BY <1>2, <1>5, <1>6, <2>1, <2>2, <2>4 DEF CaptureInv
<1>9. CASE pushed.result = "incomplete"
  <2>1. held' = frame /\ ~failed' /\ request' = request /\ ~IsFrame(frame)
    <3>1. ~failed'
      BY <1>1, <1>7, <1>9, Zenon
    <3>2. pushed.result # "request" /\ pushed.held = frame
      BY <1>3, <1>9
    <3>3. QED
      BY <1>1, <1>4, <3>1, <3>2, Zenon
  <2>2. FrameStart' = s
    BY <1>2, <2>1 DEF FrameStart, s, L
  <2>3. CaptureTypeOK'
    <3>1. held' = SubSeq(capture', Len(capture') - Len(held') + 1, Len(capture'))
      <4>1. Len(capture') - Len(held') + 1 = s + 1
        BY <1>2, <2>1
      <4>2. QED
        BY <1>2, <1>5, <2>1, <4>1
    <3>2. IsPartial(held')
      BY <1>1, <1>3
    <3>3. QED
      BY <1>1, <1>2, <2>1, <3>1, <3>2 DEF CaptureTypeOK
  <2>4. \A i \in Ends' : i <= s
    BY <1>1, <1>2, <1>5, <2>1
  <2>5. QED
    BY <1>2, <1>6, <2>1, <2>2, <2>3, <2>4 DEF CaptureInv
<1>10. CASE pushed.result \in Errors
  <2>1. held' = <<>> /\ failed' = TRUE /\ request' = request /\ ~IsFrame(frame) /\ Len(held') = 0
    BY <1>1, <1>3, <1>4, <1>7, <1>10
  <2>2. CaptureTypeOK'
    <3>1. SubSeq(capture', L + 1 - 0 + 1, L + 1) = <<>>
      BY <1>2
    <3>2. QED
      BY <1>1, <1>2, <1>3, <2>1, <3>1 DEF CaptureTypeOK
  <2>3. QED
    BY <1>2, <1>5, <2>1, <2>2 DEF CaptureInv
<1>11. QED
  BY <1>3, <1>8, <1>9, <1>10

\* Every step keeps the invariant.
LEMMA CaptureInvNext == CaptureInv /\ [CaptureNext]_captureVars => CaptureInv'
<1> SUFFICES ASSUME CaptureInv, [CaptureNext]_captureVars PROVE CaptureInv'
  OBVIOUS
<1>1. CASE CaptureNext
  BY <1>1, NextByteKeepsInv DEF CaptureNext
<1>2. CASE UNCHANGED captureVars
  <2>1. /\ capture' = capture /\ truncated' = truncated /\ held' = held
        /\ request' = request /\ failed' = failed
    BY <1>2 DEF captureVars
  <2>2. Ends' = Ends
    BY <2>1 DEF Ends
  <2>3. CaptureTypeOK' /\ FrameStart' = FrameStart
    BY <2>1 DEF CaptureInv, CaptureTypeOK, FrameStart
  <2>4. QED
    BY <2>1, <2>2, <2>3 DEF CaptureInv
<1>3. QED
  BY <1>1, <1>2

\* The invariant of the capture.
LEMMA CaptureInvariant == CaptureSpec => []CaptureInv
BY CaptureInvInit, CaptureInvNext, PTL DEF CaptureSpec

\* A capture that is made of frames has one last frame.
LEMMA LastFrameIsOne ==
  ASSUME capture \in Seq(Octets), NEW i \in Ends, i < Len(capture),
         IsFrame(SubSeq(capture, i + 1, Len(capture)))
  PROVE  LastFrame = SubSeq(capture, i + 1, Len(capture))
<1> DEFINE L == Len(capture)
           Suffixes == {SubSeq(capture, j + 1, L) : j \in Ends \ {L}}
<1>1. EndsUpTo(capture, L, Ends) /\ L \in Nat
  BY EndsOfCapture
<1>2. Ends \subseteq 0 .. L
  BY <1>1 DEF EndsUpTo
<1>3. ASSUME NEW j \in Ends \ {L}, IsFrame(SubSeq(capture, j + 1, L)) PROVE j = i
  <2>1. /\ j \in Nat /\ i \in Nat /\ j < L /\ L \in 0 .. L /\ j <= L /\ i <= L
    BY <1>1, <1>2
  <2>2. FrameBetween(capture, j, L) /\ FrameBetween(capture, i, L)
    <3>1. FrameBetween(capture, j, L)
      BY <1>3, <2>1, FrameBetweenIsFrame
    <3>2. FrameBetween(capture, i, L)
      BY <2>1, FrameBetweenIsFrame
    <3>3. QED
      BY <3>1, <3>2
  <2> HIDE DEF L
  <2>3. ~(j < i)
    <3> SUFFICES ASSUME j < i PROVE FALSE
      OBVIOUS
    <3>1. L <= i
      BY <1>1, <2>2, EndsFollowOneAnother
    <3>2. QED
      BY <1>1, <2>1, <3>1 DEF L
  <2>4. ~(i < j)
    <3> SUFFICES ASSUME i < j PROVE FALSE
      OBVIOUS
    <3>1. L <= j
      BY <1>1, <2>2, EndsFollowOneAnother
    <3>2. QED
      BY <1>1, <2>1, <3>1
  <2>5. QED
    BY <2>1, <2>3, <2>4
<1>4. SubSeq(capture, i + 1, L) \in Suffixes
  BY <1>1, <1>2
<1>5. \A frame \in Suffixes : IsFrame(frame) => frame = SubSeq(capture, i + 1, L)
  BY <1>3
<1>6. LastFrame = CHOOSE frame \in Suffixes : IsFrame(frame)
  BY DEF LastFrame
<1> HIDE DEF Suffixes
<1>7. QED
  BY <1>4, <1>5, <1>6

-----------------------------------------------------------------------------
(* Theorems.                                                               *)

\* Whatever was captured, the parser holds the capture's last bytes and they
\* are the beginning of a frame, so it has room for the next (Parser::push in
\* parse_packet).
THEOREM CaptureTypeCorrect == CaptureSpec => []CaptureTypeOK
<1>1. CaptureInv => CaptureTypeOK
  BY DEF CaptureInv
<1>2. QED
  BY <1>1, CaptureInvariant, PTL

\* parse_packet returns a request exactly for a complete capture that is one
\* or more frames and nothing else, and it is the last of them.
THEOREM WholeCapturesAreParsed == CaptureSpec => []ParsesWholeCaptures
<1>1. CaptureInv => ParsesWholeCaptures
  <2> SUFFICES ASSUME CaptureInv PROVE ParsesWholeCaptures
    OBVIOUS
  <2>1. /\ capture \in Seq(Octets) /\ Len(capture) \in Nat
        /\ held \in Seq(Octets) /\ Len(held) \in Nat
    BY DEF CaptureInv, CaptureTypeOK, IsPartial
  <2>2. CASE truncated \/ failed
    BY <2>2 DEF CaptureInv, ParsesWholeCaptures, Parsed
  <2>3. CASE ~truncated /\ ~failed /\ held # <<>>
    <3>1. FrameStart < Len(capture) /\ FrameStart \in Int
      BY <2>1, <2>3 DEF FrameStart
    <3>2. Len(capture) \notin Ends
      BY <2>1, <2>3, <3>1 DEF CaptureInv
    <3>3. QED
      BY <2>3, <3>2 DEF ParsesWholeCaptures, Parsed
  <2>4. CASE ~truncated /\ ~failed /\ held = <<>>
    <3>1. Parsed = request
      BY <2>4 DEF Parsed
    <3>2. Len(capture) \in Ends
      <4>1. FrameStart = Len(capture)
        BY <2>1, <2>4 DEF FrameStart
      <4>2. QED
        BY <2>4, <4>1 DEF CaptureInv
    <3>3. CASE capture = <<>>
      BY <2>4, <3>1, <3>3 DEF CaptureInv, ParsesWholeCaptures
    <3>4. CASE capture # <<>>
      <4>1. request = LastFrame
        BY <2>1, <2>4, <3>4, LastFrameIsOne DEF CaptureInv
      <4>2. QED
        BY <2>4, <3>1, <3>2, <3>4, <4>1 DEF ParsesWholeCaptures
    <3>5. QED
      BY <3>3, <3>4
  <2>5. QED
    BY <2>2, <2>3, <2>4
<1>2. QED
  BY <1>1, CaptureInvariant, PTL

\* A request the host sends in one write of its own, and of which the slave
\* drops nothing, is the request parse_packet returns, field by field.
OneRequestIsParsed ==
  \A command, sequence, flags \in Octets, payload \in Seq(Octets) :
    /\ ~truncated
    /\ Len(payload) <= MaxPayload
    /\ capture = Encoded(command, sequence, flags, payload)
    => /\ Parsed = capture
       /\ Decoded(Parsed) = [command |-> command, sequence |-> sequence,
                             flags |-> flags, payload |-> payload]

\* What one write carries arrives (parse_packet): the runtime's model may take
\* requests as they were sent.
THEOREM SentRequestIsParsed == CaptureSpec => []OneRequestIsParsed
<1>1. CaptureTypeOK /\ ParsesWholeCaptures => OneRequestIsParsed
  <2> SUFFICES ASSUME CaptureTypeOK, ParsesWholeCaptures,
                      NEW command \in Octets, NEW sequence \in Octets, NEW flags \in Octets,
                      NEW payload \in Seq(Octets), ~truncated, Len(payload) <= MaxPayload,
                      capture = Encoded(command, sequence, flags, payload)
               PROVE  /\ Parsed = capture
                      /\ Decoded(Parsed) = [command |-> command, sequence |-> sequence,
                                            flags |-> flags, payload |-> payload]
    BY DEF OneRequestIsParsed
  <2>1. /\ capture \in Seq(Octets) /\ IsFrame(capture) /\ Len(capture) \in Nat /\ Len(capture) >= 5
        /\ Decoded(capture) = [command |-> command, sequence |-> sequence,
                               flags |-> flags, payload |-> payload]
    BY EncodedIsFrame
  <2>2. SubSeq(capture, 0 + 1, Len(capture)) = capture
    BY <2>1
  <2>3. EndsUpTo(capture, Len(capture), Ends)
    BY <2>1, EndsOfCapture
  <2>4. 0 \in Ends
    BY <2>1, <2>3 DEF EndsUpTo
  <2>5. FrameBetween(capture, 0, Len(capture))
    <3>1. 0 \in Nat /\ Len(capture) \in 0 .. Len(capture) /\ 0 <= Len(capture)
      BY <2>1
    <3>2. IsFrame(SubSeq(capture, 0 + 1, Len(capture)))
      BY <2>1, <2>2
    <3>3. QED
      BY <2>1, <3>1, <3>2, FrameBetweenIsFrame
  <2>6. Len(capture) \in Ends
    <3>1. Len(capture) \in 0 .. Len(capture) /\ 0 \in 0 .. Len(capture) - 1
      BY <2>1
    <3>2. QED
      BY <2>3, <2>4, <2>5, <3>1 DEF EndsUpTo
  <2>7. LastFrame = capture
    <3>1. 0 < Len(capture)
      BY <2>1
    <3>2. LastFrame = SubSeq(capture, 0 + 1, Len(capture))
      BY <2>1, <2>2, <2>4, <3>1, LastFrameIsOne
    <3>3. QED
      BY <2>2, <3>2
  <2>8. Parsed = capture
    <3>1. capture # <<>>
      BY <2>1
    <3>2. QED
      BY <2>6, <2>7, <3>1 DEF ParsesWholeCaptures
  <2>9. QED
    BY <2>1, <2>8
<1>2. QED
  BY <1>1, CaptureTypeCorrect, WholeCapturesAreParsed, PTL
=============================================================================
