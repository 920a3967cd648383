------------------------------ MODULE Framing ------------------------------
(***************************************************************************)
(* The wire format target and bridge share, and the parser both feed with  *)
(* single bytes: Parser::push and encode_response of optibridge-protocol.  *)
(***************************************************************************)
EXTENDS Integers, Sequences

CONSTANTS
  Octets,        \* the values of a byte an instance has
  Magic,         \* MAGIC
  MaxPayload     \* MAX_PAYLOAD

ASSUME FramingAssumption ==
  /\ Octets \subseteq Nat
  /\ Magic \in Octets
  /\ MaxPayload \in Octets
  /\ 0 .. MaxPayload \subseteq Octets

HeaderLen == 5
MaxFrame  == HeaderLen + MaxPayload

\* The payload length of a frame of which the header is there.
DeclaredLen(frame) == frame[3]

Encoded(command, sequence, flags, payload) ==
  <<Magic, command, Len(payload), sequence, flags>> \o payload

\* The request a complete frame is.
Decoded(frame) ==
  [command |-> frame[2], sequence |-> frame[4], flags |-> frame[5],
   payload |-> SubSeq(frame, HeaderLen + 1, Len(frame))]

\* A frame that ends where its header says.
IsFrame(bytes) ==
  /\ Len(bytes) >= HeaderLen
  /\ bytes[1] = Magic
  /\ DeclaredLen(bytes) <= MaxPayload
  /\ Len(bytes) = HeaderLen + DeclaredLen(bytes)

\* What is left of the parser's bytes, and what it returns.  Its length is 0
\* after everything but a byte it keeps.
Emptied(result) == [held |-> <<>>, result |-> result]
Kept(frame)     == [held |-> frame, result |-> "incomplete"]

\* Mutated form: a length of one more than the payload buffer is let through.
PushLongPayload(held, byte) ==
  LET frame == Append(held, byte)
      n     == Len(frame)
  IN  IF held = <<>> /\ byte # Magic THEN Emptied("BadMagic")
      ELSE IF Len(held) = MaxFrame THEN Emptied("FrameTooLong")
      ELSE IF n = HeaderLen /\ DeclaredLen(frame) > MaxPayload + 1 THEN Emptied("BadLength")
      ELSE IF n >= HeaderLen /\ n = HeaderLen + DeclaredLen(frame)
           THEN [held |-> <<>>, result |-> "request", frame |-> frame]
      ELSE Kept(frame)

\* Mutated form: the first byte of a frame is not looked at.
PushAnyStart(held, byte) ==
  LET frame == Append(held, byte)
      n     == Len(frame)
  IN  IF Len(held) = MaxFrame THEN Emptied("FrameTooLong")
      ELSE IF n = HeaderLen /\ DeclaredLen(frame) > MaxPayload THEN Emptied("BadLength")
      ELSE IF n >= HeaderLen /\ n = HeaderLen + DeclaredLen(frame)
           THEN [held |-> <<>>, result |-> "request", frame |-> frame]
      ELSE Kept(frame)

\* Mutated form: a magic byte starts a frame wherever it comes.
PushRestarts(held, byte) ==
  LET frame == IF byte = Magic THEN <<byte>> ELSE Append(held, byte)
      n     == Len(frame)
  IN  IF held = <<>> /\ byte # Magic THEN Emptied("BadMagic")
      ELSE IF n = HeaderLen /\ DeclaredLen(frame) > MaxPayload THEN Emptied("BadLength")
      ELSE IF n >= HeaderLen /\ n = HeaderLen + DeclaredLen(frame)
           THEN [held |-> <<>>, result |-> "request", frame |-> frame]
      ELSE Kept(frame)

\* Parser::push
Push(held, byte) ==
  LET frame == Append(held, byte)
      n     == Len(frame)
  IN  IF held = <<>> /\ byte # Magic THEN Emptied("BadMagic")
      ELSE IF Len(held) = MaxFrame THEN Emptied("FrameTooLong")
      ELSE IF n = HeaderLen /\ DeclaredLen(frame) > MaxPayload THEN Emptied("BadLength")
      ELSE IF n >= HeaderLen /\ n = HeaderLen + DeclaredLen(frame)
           THEN [held |-> <<>>, result |-> "request", frame |-> frame]
      ELSE Kept(frame)

Errors == {"BadMagic", "FrameTooLong", "BadLength"}

\* What a parser can hold between two bytes: the beginning of a frame.
IsPartial(held) ==
  /\ held \in Seq(Octets)
  /\ held # <<>> => held[1] = Magic
  /\ Len(held) >= HeaderLen =>
       DeclaredLen(held) <= MaxPayload /\ Len(held) < HeaderLen + DeclaredLen(held)
=============================================================================
