--------------------------- MODULE PacketCapture ---------------------------
(***************************************************************************)
(* parse_packet: the target's I2C slave hands over what it captured of one *)
(* write, and whether it had to drop bytes.  A fresh parser reads it byte  *)
(* by byte; the first error ends it.                                       *)
(***************************************************************************)
EXTENDS Framing

CONSTANT
  MaxCapture     \* bytes of an instance's longest capture

ASSUME CaptureAssumption == MaxCapture \in Nat

VARIABLES
  capture,       \* the bytes of the packet that have been looked at
  truncated,     \* the slave dropped some
  held,          \* the parser
  request,       \* the last complete frame, <<>> before the first
  failed         \* an error was returned

captureVars == <<capture, truncated, held, request, failed>>

CaptureInit ==
  /\ capture = <<>>
  /\ truncated \in BOOLEAN
  /\ held = <<>>
  /\ request = <<>>
  /\ failed = FALSE

\* The loop of parse_packet.
NextByte(byte) ==
  /\ ~failed
  /\ Len(capture) < MaxCapture
  /\ capture' = Append(capture, byte)
  /\ LET pushed == Push(held, byte)
     IN  /\ held' = pushed.held
         /\ failed' = (pushed.result \in Errors)
         /\ request' = IF pushed.result = "request" THEN pushed.frame ELSE request
  /\ UNCHANGED truncated

CaptureNext == \E byte \in Octets : NextByte(byte)

CaptureSpec == CaptureInit /\ [][CaptureNext]_captureVars

\* Mutated form: what follows the last complete frame is ignored.
ParsedTrailing == IF truncated \/ failed THEN <<>> ELSE request

\* What parse_packet returns for the bytes so far, as a frame; <<>> is None.
Parsed == IF truncated \/ failed \/ held # <<>> THEN <<>> ELSE request

-----------------------------------------------------------------------------
(* Properties.                                                             *)

\* What the parser holds is the beginning of a frame and the end of the
\* capture; in particular it has always room for the next byte.
CaptureTypeOK ==
  /\ capture \in Seq(Octets)
  /\ truncated \in BOOLEAN
  /\ IsPartial(held)
  /\ held = SubSeq(capture, Len(capture) - Len(held) + 1, Len(capture))
  /\ request # <<>> => IsFrame(request)

\* The frames a capture is made of, as the set of places where one ends when
\* the one after another is cut off by what its header declares.
Ends ==
  LET whole(i) == i + HeaderLen <= Len(capture) /\ capture[i + 1] = Magic
                  /\ capture[i + 3] <= MaxPayload
                  /\ i + HeaderLen + capture[i + 3] <= Len(capture)
      boundary[i \in 0 .. Len(capture)] ==
        i = 0 \/ \E j \in 0 .. i - 1 :
          boundary[j] /\ whole(j) /\ i = j + HeaderLen + capture[j + 3]
  IN  {i \in 0 .. Len(capture) : boundary[i]}

LastFrame ==
  CHOOSE frame \in {SubSeq(capture, i + 1, Len(capture)) : i \in Ends \ {Len(capture)}} :
    IsFrame(frame)

\* A capture yields a request exactly when it is complete and is one or more
\* frames with nothing before, between or after them, and it yields the last
\* one (parse_packet).
ParsesWholeCaptures ==
  Parsed = IF ~truncated /\ capture # <<>> /\ Len(capture) \in Ends
           THEN LastFrame ELSE <<>>
=============================================================================
