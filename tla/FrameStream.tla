---------------------------- MODULE FrameStream ----------------------------
(***************************************************************************)
(* The bytes a host sends and the parser of the bridge that reads them     *)
(* (main of i2c-bridge, the loop over the bytes of a packet).  The host    *)
(* sends transmissions: frames, frames it breaks off, headers with a       *)
(* payload length that is too large, and bytes that belong to no frame.    *)
(* The magic byte may be anywhere in them: a request for the target is a   *)
(* frame in the payload of a frame.  USB loses nothing, so the parser sees *)
(* every byte in order, and packet boundaries do not matter to it.         *)
(***************************************************************************)
EXTENDS Framing

CONSTANTS
  Headers,       \* the commands, sequences and flags the host uses together
  Contents,      \* what it puts behind a header
  NoRequest      \* no request

ASSUME StreamAssumption ==
  /\ Headers \subseteq Octets \X Octets \X Octets
  /\ Contents \subseteq Seq(Octets)

VARIABLES
  sending,       \* the transmission the host is in
  sent,          \* how many of its bytes the parser has seen
  held,          \* the parser
  delivered,     \* the frame the last byte completed, if it completed one
  inStep,        \* history: the parser was empty when `sending` began
  quiet,         \* history: bytes seen since the last magic byte, up to Silence
  astray         \* history: the host may have lost the parser, see Misleading

streamVars == <<sending, sent, held, delivered, inStep, quiet, astray>>

\* The bytes a parser that has a magic byte can still be waiting for.
Silence == MaxFrame - 1

Frames ==
  {Encoded(h[1], h[2], h[3], p) : h \in Headers, p \in {p \in Contents : Len(p) <= MaxPayload}}

TooLong ==
  {<<Magic, h[1], n, h[2], h[3]>> \o p :
     h \in Headers, n \in {n \in Octets : n > MaxPayload}, p \in Contents}

\* Broken off before its end, or before its bad length counts.
BrokenOff ==
  (UNION {{SubSeq(frame, 1, n) : n \in 1 .. Len(frame) - 1} : frame \in Frames})
    \cup (UNION {{SubSeq(frame, 1, n) : n \in 1 .. HeaderLen - 1} : frame \in TooLong})

Noise == {p \in Contents : p # <<>> /\ \A i \in 1 .. Len(p) : p[i] # Magic}

Transmissions == Frames \cup TooLong \cup BrokenOff \cup Noise

\* The parser may end such a transmission in the middle of a frame: it waits
\* for the rest, or found a magic byte behind a header it gave up.
Misleading(transmission) ==
  \/ transmission \in BrokenOff
  \/ /\ transmission \in TooLong
     /\ \E i \in HeaderLen + 1 .. Len(transmission) : transmission[i] = Magic

StreamInit ==
  /\ sending = <<>>
  /\ sent = 0
  /\ held = <<>>
  /\ delivered = NoRequest
  /\ inStep = TRUE
  /\ quiet = Silence
  /\ astray = FALSE

\* How quiet it is after a byte.
QuietAfter(byte) == IF byte = Magic THEN 0 ELSE IF quiet < Silence THEN quiet + 1 ELSE quiet

\* Mutated form: an error ends the packet, and the parser is left as it is.
TakesNoReset(byte) ==
  LET pushed == Push(held, byte)
  IN  /\ held' = IF pushed.result \in Errors THEN held ELSE pushed.held
      /\ delivered' = IF pushed.result = "request" THEN pushed.frame ELSE NoRequest
      /\ quiet' = QuietAfter(byte)

\* One turn of the loop: Parser::push, and Parser::reset after an error.
Takes(byte) ==
  LET pushed == Push(held, byte)
  IN  /\ held' = IF pushed.result \in Errors THEN <<>> ELSE pushed.held
      /\ delivered' = IF pushed.result = "request" THEN pushed.frame ELSE NoRequest
      /\ quiet' = QuietAfter(byte)

BeginTransmission ==
  /\ sent = Len(sending)
  /\ \E transmission \in Transmissions :
       /\ sending' = transmission
       /\ Takes(transmission[1])
       /\ astray' = (Misleading(transmission) \/ (astray /\ quiet < Silence))
  /\ sent' = 1
  /\ inStep' = (held = <<>>)

SendByte ==
  /\ sent < Len(sending)
  /\ Takes(sending[sent + 1])
  /\ sent' = sent + 1
  /\ UNCHANGED <<sending, inStep, astray>>

StreamNext == BeginTransmission \/ SendByte

StreamSpec == StreamInit /\ [][StreamNext]_streamVars

-----------------------------------------------------------------------------
(* Properties.                                                             *)

\* The parser holds the beginning of a frame, and always has room for the next
\* byte: FrameTooLong is never returned.
StreamTypeOK ==
  /\ sent \in 0 .. Len(sending)
  /\ IsPartial(held)
  /\ delivered # NoRequest => IsFrame(delivered)
  /\ inStep \in BOOLEAN
  /\ quiet \in 0 .. Silence
  /\ astray \in BOOLEAN

\* A frame that begins when the parser is empty is delivered unchanged, with
\* its last byte and not before, and leaves the parser empty, whatever its
\* payload is, a frame for the target too; noise leaves it empty, and so does
\* a header with a bad length (REQ-BRIDGE-004).
FramesArriveWhole ==
  inStep =>
    /\ sending \in Frames =>
         /\ held = IF sent < Len(sending) THEN SubSeq(sending, 1, sent) ELSE <<>>
         /\ delivered = IF sent < Len(sending) THEN NoRequest ELSE sending
    /\ sending \in Noise \/ (sending \in TooLong /\ sent = HeaderLen) => held = <<>>

\* As many bytes without a magic byte as a frame can have after its own empty
\* the parser, wherever it was.  A transmission finds the parser empty unless
\* one before it was misleading and no such silence separates the two
\* (Parser::push, main).
RecoversInSilence ==
  /\ quiet = Silence => held = <<>>
  /\ ~astray => inStep

\* A request nobody sent takes a frame that was broken off, or a magic byte
\* behind a bad length, with no silence since: payloads alone never make one.
NoInventedRequest ==
  delivered # NoRequest => (delivered = sending /\ sent = Len(sending)) \/ astray
=============================================================================
