----------------------------- MODULE I2cBridge -----------------------------
(***************************************************************************)
(* The USB to I2C bridge: main, handle_request and reset_on_dtr_drop of    *)
(* i2c-bridge, the CDC endpoints below them and the host above.            *)
(*                                                                         *)
(* One task runs from one await to the next.  It waits for the USB         *)
(* connection, for the IN endpoint to take a packet, for DTR, for a packet *)
(* or a timer, and for an I2C transfer or DTR to drop.  Each endpoint      *)
(* holds one packet; the host takes packets while it has the port open.    *)
(* A host opens the port of a bridge that enumerated, and once per         *)
(* enumeration (REQ-BRIDGE-008).                                           *)
(***************************************************************************)
EXTENDS Framing

CONSTANTS
  WriteCommand,    \* CMD_I2C_WRITE
  ReadCommand,     \* CMD_I2C_READ
  BadAddresses,    \* the octets with bit 7 set
  Templates,       \* command, flags and payload of what the host asks
  PacketLens,      \* the packet lengths the host splits its bytes into
  MaxRequests,     \* bound: requests of a session
  I2cData,         \* what an I2C device answers with
  READY,           \* the diagnostic line
  NoPacket         \* an endpoint that holds none

ASSUME BridgeAssumption ==
  /\ WriteCommand \in Octets /\ ReadCommand \in Octets /\ WriteCommand # ReadCommand
  /\ BadAddresses \subseteq Octets
  /\ Templates \subseteq [command : Octets, flags : Octets, payload : Seq(Octets)]
  /\ \A t \in Templates : Len(t.payload) <= MaxPayload
  /\ PacketLens \subseteq Nat \ {0}
  /\ MaxRequests \in Nat /\ 1 .. MaxRequests \subseteq Octets
  /\ I2cData \subseteq Octets /\ 0 \in I2cData

\* The statuses of its responses.
Statuses == {"OK", "BAD_FLAGS", "BAD_COMMAND", "BAD_LENGTH"}

\* A packet is told from none, and a response from the diagnostic line.
ASSUME PacketAssumption ==
  /\ READY # NoPacket /\ NoPacket \notin Seq(Octets)
  /\ {READY, NoPacket} \cap [status : Statuses, sequence : Octets, payload : Seq(Octets)] = {}

VARIABLES
  pc,              \* the await main is in
  held,            \* the parser
  input,           \* the bytes of the packet it has not looked at
  request,         \* the request it handles
  readBuffer,      \* i2c_read
  output,          \* the response it writes
  configured,      \* the host enumerated the device
  session,         \* "fresh" since the boot, "open" while DTR is high, "over"
  outPacket,       \* a packet for the bridge
  inPacket,        \* a packet for the host
  unsent,          \* bytes the host has yet to put into packets
  asked,           \* the requests of the session
  answers,         \* the responses the host got
  outcomes         \* history: what the requests carried out came to

taskVars == <<pc, held, input, request, readBuffer, output>>
usbVars  == <<configured, session, outPacket, inPacket>>
hostVars == <<unsent, asked, answers>>
bridgeVars == <<taskVars, usbVars, hostVars, outcomes>>

Dtr == session = "open"

NoRequest == <<>>

-----------------------------------------------------------------------------
(* Requests and responses.                                                 *)

Asks(template, sequence) ==
  [command |-> template.command, sequence |-> sequence, flags |-> template.flags,
   payload |-> template.payload]

Requests == {Asks(template, k) : template \in Templates, k \in 1 .. MaxRequests}

\* validate_i2c_request
Validity(req) ==
  IF req.flags # 0 THEN "BAD_FLAGS"
  ELSE IF req.command \notin {WriteCommand, ReadCommand} THEN "BAD_COMMAND"
  ELSE IF req.payload = <<>> THEN "BAD_LENGTH"
  ELSE IF req.payload[1] \in BadAddresses THEN "BAD_COMMAND"
  ELSE IF req.command = ReadCommand
          /\ (Len(req.payload) # 2 \/ req.payload[2] > MaxPayload)
       THEN "BAD_LENGTH"
  ELSE "OK"

\* How many bytes a transfer reads.
ReadCount(req) == IF req.command = ReadCommand THEN req.payload[2] ELSE 0

Refused == [kind |-> "refused", data |-> <<>>]
Failed  == [kind |-> "failed", data |-> <<>>]
Done(data) == [kind |-> "done", data |-> data]

\* What can become of a request: it is refused, or its transfer fails or reads
\* as many bytes as it asks for.
Outcomes(req) ==
  IF Validity(req) # "OK" THEN {Refused}
  ELSE {Failed} \cup {Done(data) : data \in [1 .. ReadCount(req) -> I2cData]}

Response(status, req, payload) ==
  [status |-> status, sequence |-> req.sequence, payload |-> payload]

ResponseTo(req, outcome) ==
  CASE outcome.kind = "refused" -> Response(Validity(req), req, <<>>)
    [] outcome.kind = "failed"  -> Response("BAD_COMMAND", req, <<>>)
    [] outcome.kind = "done"    -> Response("OK", req, outcome.data)

-----------------------------------------------------------------------------
(* The bridge.                                                             *)

Fails == pc' = "reset" /\ UNCHANGED <<held, input, request, readBuffer, output>>
GoesTo(place) == pc' = place /\ UNCHANGED <<held, input, request, readBuffer, output>>

\* wait_connection
Connect ==
  /\ pc = "connect" /\ configured
  /\ GoesTo("ready")
  /\ UNCHANGED <<usbVars, hostVars, outcomes>>

\* write_packet: it waits for the endpoint, and fails when that is disabled.
WritePacket(place, packet, after) ==
  /\ pc = place
  /\ \/ ~configured /\ Fails /\ UNCHANGED inPacket
     \/ configured /\ inPacket = NoPacket /\ GoesTo(after) /\ inPacket' = packet
  /\ UNCHANGED <<configured, session, outPacket, hostVars, outcomes>>

WriteReady == WritePacket("ready", READY, "dtr")

SeeDtr ==
  /\ pc = "dtr" /\ Dtr
  /\ pc' = "head"
  /\ held' = <<>>
  /\ UNCHANGED <<input, request, readBuffer, output, usbVars, hostVars, outcomes>>

\* Mutated form: once served, DTR is not looked at between packets.
CheckDtrOnce ==
  /\ pc = "head"
  /\ GoesTo("read")
  /\ UNCHANGED <<usbVars, hostVars, outcomes>>

\* while cdc.dtr(), and reset_mcu after it
CheckDtr ==
  /\ pc = "head"
  /\ IF Dtr THEN GoesTo("read") ELSE Fails
  /\ UNCHANGED <<usbVars, hostVars, outcomes>>

\* read_packet: the packet has to fit into `input`, which is MAX_FRAME long.
ReadPacket ==
  /\ pc = "read" /\ configured /\ outPacket # NoPacket
  /\ outPacket' = NoPacket
  /\ IF Len(outPacket) <= MaxFrame
     THEN /\ input' = outPacket
          /\ pc' = "push"
          /\ UNCHANGED <<held, request, readBuffer, output>>
     ELSE Fails
  /\ UNCHANGED <<configured, session, inPacket, hostVars, outcomes>>

ReadFails ==
  /\ pc = "read" /\ ~configured
  /\ Fails
  /\ UNCHANGED <<usbVars, hostVars, outcomes>>

\* Mutated form: the timer is taken for a failed read.
TimeoutResets ==
  /\ pc = "read" /\ configured /\ outPacket = NoPacket
  /\ Fails
  /\ UNCHANGED <<usbVars, hostVars, outcomes>>

\* The timer of 50 ms comes first.
Timeout ==
  /\ pc = "read" /\ configured /\ outPacket = NoPacket
  /\ GoesTo("head")
  /\ UNCHANGED <<usbVars, hostVars, outcomes>>

PacketDone ==
  /\ pc = "push" /\ input = <<>>
  /\ GoesTo("head")
  /\ UNCHANGED <<usbVars, hostVars, outcomes>>

\* handle_request up to the transfer.
Handle(req) ==
  IF Validity(req) = "OK"
  THEN pc' = "transfer" /\ request' = req /\ UNCHANGED <<output, outcomes>>
  ELSE /\ pc' = "respond"
       /\ request' = NoRequest
       /\ output' = ResponseTo(req, Refused)
       /\ outcomes' = Append(outcomes, Refused)

\* Mutated form: the parser keeps a frame that is complete.
PushByteKeepsFrame ==
  /\ pc = "push" /\ input # <<>>
  /\ input' = Tail(input)
  /\ LET pushed == Push(held, Head(input))
     IN  IF pushed.result = "request"
         THEN held' = pushed.frame /\ Handle(Decoded(pushed.frame))
         ELSE /\ held' = IF pushed.result \in Errors THEN <<>> ELSE pushed.held
              /\ UNCHANGED <<pc, request, output, outcomes>>
  /\ UNCHANGED <<readBuffer, usbVars, hostVars>>

\* Mutated form: what follows a request in its packet is dropped.
PushByteDropsRest ==
  /\ pc = "push" /\ input # <<>>
  /\ LET pushed == Push(held, Head(input))
     IN  /\ held' = IF pushed.result \in Errors THEN <<>> ELSE pushed.held
         /\ IF pushed.result = "request"
            THEN input' = <<>> /\ Handle(Decoded(pushed.frame))
            ELSE input' = Tail(input) /\ UNCHANGED <<pc, request, output, outcomes>>
  /\ UNCHANGED <<readBuffer, usbVars, hostVars>>

\* One turn of the loop over the bytes of a packet.
PushByte ==
  /\ pc = "push" /\ input # <<>>
  /\ input' = Tail(input)
  /\ LET pushed == Push(held, Head(input))
     IN  /\ held' = IF pushed.result \in Errors THEN <<>> ELSE pushed.held
         /\ IF pushed.result = "request"
            THEN Handle(Decoded(pushed.frame))
            ELSE UNCHANGED <<pc, request, output, outcomes>>
  /\ UNCHANGED <<readBuffer, usbVars, hostVars>>

\* What `i2c_read` holds after a transfer put these bytes at its start.
Filled(bytes) ==
  [i \in 1 .. MaxPayload |-> IF i <= Len(bytes) THEN bytes[i] ELSE readBuffer[i]]

\* Mutated form: the buffer is sent whatever the transfer came to.
TransferEndsExposes ==
  /\ pc = "transfer"
  /\ \E got \in [1 .. ReadCount(request) -> I2cData] : \E ok \in BOOLEAN :
       /\ readBuffer' = Filled(got)
       /\ output' = Response(IF ok THEN "OK" ELSE "BAD_COMMAND", request,
                             SubSeq(Filled(got), 1, ReadCount(request)))
       /\ outcomes' = Append(outcomes, IF ok THEN Done(got) ELSE Failed)
  /\ pc' = "respond"
  /\ request' = NoRequest
  /\ UNCHANGED <<held, input, usbVars, hostVars>>

\* The I2C future is ready, with the bytes it read or with an error after some
\* of them.
TransferEnds ==
  /\ pc = "transfer"
  /\ \/ \E got \in [1 .. ReadCount(request) -> I2cData] :
          /\ readBuffer' = Filled(got)
          /\ output' = Response("OK", request, SubSeq(readBuffer', 1, ReadCount(request)))
          /\ outcomes' = Append(outcomes, Done(got))
     \/ \E n \in 0 .. ReadCount(request) : \E got \in [1 .. n -> I2cData] :
          /\ readBuffer' = Filled(got)
          /\ output' = Response("BAD_COMMAND", request, <<>>)
          /\ outcomes' = Append(outcomes, Failed)
  /\ pc' = "respond"
  /\ request' = NoRequest
  /\ UNCHANGED <<held, input, usbVars, hostVars>>

\* reset_on_dtr_drop, raced against the transfer.
DtrWatch ==
  /\ pc = "transfer" /\ ~Dtr
  /\ Fails
  /\ UNCHANGED <<usbVars, hostVars, outcomes>>

WriteResponse == WritePacket("respond", output, "push")

Task ==
  \/ Connect \/ WriteReady \/ SeeDtr \/ CheckDtr \/ ReadPacket \/ ReadFails \/ Timeout
  \/ PacketDone \/ PushByte \/ DtrWatch \/ WriteResponse

NewSession == unsent' = <<>> /\ asked' = <<>> /\ answers' = <<>> /\ outcomes' = <<>>

\* reset_mcu: RAM starts over, and the device leaves the bus.
Restart ==
  /\ pc = "reset"
  /\ pc' = "connect"
  /\ held' = <<>>
  /\ input' = <<>>
  /\ request' = NoRequest
  /\ readBuffer' = [i \in 1 .. MaxPayload |-> 0]
  /\ output' = NoPacket
  /\ configured' = FALSE
  /\ session' = "fresh"
  /\ outPacket' = NoPacket
  /\ inPacket' = NoPacket
  /\ NewSession

-----------------------------------------------------------------------------
(* The host.                                                               *)

Enumerate ==
  /\ ~configured
  /\ configured' = TRUE
  /\ UNCHANGED <<taskVars, session, outPacket, inPacket, hostVars, outcomes>>

\* The cable, or a bus reset: the endpoints are disabled and DTR is low.
Unplug ==
  /\ configured
  /\ configured' = FALSE
  /\ session' = IF session = "open" THEN "over" ELSE session
  /\ outPacket' = NoPacket
  /\ inPacket' = NoPacket
  /\ unsent' = <<>>
  /\ UNCHANGED <<taskVars, asked, answers, outcomes>>

OpenPort ==
  /\ configured /\ session = "fresh"
  /\ session' = "open"
  /\ UNCHANGED <<taskVars, configured, outPacket, inPacket, hostVars, outcomes>>

ClosePort ==
  /\ session = "open"
  /\ session' = "over"
  /\ unsent' = <<>>
  /\ UNCHANGED <<taskVars, configured, outPacket, inPacket, asked, answers, outcomes>>

\* The sequence number tells a session's requests apart.
Ask(template) ==
  /\ session = "open"
  /\ Len(asked) < MaxRequests
  /\ LET sequence == Len(asked) + 1
     IN  /\ asked' = Append(asked, Asks(template, sequence))
         /\ unsent' = unsent \o Encoded(template.command, sequence, template.flags,
                                        template.payload)
  /\ UNCHANGED <<taskVars, usbVars, answers, outcomes>>

\* A packet of one of the lengths, or of what is left.
SendPacket ==
  /\ session = "open" /\ outPacket = NoPacket /\ unsent # <<>>
  /\ \E n \in PacketLens :
       LET length == IF n <= Len(unsent) THEN n ELSE Len(unsent)
       IN  /\ outPacket' = SubSeq(unsent, 1, length)
           /\ unsent' = SubSeq(unsent, length + 1, Len(unsent))
  /\ UNCHANGED <<taskVars, configured, session, inPacket, asked, answers, outcomes>>

TakePacket ==
  /\ session = "open" /\ inPacket # NoPacket
  /\ answers' = IF inPacket = READY THEN answers ELSE Append(answers, inPacket)
  /\ inPacket' = NoPacket
  /\ UNCHANGED <<taskVars, configured, session, outPacket, unsent, asked, outcomes>>

-----------------------------------------------------------------------------

BridgeInit ==
  /\ pc = "connect"
  /\ held = <<>> /\ input = <<>> /\ request = NoRequest /\ output = NoPacket
  /\ readBuffer = [i \in 1 .. MaxPayload |-> 0]
  /\ configured = FALSE /\ session = "fresh" /\ outPacket = NoPacket /\ inPacket = NoPacket
  /\ unsent = <<>> /\ asked = <<>> /\ answers = <<>> /\ outcomes = <<>>

\* The reset takes effect at once, before the host does anything.
Host ==
  /\ pc # "reset"
  /\ \/ Enumerate \/ Unplug \/ OpenPort \/ ClosePort
     \/ \E template \in Templates : Ask(template)
     \/ SendPacket \/ TakePacket

BridgeNext == Task \/ TransferEnds \/ Restart \/ Host

BridgeSpec == BridgeInit /\ [][BridgeNext]_bridgeVars

\* The executor polls the task whenever it can go on; nothing makes a transfer
\* end, a host ask or open the port.  A host that has the port open moves
\* packets.
FairBridgeSpec ==
  /\ BridgeSpec
  /\ WF_bridgeVars(Task)
  /\ WF_bridgeVars(Restart)
  /\ WF_bridgeVars(SendPacket)
  /\ WF_bridgeVars(TakePacket)

-----------------------------------------------------------------------------
(* Properties.                                                             *)

Awaits == {"connect", "ready", "dtr", "head", "read", "push", "transfer", "respond", "reset"}

\* The parser always holds the beginning of a frame and never overflows, the
\* packet fits its buffer, a transfer has a request that passed the checks, and
\* every response fits a frame.
BridgeTypeOK ==
  /\ pc \in Awaits
  /\ IsPartial(held)
  /\ Len(input) <= MaxFrame
  /\ pc = "transfer" => request # NoRequest /\ Validity(request) = "OK"
  /\ readBuffer \in [1 .. MaxPayload -> Octets]
  /\ pc = "respond" => Len(output.payload) <= MaxPayload

\* The bridge keeps the promise of I2cServer while the port is open: every
\* request that arrives is carried out and answered once, in order, one at a
\* time and with its own outcome, however its bytes were split into packets; a
\* failed read shows no buffer; and nothing of a session reaches the next one
\* (REQ-BRIDGE-004 to 008).
InSession(history) == IF Dtr THEN history ELSE <<>>
Responses == IF inPacket \in {NoPacket, READY} THEN answers ELSE Append(answers, inPacket)

Server == INSTANCE I2cServer WITH
  asked <- InSession(asked),
  outcomes <- InSession(outcomes),
  answered <- InSession(Responses)

ImplementsI2cServer == Server!Spec

\* While the host has the port open the bridge does not reset, unless a packet
\* is longer than its buffer (main).
HostEndsSession == pc = "reset" => ~Dtr

\* Main is past its wait for DTR.
Serving == pc \in {"head", "read", "push", "transfer", "respond"}

\* A session that is over ends in a reset, in the middle of a transfer that
\* stays pending as well (REQ-BRIDGE-009), but for a response the endpoint does
\* not take (main).
EndIsNoticed ==
  (Serving /\ ~Dtr) ~> (pc = "reset" \/ (pc = "respond" /\ inPacket # NoPacket))

\* Unless an I2C transfer stays pending every request is answered or the
\* session ends: READY, the answers and the requests never wait for each other
\* (main).
RequestsAreAnswered ==
  []<>(pc # "transfer") =>
    \A k \in 1 .. MaxRequests : Len(asked) >= k ~> (Len(answers) >= k \/ ~Dtr)
=============================================================================
