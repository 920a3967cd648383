-------------------------- MODULE I2cBridgeProofs --------------------------
(***************************************************************************)
(* The bridge keeps within its buffers and resets for a cause, for every   *)
(* alphabet, payload size, packet length and number of requests.           *)
(***************************************************************************)
EXTENDS I2cBridge, FramingProofs

\* All bytes under way are bytes, and an open port is that of a device the host
\* enumerated.
BytesUnderWay ==
  /\ input \in Seq(Octets)
  /\ outPacket # NoPacket => outPacket \in Seq(Octets)
  /\ unsent \in Seq(Octets)
  /\ pc = "transfer" => request.payload \in Seq(Octets)
  /\ Dtr => configured
  /\ configured \in BOOLEAN

BridgeInv == BridgeTypeOK /\ BytesUnderWay

\* A request cut out of a frame.
LEMMA DecodedRequest ==
  ASSUME NEW frame \in Seq(Octets), IsFrame(frame)
  PROVE  /\ Decoded(frame).payload \in Seq(Octets)
         /\ Decoded(frame) # NoRequest
<1>1. Len(frame) \in Nat /\ Len(frame) >= 5
  BY DEF IsFrame, HeaderLen
<1>2. SubSeq(frame, 6, Len(frame)) \in Seq(Octets)
  BY <1>1
<1>3. Decoded(frame).payload = SubSeq(frame, 6, Len(frame))
  BY DEF Decoded, HeaderLen
<1>4. "payload" \in DOMAIN Decoded(frame)
  BY DEF Decoded
<1>5. "payload" \notin DOMAIN NoRequest
  BY DEF NoRequest
<1>6. QED
  BY <1>2, <1>3, <1>4, <1>5

\* A read that passed the checks asks for what the buffer holds.
LEMMA ReadsFit ==
  ASSUME NEW req, Validity(req) = "OK", req.payload \in Seq(Octets)
  PROVE  ReadCount(req) \in 0 .. MaxPayload
<1>1. MaxPayload \in Nat /\ Octets \subseteq Nat
  BY FramingAssumption
<1>2. CASE req.command = ReadCommand
  <2> DEFINE n == req.payload[2]
  <2>1. Len(req.payload) = 2 /\ ~(n > MaxPayload)
    BY <1>2 DEF Validity
  <2>2. n \in Octets
    BY <2>1
  <2>3. ReadCount(req) = n
    BY <1>2 DEF ReadCount
  <2> HIDE DEF n
  <2>4. n \in Nat
    BY <1>1, <2>2
  <2>5. n \in 0 .. MaxPayload
    BY <1>1, <2>1, <2>4
  <2>6. QED
    BY <2>3, <2>5
<1>3. CASE req.command # ReadCommand
  BY <1>1, <1>3 DEF ReadCount
<1>4. QED
  BY <1>2, <1>3

\* A transfer leaves the buffer a buffer.
LEMMA FilledBuffer ==
  ASSUME NEW n \in 0 .. MaxPayload, NEW got \in [1 .. n -> I2cData],
         readBuffer \in [1 .. MaxPayload -> Octets]
  PROVE  Filled(got) \in [1 .. MaxPayload -> Octets]
<1>1. MaxPayload \in Nat /\ n \in Nat /\ I2cData \subseteq Octets
  BY FramingAssumption, BridgeAssumption
<1>2. Len(got) = n
  BY <1>1
<1>3. ASSUME NEW i \in 1 .. MaxPayload
      PROVE  (IF i <= Len(got) THEN got[i] ELSE readBuffer[i]) \in Octets
  BY <1>1, <1>2
<1>4. QED
  BY <1>3 DEF Filled

\* What a host asks is a frame of bytes.
LEMMA AskedBytes ==
  ASSUME NEW t \in Templates, NEW k \in 1 .. MaxRequests
  PROVE  Encoded(t.command, k, t.flags, t.payload) \in Seq(Octets)
<1>1. /\ t.command \in Octets /\ t.flags \in Octets /\ t.payload \in Seq(Octets)
      /\ Len(t.payload) <= MaxPayload
  BY BridgeAssumption
<1>2. Magic \in Octets /\ k \in Octets
  BY FramingAssumption, BridgeAssumption
<1>3. Len(t.payload) \in Octets
  <2>1. Len(t.payload) \in 0 .. MaxPayload /\ 0 .. MaxPayload \subseteq Octets
    BY <1>1, FramingAssumption
  <2>2. QED
    BY <2>1
<1>4. <<Magic, t.command, Len(t.payload), k, t.flags>> \in Seq(Octets)
  BY <1>1, <1>2, <1>3
<1>5. QED
  BY <1>1, <1>4 DEF Encoded

\* The power-up state satisfies the invariant.
LEMMA BridgeInvInit == BridgeInit => BridgeInv
<1> SUFFICES ASSUME BridgeInit PROVE BridgeInv
  OBVIOUS
<1>1. IsPartial(<<>>) /\ MaxPayload \in Nat /\ MaxFrame \in Nat /\ 0 \in Octets
  <2>1. MaxPayload \in Nat /\ 0 \in 0 .. MaxPayload
    BY FramingAssumption
  <2>2. QED
    BY <2>1, FramingAssumption DEF IsPartial, MaxFrame, HeaderLen
<1>2. [i \in 1 .. MaxPayload |-> 0] \in [1 .. MaxPayload -> Octets]
  BY <1>1
<1>3. QED
  <2>1. /\ pc = "connect" /\ held = <<>> /\ input = <<>> /\ unsent = <<>>
        /\ readBuffer \in [1 .. MaxPayload -> Octets]
        /\ configured = FALSE /\ session = "fresh" /\ outPacket = NoPacket
    BY <1>2 DEF BridgeInit
  <2>2. BridgeTypeOK
    BY <1>1, <2>1 DEF BridgeTypeOK, Awaits
  <2>3. BytesUnderWay
    <3>1. <<>> \in Seq(Octets) /\ FALSE \in BOOLEAN /\ pc # "transfer"
      BY <2>1
    <3>2. ~Dtr
      BY <2>1 DEF Dtr
    <3>3. configured \in BOOLEAN
      BY <2>1
    <3>4. QED
      BY <2>1, <3>1, <3>2, <3>3 DEF BytesUnderWay
  <2>4. QED
    BY <2>2, <2>3 DEF BridgeInv

\* A byte pushed, with what handle_request does before the transfer.
LEMMA PushByteKeepsInv ==
  ASSUME BridgeInv, PushByte
  PROVE  BridgeInv'
<1> DEFINE b == Head(input)
           pushed == Push(held, b)
           frame == Append(held, b)
<1>1. /\ input \in Seq(Octets) /\ input # <<>> /\ IsPartial(held) /\ Len(input) <= MaxFrame
      /\ held \in Seq(Octets) /\ MaxPayload \in Nat
  BY RoomForByte DEF BridgeInv, BridgeTypeOK, BytesUnderWay, PushByte
<1>2. b \in Octets /\ Tail(input) \in Seq(Octets) /\ Len(Tail(input)) <= MaxFrame
  <2>1. Len(Tail(input)) = Len(input) - 1 /\ Len(input) \in Nat
    BY <1>1
  <2>2. MaxFrame \in Nat
    BY <1>1 DEF MaxFrame, HeaderLen
  <2>3. QED
    BY <1>1, <2>1, <2>2
<1>3. /\ IsPartial(pushed.held)
      /\ pushed.result \in Errors => pushed.held = <<>>
      /\ pushed.result = "request" => pushed.frame = frame /\ IsFrame(frame)
  BY <1>1, <1>2, PushKeepsPartial DEF Errors
<1>4. /\ input' = Tail(input) /\ readBuffer' = readBuffer /\ pc = "push"
      /\ held' = IF pushed.result \in Errors THEN <<>> ELSE pushed.held
      /\ IF pushed.result = "request" THEN Handle(Decoded(pushed.frame))
         ELSE UNCHANGED <<pc, request, output, outcomes>>
      /\ UNCHANGED <<usbVars, hostVars>>
  BY DEF PushByte
<1>5. IsPartial(held')
  BY <1>3, <1>4
<1>6. /\ pc' \in {"push", "transfer", "respond"}
      /\ pc' = "transfer" => /\ request' # NoRequest /\ Validity(request') = "OK"
                             /\ request'.payload \in Seq(Octets)
      /\ pc' = "respond" => output'.payload = <<>>
  <2>1. CASE pushed.result # "request"
    BY <1>4, <2>1
  <2>2. CASE pushed.result = "request"
    <3> DEFINE req == Decoded(frame)
    <3>1. req.payload \in Seq(Octets) /\ req # NoRequest
      <4>1. frame \in Seq(Octets) /\ IsFrame(frame)
        BY <1>1, <1>2, <1>3, <2>2
      <4>2. QED
        BY <4>1, DecodedRequest
    <3>2. Handle(req)
      BY <1>3, <1>4, <2>2
    <3> HIDE DEF req
    <3>3. CASE Validity(req) = "OK"
      BY <3>1, <3>2, <3>3 DEF Handle
    <3>4. CASE Validity(req) # "OK"
      <4>1. pc' = "respond" /\ output' = ResponseTo(req, Refused)
        BY <3>2, <3>4 DEF Handle
      <4>2. output'.payload = <<>>
        BY <4>1 DEF ResponseTo, Refused, Response
      <4>3. QED
        BY <4>1, <4>2
    <3>5. QED
      BY <3>3, <3>4
  <2>3. QED
    BY <2>1, <2>2
<1>7. pc' = "respond" => Len(output'.payload) <= MaxPayload
  <2>1. Len(<<>>) <= MaxPayload
    BY <1>1
  <2>2. QED
    BY <1>6, <2>1
<1>8. BridgeTypeOK'
  BY <1>2, <1>4, <1>5, <1>6, <1>7 DEF BridgeInv, BridgeTypeOK, Awaits
<1>9. BytesUnderWay'
  BY <1>2, <1>4, <1>6 DEF BridgeInv, BytesUnderWay, usbVars, hostVars, Dtr
<1>10. QED
  BY <1>8, <1>9 DEF BridgeInv

\* A transfer fills the buffer it was checked against.
LEMMA TransferKeepsInv ==
  ASSUME BridgeInv, TransferEnds
  PROVE  BridgeInv'
<1>1. /\ pc = "transfer" /\ pc' = "respond" /\ request' = NoRequest
      /\ UNCHANGED <<held, input, usbVars, hostVars>>
  BY DEF TransferEnds
<1>2. ReadCount(request) \in 0 .. MaxPayload /\ readBuffer \in [1 .. MaxPayload -> Octets]
  BY <1>1, ReadsFit DEF BridgeInv, BridgeTypeOK, BytesUnderWay
<1>3. MaxPayload \in Nat
  BY FramingAssumption
<1>4. readBuffer' \in [1 .. MaxPayload -> Octets] /\ Len(output'.payload) <= MaxPayload
  <2>1. CASE \E got \in [1 .. ReadCount(request) -> I2cData] :
               /\ readBuffer' = Filled(got)
               /\ output' = Response("OK", request, SubSeq(readBuffer', 1, ReadCount(request)))
    <3>1. readBuffer' \in [1 .. MaxPayload -> Octets]
      BY <1>2, <2>1, FilledBuffer
    <3>2. output'.payload = SubSeq(readBuffer', 1, ReadCount(request))
      <4> DEFINE part == SubSeq(readBuffer', 1, ReadCount(request))
      <4>1. output' = Response("OK", request, part)
        BY <2>1
      <4> HIDE DEF part
      <4>2. output'.payload = part
        BY <4>1 DEF Response
      <4>3. QED
        BY <4>2 DEF part
    <3>3. Len(SubSeq(readBuffer', 1, ReadCount(request))) = ReadCount(request)
      <4>1. readBuffer' \in Seq(Octets) /\ Len(readBuffer') = MaxPayload
        BY <1>3, <3>1
      <4>2. QED
        BY <1>2, <1>3, <4>1
    <3>4. QED
      BY <1>2, <1>3, <3>1, <3>2, <3>3
  <2>2. CASE \E n \in 0 .. ReadCount(request) : \E got \in [1 .. n -> I2cData] :
               /\ readBuffer' = Filled(got)
               /\ output' = Response("BAD_COMMAND", request, <<>>)
    <3>1. PICK n \in 0 .. ReadCount(request) : \E got \in [1 .. n -> I2cData] :
               /\ readBuffer' = Filled(got)
               /\ output' = Response("BAD_COMMAND", request, <<>>)
      BY <2>2
    <3>2. n \in 0 .. MaxPayload
      BY <1>2, <1>3
    <3>3. readBuffer' \in [1 .. MaxPayload -> Octets]
      BY <1>2, <3>1, <3>2, FilledBuffer
    <3>4. output'.payload = <<>>
      BY <3>1 DEF Response
    <3>5. QED
      BY <1>3, <3>3, <3>4
  <2>3. QED
    BY <2>1, <2>2 DEF TransferEnds
<1>5. BridgeTypeOK'
  BY <1>1, <1>4 DEF BridgeInv, BridgeTypeOK, Awaits
<1>6. BytesUnderWay'
  BY <1>1 DEF BridgeInv, BytesUnderWay, usbVars, hostVars, Dtr
<1>7. QED
  BY <1>5, <1>6 DEF BridgeInv

\* What the host does.
LEMMA HostKeepsInv ==
  ASSUME BridgeInv, Host
  PROVE  BridgeInv'
<1>1. ASSUME UNCHANGED taskVars, unsent' \in Seq(Octets),
             outPacket' # NoPacket => outPacket' \in Seq(Octets),
             (session' = "open") => configured', configured' \in BOOLEAN
      PROVE  BridgeInv'
  BY <1>1 DEF BridgeInv, BridgeTypeOK, BytesUnderWay, taskVars, Dtr
<1>2. /\ unsent \in Seq(Octets) /\ (outPacket # NoPacket => outPacket \in Seq(Octets))
      /\ (session = "open" => configured) /\ configured \in BOOLEAN /\ <<>> \in Seq(Octets)
  BY DEF BridgeInv, BytesUnderWay, Dtr
<1>3. CASE Enumerate
  BY <1>1, <1>2, <1>3 DEF Enumerate, hostVars
<1>4. CASE Unplug
  BY <1>1, <1>2, <1>4 DEF Unplug
<1>5. CASE OpenPort
  BY <1>1, <1>2, <1>5 DEF OpenPort, hostVars
<1>6. CASE ClosePort
  BY <1>1, <1>2, <1>6 DEF ClosePort
<1>7. ASSUME NEW t \in Templates, Ask(t) PROVE BridgeInv'
  <2> DEFINE bytes == Encoded(t.command, Len(asked) + 1, t.flags, t.payload)
  <2>1. unsent' = unsent \o bytes /\ Len(asked) < MaxRequests
    BY <1>7 DEF Ask
  <2>2. CASE Len(asked) + 1 \in 1 .. MaxRequests
    <3>1. bytes \in Seq(Octets)
      BY <2>2, AskedBytes
    <3>2. unsent' \in Seq(Octets)
      BY <1>2, <2>1, <3>1
    <3>3. QED
      BY <1>1, <1>2, <1>7, <3>2 DEF Ask, usbVars
  <2>3. QED
    BY <2>1, <2>2, BridgeAssumption DEF BridgeInv, BytesUnderWay
<1>8. CASE SendPacket
  <2>1. PICK n \in PacketLens :
          LET length == IF n <= Len(unsent) THEN n ELSE Len(unsent)
          IN  /\ outPacket' = SubSeq(unsent, 1, length)
              /\ unsent' = SubSeq(unsent, length + 1, Len(unsent))
    BY <1>8 DEF SendPacket
  <2> DEFINE length == IF n <= Len(unsent) THEN n ELSE Len(unsent)
  <2>2. length \in 0 .. Len(unsent) /\ Len(unsent) \in Nat
    BY <1>2, BridgeAssumption
  <2>3. outPacket' = SubSeq(unsent, 1, length) /\ unsent' = SubSeq(unsent, length + 1, Len(unsent))
    BY <2>1
  <2> HIDE DEF length
  <2>4. outPacket' \in Seq(Octets) /\ unsent' \in Seq(Octets)
    BY <1>2, <2>2, <2>3
  <2>5. QED
    BY <1>1, <1>2, <1>8, <2>4 DEF SendPacket
<1>9. CASE TakePacket
  BY <1>1, <1>2, <1>9 DEF TakePacket
<1>10. QED
  BY <1>3, <1>4, <1>5, <1>6, <1>7, <1>8, <1>9 DEF Host

\* Every step keeps the invariant.
LEMMA BridgeInvNext == BridgeInv /\ [BridgeNext]_bridgeVars => BridgeInv'
<1> SUFFICES ASSUME BridgeInv, [BridgeNext]_bridgeVars PROVE BridgeInv'
  OBVIOUS
<1>1. ASSUME pc' \in Awaits \ {"transfer", "respond"},
             UNCHANGED <<held, input, readBuffer, configured, session, outPacket, hostVars>>
      PROVE  BridgeInv'
  BY <1>1 DEF BridgeInv, BridgeTypeOK, BytesUnderWay, hostVars, Dtr
<1>2. CASE Connect
  BY <1>1, <1>2 DEF Connect, GoesTo, usbVars, Awaits
<1>3. CASE WriteReady
  BY <1>1, <1>3 DEF WriteReady, WritePacket, GoesTo, Fails, Awaits
<1>4. CASE SeeDtr
  <2>1. IsPartial(<<>>)
    BY DEF IsPartial, HeaderLen
  <2>2. QED
    BY <1>4, <2>1
       DEF SeeDtr, BridgeInv, BridgeTypeOK, BytesUnderWay, usbVars, hostVars, Dtr, Awaits
<1>5. CASE CheckDtr
  BY <1>1, <1>5 DEF CheckDtr, GoesTo, Fails, usbVars, Awaits
<1>6. CASE ReadPacket
  <2>1. outPacket' = NoPacket /\ outPacket \in Seq(Octets) /\ readBuffer' = readBuffer
        /\ held' = held /\ configured' = configured /\ session' = session /\ unsent' = unsent
    BY <1>6 DEF ReadPacket, BridgeInv, BytesUnderWay, Fails, hostVars
  <2>2. CASE Len(outPacket) <= MaxFrame
    BY <1>6, <2>1, <2>2 DEF ReadPacket, BridgeInv, BridgeTypeOK, BytesUnderWay, Dtr, Awaits
  <2>3. CASE ~(Len(outPacket) <= MaxFrame)
    BY <1>6, <2>1, <2>3 DEF ReadPacket, Fails, BridgeInv, BridgeTypeOK, BytesUnderWay, Dtr, Awaits
  <2>4. QED
    BY <2>2, <2>3
<1>7. CASE ReadFails
  BY <1>1, <1>7 DEF ReadFails, Fails, usbVars, Awaits
<1>8. CASE Timeout
  BY <1>1, <1>8 DEF Timeout, GoesTo, usbVars, Awaits
<1>9. CASE PacketDone
  BY <1>1, <1>9 DEF PacketDone, GoesTo, usbVars, Awaits
<1>10. CASE DtrWatch
  BY <1>1, <1>10 DEF DtrWatch, Fails, usbVars, Awaits
<1>11. CASE WriteResponse
  BY <1>1, <1>11 DEF WriteResponse, WritePacket, GoesTo, Fails, Awaits
<1>12. CASE Restart
  <2>1. IsPartial(<<>>) /\ MaxFrame \in Nat /\ 0 \in Octets
    <3>1. MaxPayload \in Nat /\ 0 \in 0 .. MaxPayload
      BY FramingAssumption
    <3>2. QED
      BY <3>1, FramingAssumption DEF IsPartial, MaxFrame, HeaderLen
  <2>2. /\ pc' = "connect" /\ held' = <<>> /\ input' = <<>> /\ unsent' = <<>>
        /\ readBuffer' = [i \in 1 .. MaxPayload |-> 0]
        /\ configured' = FALSE /\ session' = "fresh" /\ outPacket' = NoPacket
    BY <1>12 DEF Restart, NewSession
  <2>3. BridgeTypeOK'
    BY <2>1, <2>2 DEF BridgeTypeOK, Awaits
  <2>4. BytesUnderWay'
    <3>1. <<>> \in Seq(Octets) /\ pc' # "transfer"
      BY <2>2
    <3>2. ~Dtr'
      BY <2>2 DEF Dtr
    <3>3. configured' \in BOOLEAN
      BY <2>2
    <3>4. QED
      BY <2>2, <3>1, <3>2, <3>3 DEF BytesUnderWay
  <2>5. QED
    BY <2>3, <2>4 DEF BridgeInv
<1>13. CASE UNCHANGED bridgeVars
  BY <1>13 DEF bridgeVars, taskVars, usbVars, hostVars, BridgeInv, BridgeTypeOK, BytesUnderWay, Dtr
<1>14. QED
  BY <1>2, <1>3, <1>4, <1>5, <1>6, <1>7, <1>8, <1>9, <1>10, <1>11, <1>12, <1>13,
     PushByteKeepsInv, TransferKeepsInv, HostKeepsInv
     DEF BridgeNext, Task

\* The invariant of the bridge.
LEMMA BridgeInvariant == BridgeSpec => []BridgeInv
BY BridgeInvInit, BridgeInvNext, PTL DEF BridgeSpec

-----------------------------------------------------------------------------
(* Theorems.                                                               *)

\* The parser never overflows, packets and responses fit their buffers, and a
\* transfer has a request that passed the checks (main, handle_request).
THEOREM BridgeTypeCorrect == BridgeSpec => []BridgeTypeOK
<1>1. BridgeInv => BridgeTypeOK
  BY DEF BridgeInv
<1>2. QED
  BY <1>1, BridgeInvariant, PTL

\* A packet on its way fits the buffer, and a reset was not caused by one.
ResetHasCause ==
  /\ outPacket # NoPacket => Len(outPacket) <= MaxFrame
  /\ HostEndsSession

\* While a host keeps its packets as short as the buffer and the port open, the
\* bridge does not reset under it (main).
THEOREM HostEndsItsSession ==
  ASSUME \A n \in PacketLens : n <= MaxFrame
  PROVE  BridgeSpec => []HostEndsSession
<1>1. MaxFrame \in Nat
  BY FramingAssumption DEF MaxFrame, HeaderLen
<1>2. BridgeInit => ResetHasCause
  BY DEF BridgeInit, ResetHasCause, HostEndsSession
<1>3. BridgeInv /\ ResetHasCause /\ [BridgeNext]_bridgeVars => ResetHasCause'
  <2> SUFFICES ASSUME BridgeInv, ResetHasCause, [BridgeNext]_bridgeVars PROVE ResetHasCause'
    OBVIOUS
  <2>1. (Dtr => configured) /\ (outPacket # NoPacket => Len(outPacket) <= MaxFrame)
        /\ (pc = "reset" => ~Dtr) /\ unsent \in Seq(Octets)
    BY DEF BridgeInv, BytesUnderWay, ResetHasCause, HostEndsSession
  <2>2. ASSUME pc' # "reset", outPacket' = outPacket \/ outPacket' = NoPacket
        PROVE  ResetHasCause'
    BY <2>1, <2>2 DEF ResetHasCause, HostEndsSession
  <2>3. ASSUME ~Dtr, session' = session, outPacket' = outPacket \/ outPacket' = NoPacket
        PROVE  ResetHasCause'
    BY <2>1, <2>3 DEF ResetHasCause, HostEndsSession, Dtr
  <2>4. CASE Connect \/ SeeDtr \/ Timeout \/ PacketDone
    BY <2>2, <2>4 DEF Connect, SeeDtr, Timeout, PacketDone, GoesTo, usbVars
  <2>5. CASE WriteReady \/ WriteResponse
    BY <2>1, <2>2, <2>3, <2>5 DEF WriteReady, WriteResponse, WritePacket, GoesTo
  <2>6. CASE CheckDtr \/ ReadFails \/ DtrWatch
    BY <2>1, <2>2, <2>3, <2>6 DEF CheckDtr, ReadFails, DtrWatch, GoesTo, usbVars
  <2>7. CASE ReadPacket
    BY <2>1, <2>2, <2>7 DEF ReadPacket
  <2>8. CASE PushByte
    BY <2>2, <2>8 DEF PushByte, Handle, usbVars
  <2>9. CASE TransferEnds
    BY <2>2, <2>9 DEF TransferEnds, usbVars
  <2>10. CASE Restart
    BY <2>2, <2>10 DEF Restart
  <2>11. CASE Host
    <3>1. pc' = pc /\ pc # "reset"
      BY <2>11 DEF Host, Enumerate, Unplug, OpenPort, ClosePort, Ask, SendPacket, TakePacket, taskVars
    <3>2. CASE SendPacket
      <4>1. PICK n \in PacketLens :
              LET length == IF n <= Len(unsent) THEN n ELSE Len(unsent)
              IN  outPacket' = SubSeq(unsent, 1, length)
        BY <3>2 DEF SendPacket
      <4> DEFINE length == IF n <= Len(unsent) THEN n ELSE Len(unsent)
      <4>2. length \in 0 .. Len(unsent) /\ length <= MaxFrame /\ Len(unsent) \in Nat
        BY <1>1, <2>1, BridgeAssumption
      <4>3. outPacket' = SubSeq(unsent, 1, length)
        BY <4>1
      <4> HIDE DEF length
      <4>4. Len(outPacket') = length
        BY <2>1, <4>2, <4>3
      <4>5. QED
        BY <3>1, <4>2, <4>4 DEF ResetHasCause, HostEndsSession
    <3>3. CASE ~SendPacket
      <4>1. outPacket' = outPacket \/ outPacket' = NoPacket
        BY <2>11, <3>3 DEF Host, Enumerate, Unplug, OpenPort, ClosePort, Ask, TakePacket, usbVars
      <4>2. QED
        BY <2>2, <3>1, <4>1
    <3>4. QED
      BY <3>2, <3>3
  <2>12. CASE UNCHANGED bridgeVars
    BY <2>1, <2>12 DEF bridgeVars, taskVars, usbVars, ResetHasCause, HostEndsSession, Dtr
  <2>13. QED
    BY <2>4, <2>5, <2>6, <2>7, <2>8, <2>9, <2>10, <2>11, <2>12 DEF BridgeNext, Task
<1>4. ResetHasCause => HostEndsSession
  BY DEF ResetHasCause
<1>5. QED
  BY <1>2, <1>3, <1>4, BridgeInvariant, PTL DEF BridgeSpec

-----------------------------------------------------------------------------
(* The bridge implements I2cServer, for every alphabet, every request and  *)
(* every way to split the bytes of the requests into packets.  First, a    *)
(* stream of requests.                                                     *)

\* A request on the wire.
Frame(req) == Encoded(req.command, req.sequence, req.flags, req.payload)

\* The stream is cut into the frames of the requests after the first `done`;
\* request k ends at cut[k].
CutAt(cut, stream, reqs, done) ==
  /\ cut[done] = 0
  /\ cut[Len(reqs)] = Len(stream)
  /\ \A j, k \in done .. Len(reqs) : j <= k => cut[j] <= cut[k]
  /\ \A k \in done + 1 .. Len(reqs) :
       /\ cut[k] = cut[k - 1] + Len(Frame(reqs[k]))
       /\ \A i \in 1 .. Len(Frame(reqs[k])) : stream[cut[k - 1] + i] = Frame(reqs[k])[i]

Carries(stream, reqs, done) ==
  \E cut \in [0 .. Len(reqs) -> Nat] : CutAt(cut, stream, reqs, done)

\* What a request is on the wire, and that it can be had back.
LEMMA RequestFrame ==
  ASSUME NEW req \in Requests
  PROVE  /\ Frame(req) \in Seq(Octets) /\ IsFrame(Frame(req))
         /\ Len(Frame(req)) \in Nat /\ Len(Frame(req)) >= 5
         /\ Decoded(Frame(req)) = req
         /\ req.sequence \in Octets
<1>1. PICK t \in Templates, k \in 1 .. MaxRequests : req = Asks(t, k)
  BY DEF Requests
<1>2. /\ t.command \in Octets /\ t.flags \in Octets /\ t.payload \in Seq(Octets)
      /\ Len(t.payload) <= MaxPayload /\ k \in Octets
  BY BridgeAssumption
<1>3. req = [command |-> t.command, sequence |-> k, flags |-> t.flags, payload |-> t.payload]
  BY <1>1 DEF Asks
<1>4. Frame(req) = Encoded(t.command, k, t.flags, t.payload) /\ req.sequence = k
  BY <1>3 DEF Frame
<1> DEFINE f == Encoded(t.command, k, t.flags, t.payload)
<1>5. /\ f \in Seq(Octets) /\ IsFrame(f) /\ Len(f) \in Nat /\ Len(f) >= 5
      /\ Decoded(f) = [command |-> t.command, sequence |-> k, flags |-> t.flags,
                       payload |-> t.payload]
  BY <1>2, EncodedIsFrame
<1> HIDE DEF f
<1>6. QED
  BY <1>2, <1>3, <1>4, <1>5 DEF f

\* Nothing is under way.
LEMMA CarriesNothing == Carries(<<>>, <<>>, 0)
<1> DEFINE cut == [i \in 0 .. 0 |-> 0]
<1>1. cut \in [0 .. 0 -> Nat] /\ Len(<<>>) = 0
  OBVIOUS
<1>2. CutAt(cut, <<>>, <<>>, 0)
  BY <1>1 DEF CutAt
<1>3. QED
  BY <1>1, <1>2 DEF Carries

\* One request more.
LEMMA CarriesMore ==
  ASSUME NEW reqs \in Seq(Requests), NEW done \in 0 .. Len(reqs), NEW stream \in Seq(Octets),
         Carries(stream, reqs, done), NEW req \in Requests
  PROVE  Carries(stream \o Frame(req), Append(reqs, req), done)
<1>1. PICK cut \in [0 .. Len(reqs) -> Nat] : CutAt(cut, stream, reqs, done)
  BY DEF Carries
<1> DEFINE n == Len(reqs)
           f == Frame(req)
           longer == stream \o f
           more == Append(reqs, req)
           cut2 == [k \in 0 .. n + 1 |-> IF k <= n THEN cut[k] ELSE Len(stream) + Len(f)]
<1>2. n \in Nat /\ f \in Seq(Octets) /\ Len(f) \in Nat /\ Len(stream) \in Nat
  BY RequestFrame
<1>3. /\ Len(longer) = Len(stream) + Len(f)
      /\ \A i \in 1 .. Len(stream) : longer[i] = stream[i]
      /\ \A i \in 1 .. Len(f) : longer[Len(stream) + i] = f[i]
  BY <1>2
<1>4. Len(more) = n + 1 /\ more[n + 1] = req /\ \A k \in 1 .. n : more[k] = reqs[k]
  BY <1>2
<1>5. /\ cut[done] = 0 /\ cut[n] = Len(stream)
      /\ \A j, k \in done .. n : j <= k => cut[j] <= cut[k]
  BY <1>1 DEF CutAt
<1>6. ASSUME NEW k \in 1 .. n
      PROVE  reqs[k] \in Requests /\ Len(Frame(reqs[k])) \in Nat
  BY <1>2, RequestFrame
<1>7. cut2 \in [0 .. n + 1 -> Nat]
  BY <1>2
<1>8. /\ \A k \in 0 .. n : cut2[k] = cut[k]
      /\ cut2[n + 1] = Len(stream) + Len(f)
  BY <1>2
<1> HIDE DEF cut2, longer, more, f, n
<1>9. cut2[done] = 0 /\ cut2[n + 1] = Len(longer)
  BY <1>2, <1>3, <1>5, <1>8 DEF n
<1>10. ASSUME NEW j \in done .. n + 1, NEW k \in done .. n + 1, j <= k
       PROVE  cut2[j] <= cut2[k]
  <2>1. CASE k <= n
    BY <1>2, <1>5, <1>8, <1>10, <2>1
  <2>2. CASE k = n + 1 /\ j <= n
    <3>1. cut[j] <= Len(stream) /\ cut[j] \in Nat
      BY <1>2, <1>5, <2>2 DEF n
    <3>2. QED
      BY <1>2, <1>8, <2>2, <3>1
  <2>3. CASE k = n + 1 /\ j = n + 1
    BY <1>2, <1>8, <2>3
  <2>4. QED
    BY <1>2, <1>10, <2>1, <2>2, <2>3
<1>11. ASSUME NEW k \in done + 1 .. n + 1
       PROVE  /\ cut2[k] = cut2[k - 1] + Len(Frame(more[k]))
              /\ \A i \in 1 .. Len(Frame(more[k])) : longer[cut2[k - 1] + i] = Frame(more[k])[i]
  <2>1. CASE k <= n
    <3>1. k \in 1 .. n /\ k - 1 \in 0 .. n /\ k \in done + 1 .. n /\ k \in done .. n
      BY <1>2, <2>1
    <3>2. cut2[k] = cut[k] /\ cut2[k - 1] = cut[k - 1] /\ more[k] = reqs[k]
      BY <1>4, <1>8, <3>1
    <3>3. /\ cut[k] = cut[k - 1] + Len(Frame(reqs[k]))
          /\ \A i \in 1 .. Len(Frame(reqs[k])) : stream[cut[k - 1] + i] = Frame(reqs[k])[i]
      BY <1>1, <3>1 DEF CutAt, n
    <3>4. cut[k - 1] \in Nat /\ Len(Frame(reqs[k])) \in Nat /\ cut[k] <= Len(stream)
      <4>1. n \in done .. n /\ k <= n
        BY <1>2, <3>1
      <4>2. cut[k - 1] \in Nat
        BY <3>1 DEF n
      <4>3. Len(Frame(reqs[k])) \in Nat
        BY <1>6, <3>1
      <4>4. QED
        BY <1>5, <3>1, <4>1, <4>2, <4>3
    <3>5. \A i \in 1 .. Len(Frame(reqs[k])) : cut[k - 1] + i \in 1 .. Len(stream)
      BY <1>2, <3>3, <3>4
    <3>6. QED
      BY <1>3, <3>2, <3>3, <3>5
  <2>2. CASE k = n + 1
    <3>1. cut2[k] = Len(stream) + Len(f) /\ cut2[k - 1] = Len(stream) /\ more[k] = req
      BY <1>2, <1>4, <1>5, <1>8, <2>2
    <3>2. QED
      BY <1>2, <1>3, <3>1 DEF f
  <2>3. QED
    BY <1>2, <2>1, <2>2
<1>12. CutAt(cut2, longer, more, done)
  BY <1>4, <1>9, <1>10, <1>11 DEF CutAt
<1>13. Carries(longer, more, done)
  BY <1>4, <1>7, <1>12 DEF Carries
<1>14. QED
  BY <1>13 DEF longer, more, f

\* A stream that is not empty begins with the next request.
LEMMA CarriesFirst ==
  ASSUME NEW reqs \in Seq(Requests), NEW done \in 0 .. Len(reqs), NEW stream \in Seq(Octets),
         Carries(stream, reqs, done), stream # <<>>
  PROVE  /\ done < Len(reqs)
         /\ Len(Frame(reqs[done + 1])) <= Len(stream)
         /\ \A i \in 1 .. Len(Frame(reqs[done + 1])) : stream[i] = Frame(reqs[done + 1])[i]
<1>1. PICK cut \in [0 .. Len(reqs) -> Nat] : CutAt(cut, stream, reqs, done)
  BY DEF Carries
<1>2. Len(stream) \in Nat /\ Len(stream) # 0 /\ Len(reqs) \in Nat
  OBVIOUS
<1>3. cut[done] = 0 /\ cut[Len(reqs)] = Len(stream)
  BY <1>1 DEF CutAt
<1>4. done < Len(reqs)
  BY <1>2, <1>3
<1>5. /\ done + 1 \in done + 1 .. Len(reqs) /\ (done + 1) - 1 = done /\ reqs[done + 1] \in Requests
      /\ done + 1 \in done .. Len(reqs) /\ Len(reqs) \in done .. Len(reqs)
  BY <1>2, <1>4
<1>6. Len(Frame(reqs[done + 1])) \in Nat
  BY <1>5, RequestFrame
<1>7. cut[done + 1] <= Len(stream)
  BY <1>1, <1>3, <1>5 DEF CutAt
<1>8. /\ cut[done + 1] = cut[done] + Len(Frame(reqs[done + 1]))
      /\ \A i \in 1 .. Len(Frame(reqs[done + 1])) : stream[cut[done] + i] = Frame(reqs[done + 1])[i]
  BY <1>1, <1>5 DEF CutAt
<1>9. QED
  BY <1>3, <1>4, <1>6, <1>7, <1>8

\* What is left behind the next request.
LEMMA CarriesRest ==
  ASSUME NEW reqs \in Seq(Requests), NEW done \in 0 .. Len(reqs) - 1, NEW rest \in Seq(Octets),
         Carries(Frame(reqs[done + 1]) \o rest, reqs, done)
  PROVE  Carries(rest, reqs, done + 1)
<1> DEFINE f == Frame(reqs[done + 1])
           stream == f \o rest
           n == Len(reqs)
<1>1. PICK cut \in [0 .. n -> Nat] : CutAt(cut, stream, reqs, done)
  BY DEF Carries
<1>2. n \in Nat /\ done + 1 \in 1 .. n /\ \A k \in 1 .. n : reqs[k] \in Requests
  OBVIOUS
<1>3. f \in Seq(Octets) /\ Len(f) \in Nat /\ Len(rest) \in Nat
  BY <1>2, RequestFrame
<1>4. Len(stream) = Len(f) + Len(rest) /\ \A i \in 1 .. Len(rest) : stream[Len(f) + i] = rest[i]
  BY <1>3
<1> HIDE DEF f, stream, n
<1>5. /\ cut[done] = 0 /\ cut[n] = Len(stream)
      /\ \A j, k \in done .. n : j <= k => cut[j] <= cut[k]
  BY <1>1 DEF CutAt, n
<1>6. \A k \in 0 .. n : cut[k] \in Nat
  OBVIOUS
<1>7. cut[done + 1] = Len(f)
  <2>1. done + 1 \in done + 1 .. n /\ (done + 1) - 1 = done
    BY <1>2
  <2>2. cut[done + 1] = cut[done] + Len(f)
    BY <1>1, <2>1 DEF CutAt, n, f
  <2>3. QED
    BY <1>3, <1>5, <2>2
<1>8. ASSUME NEW k \in done + 1 .. n PROVE cut[k] >= Len(f)
  <2>1. done + 1 \in done .. n /\ k \in done .. n /\ done + 1 <= k
    BY <1>2
  <2>2. cut[done + 1] <= cut[k]
    BY <1>5, <2>1
  <2>3. QED
    BY <1>2, <1>3, <1>6, <1>7, <2>2
<1> DEFINE cut2 == [k \in 0 .. n |-> IF k > done THEN cut[k] - Len(f) ELSE 0]
<1>9. \A k \in done + 1 .. n : cut2[k] = cut[k] - Len(f)
  BY <1>2
<1>10. cut2 \in [0 .. n -> Nat]
  <2>1. ASSUME NEW k \in 0 .. n PROVE (IF k > done THEN cut[k] - Len(f) ELSE 0) \in Nat
    <3>1. CASE k > done
      <4>1. k \in done + 1 .. n
        BY <1>2, <3>1
      <4>2. cut[k] >= Len(f) /\ cut[k] \in Nat
        BY <1>6, <1>8, <4>1
      <4>3. QED
        BY <1>3, <3>1, <4>2
    <3>2. QED
      BY <3>1
  <2>2. QED
    BY <2>1
<1> HIDE DEF cut2
<1>11. cut2[done + 1] = 0 /\ cut2[n] = Len(rest)
  <2>1. done + 1 \in done + 1 .. n /\ n \in done + 1 .. n
    BY <1>2
  <2>2. QED
    BY <1>3, <1>4, <1>5, <1>7, <1>9, <2>1
<1>12. ASSUME NEW j \in done + 1 .. n, NEW k \in done + 1 .. n, j <= k
       PROVE  cut2[j] <= cut2[k]
  <2>1. j \in done .. n /\ k \in done .. n /\ j \in 0 .. n /\ k \in 0 .. n
    BY <1>2
  <2>2. cut[j] <= cut[k]
    BY <1>5, <1>12, <2>1
  <2>3. QED
    BY <1>3, <1>6, <1>9, <2>1, <2>2
<1>13. ASSUME NEW k \in (done + 1) + 1 .. n
       PROVE  /\ cut2[k] = cut2[k - 1] + Len(Frame(reqs[k]))
              /\ \A i \in 1 .. Len(Frame(reqs[k])) : rest[cut2[k - 1] + i] = Frame(reqs[k])[i]
  <2> DEFINE c == cut[k - 1]
             m == Len(Frame(reqs[k]))
  <2>1. /\ k \in 1 .. n /\ k \in 0 .. n /\ k - 1 \in 0 .. n
        /\ k \in done + 1 .. n /\ k - 1 \in done + 1 .. n
    BY <1>2
  <2>2. cut[k] \in Nat /\ c \in Nat /\ m \in Nat
    BY <1>2, <1>6, <2>1, RequestFrame
  <2>3. /\ cut[k] = c + m
        /\ \A i \in 1 .. m : stream[c + i] = Frame(reqs[k])[i]
    BY <1>1, <2>1 DEF CutAt, n
  <2>4. c >= Len(f)
    BY <1>8, <2>1
  <2>5. cut2[k] = cut[k] - Len(f) /\ cut2[k - 1] = c - Len(f)
    BY <1>9, <2>1
  <2>6. cut[k] <= Len(stream)
    <3>1. k \in done .. n /\ n \in done .. n /\ k <= n
      BY <1>2, <2>1
    <3>2. QED
      BY <1>5, <3>1
  <2> HIDE DEF c, m
  <2>7. cut2[k] = cut2[k - 1] + m
    BY <1>3, <2>2, <2>3, <2>5
  <2>8. ASSUME NEW i \in 1 .. m PROVE rest[cut2[k - 1] + i] = Frame(reqs[k])[i]
    <3>1. cut2[k - 1] + i \in 1 .. Len(rest) /\ Len(f) + (cut2[k - 1] + i) = c + i
      BY <1>3, <1>4, <2>2, <2>3, <2>4, <2>5, <2>6
    <3>2. stream[Len(f) + (cut2[k - 1] + i)] = rest[cut2[k - 1] + i]
      BY <1>4, <3>1
    <3>3. QED
      BY <2>3, <3>1, <3>2
  <2>9. QED
    BY <2>7, <2>8 DEF m
<1>14. CutAt(cut2, rest, reqs, done + 1)
  BY <1>11, <1>12, <1>13 DEF CutAt, n
<1>15. QED
  BY <1>10, <1>14 DEF Carries, n

-----------------------------------------------------------------------------
(* The bytes between the host and the requests handled.                    *)

Waiting == IF outPacket = NoPacket THEN <<>> ELSE outPacket
Stream  == held \o (input \o (Waiting \o unsent))

\* The requests cut out of the stream so far.
Handled == Len(outcomes) + (IF pc = "transfer" THEN 1 ELSE 0)

\* The next byte of a frame.
LEMMA PushInFrame ==
  ASSUME NEW h, IsPartial(h), NEW b \in Octets, NEW f \in Seq(Octets), IsFrame(f),
         \A i \in 1 .. Len(f) : i <= Len(h) + 1 => Append(h, b)[i] = f[i]
  PROVE  /\ Append(h, b) = f => Push(h, b).result = "request"
         /\ Append(h, b) # f => Push(h, b).result = "incomplete"
<1> DEFINE a == Append(h, b)
<1>1. /\ h \in Seq(Octets) /\ Len(h) \in Nat /\ a \in Seq(Octets) /\ Len(a) = Len(h) + 1
      /\ \A i \in 1 .. Len(h) : a[i] = h[i]
  BY RoomForByte
<1>2. /\ Len(f) \in Nat /\ Len(f) >= 5 /\ f[1] = Magic /\ DeclaredLen(f) <= MaxPayload
      /\ Len(f) = 5 + DeclaredLen(f)
  BY DEF IsFrame, HeaderLen
<1>3. Len(a) <= Len(f)
  <2>1. CASE Len(h) >= 5
    <3>1. h[3] = f[3]
      BY <1>1, <1>2, <2>1
    <3>2. Len(h) < 5 + DeclaredLen(h)
      BY <2>1 DEF IsPartial, HeaderLen
    <3>3. QED
      BY <1>1, <1>2, <3>1, <3>2 DEF DeclaredLen
  <2>2. CASE Len(h) < 5
    BY <1>1, <1>2, <2>2
  <2>3. QED
    BY <1>1, <2>1, <2>2
<1>4. CASE Len(a) = Len(f)
  <2>1. \A i \in 1 .. Len(a) : a[i] = f[i]
    BY <1>1, <1>4
  <2>2. a = f
    BY <1>1, <1>4, <2>1, SeqEqual
  <2>3. QED
    BY <2>2, FrameEndsWhole
<1>5. CASE Len(a) < Len(f)
  <2>1. a # f
    BY <1>1, <1>2, <1>5
  <2>2. a # <<>> /\ a[1] = f[1] /\ (Len(a) >= 5 => a[3] = f[3])
    BY <1>1, <1>2, <1>5
  <2>3. IsPartial(a)
    BY <1>1, <1>2, <1>5, <2>2 DEF IsPartial, HeaderLen, DeclaredLen
  <2>4. QED
    BY <2>1, <2>3, PartialGoesOn
<1>6. QED
  BY <1>1, <1>2, <1>3, <1>4, <1>5

\* A byte that goes from one sequence to the one before it.
LEMMA ShiftByte ==
  ASSUME NEW S, NEW s \in Seq(S), NEW t \in Seq(S), t # <<>>, NEW u \in Seq(S)
  PROVE  Append(s, Head(t)) \o (Tail(t) \o u) = s \o (t \o u)
<1>1. Head(t) \in S /\ Tail(t) \in Seq(S) /\ t = <<Head(t)>> \o Tail(t)
  OBVIOUS
<1> DEFINE b == <<Head(t)>>
           r == Tail(t)
<1>2. b \in Seq(S) /\ Append(s, Head(t)) = s \o b
  BY <1>1, AppendIsConcat
<1>3. t = b \o r /\ r \in Seq(S)
  BY <1>1
<1> HIDE DEF b, r
<1>4. r \o u \in Seq(S)
  BY <1>3, ConcatProperties
<1>5. b \o (r \o u) = (b \o r) \o u
  BY <1>2, <1>3, ConcatAssociative, SMTT(30)
<1>6. (s \o b) \o (r \o u) = s \o (b \o (r \o u))
  BY <1>2, <1>4, ConcatAssociative, SMTT(30)
<1>7. Append(s, Head(t)) \o (r \o u) = s \o (t \o u)
  BY <1>2, <1>3, <1>5, <1>6
<1>8. QED
  BY <1>7 DEF r

\* The stream is one of bytes.
LEMMA StreamOfBytes ==
  ASSUME BridgeInv
  PROVE  /\ held \in Seq(Octets) /\ input \in Seq(Octets) /\ Waiting \in Seq(Octets)
         /\ unsent \in Seq(Octets) /\ Waiting \o unsent \in Seq(Octets)
         /\ Stream \in Seq(Octets)
<1>1. held \in Seq(Octets) /\ input \in Seq(Octets) /\ unsent \in Seq(Octets)
  BY RoomForByte DEF BridgeInv, BridgeTypeOK, BytesUnderWay
<1>2. Waiting \in Seq(Octets)
  <2>1. <<>> \in Seq(Octets)
    OBVIOUS
  <2>2. QED
    BY <2>1 DEF BridgeInv, BytesUnderWay, Waiting
<1>3. Waiting \o unsent \in Seq(Octets)
  BY <1>1, <1>2, ConcatProperties
<1>4. input \o (Waiting \o unsent) \in Seq(Octets)
  BY <1>1, <1>3, ConcatProperties
<1>5. Stream \in Seq(Octets)
  BY <1>1, <1>4, ConcatProperties DEF Stream
<1>6. QED
  BY <1>1, <1>2, <1>3, <1>5

\* What is put behind the bytes of the host is put behind the stream.
LEMMA PutBehind ==
  ASSUME BridgeInv, NEW f \in Seq(Octets)
  PROVE  held \o (input \o (Waiting \o (unsent \o f))) = Stream \o f
<1> DEFINE w == Waiting
           m == w \o unsent
           n == input \o m
<1>1. /\ held \in Seq(Octets) /\ input \in Seq(Octets) /\ w \in Seq(Octets)
      /\ unsent \in Seq(Octets) /\ m \in Seq(Octets)
  BY StreamOfBytes
<1>2. n \in Seq(Octets)
  BY <1>1, ConcatProperties
<1> HIDE DEF w
<1>3. m \o f = w \o (unsent \o f)
  <2>1. w \in Seq(Octets) /\ unsent \in Seq(Octets)
    BY <1>1
  <2>2. (w \o unsent) \o f = w \o (unsent \o f)
    BY <2>1, ConcatAssociative
  <2>3. QED
    BY <2>2 DEF m
<1> HIDE DEF m
<1>4. n \o f = input \o (m \o f)
  BY <1>1, ConcatAssociative DEF n
<1> HIDE DEF n
<1>5. (held \o n) \o f = held \o (n \o f)
  BY <1>1, <1>2, ConcatAssociative
<1>6. Stream = held \o n
  BY DEF Stream, n, m, w
<1>7. QED
  BY <1>3, <1>4, <1>5, <1>6 DEF w

-----------------------------------------------------------------------------
(* The invariant.                                                          *)

Before == {"connect", "ready", "dtr"}
AnyOutcome == UNION {Outcomes(req) : req \in Requests}
Answer == [status : Statuses, sequence : Octets, payload : Seq(Octets)]

\* Every request is handled, or on its way; every outcome is answered, or
\* about to be.
InOpenSession ==
  /\ asked \in Seq(Requests)
  /\ outcomes \in Seq(AnyOutcome)
  /\ answers \in Seq(Answer)
  /\ Responses \in Seq(Answer)
  /\ Len(outcomes) = Len(Responses) + (IF pc = "respond" THEN 1 ELSE 0)
  /\ Handled <= Len(asked)
  /\ pc = "transfer" => request = asked[Len(outcomes) + 1]
  /\ pc = "respond" => /\ output \in Answer
                       /\ output = ResponseTo(asked[Len(outcomes)], outcomes[Len(outcomes)])
  /\ Carries(Stream, asked, Handled)

ServeInv ==
  /\ session = "fresh" =>
       /\ asked = <<>> /\ outcomes = <<>> /\ answers = <<>>
       /\ unsent = <<>> /\ outPacket = NoPacket /\ inPacket \in {NoPacket, READY}
       /\ pc \in Before \cup {"reset"}
  /\ pc \in Before => held = <<>> /\ input = <<>>
  /\ pc \in {"head", "read"} => input = <<>>
  /\ Dtr /\ pc # "reset" => InOpenSession

\* What I2cServer sees, and its step.
View == <<InSession(asked), InSession(outcomes), InSession(Responses)>>
ServerStep == [Server!ServerNext]_View

\* A response is neither of the other things an endpoint can hold.
LEMMA AnswersAreAnswers ==
  ASSUME NEW r \in Answer PROVE r # READY /\ r # NoPacket
BY PacketAssumption DEF Answer

\* A step of which the server sees nothing.
LEMMA UnseenStep ==
  ASSUME UNCHANGED <<session, asked, outcomes>>, Responses' = Responses
  PROVE  ServerStep
BY DEF ServerStep, View, InSession, Dtr

\* A session that is not open is not seen.
LEMMA ClosedStep ==
  ASSUME ~Dtr, ~Dtr'
  PROVE  ServerStep
BY DEF ServerStep, View, InSession

\* The session ends.
LEMMA EndingStep ==
  ASSUME ~Dtr'
  PROVE  ServerStep
BY DEF ServerStep, InSession, Server!ServerNext, Server!EndSession

\* A step into the reset.
LEMMA ResetStep ==
  ASSUME ServeInv, pc' = "reset", UNCHANGED <<session, asked, outcomes, answers, unsent, inPacket>>,
         outPacket' = outPacket \/ outPacket' = NoPacket
  PROVE  ServeInv' /\ ServerStep
<1>1. Responses' = Responses
  BY DEF Responses
<1>2. ServerStep
  BY <1>1, UnseenStep
<1>3. ServeInv'
  BY DEF ServeInv, Before, Dtr
<1>4. QED
  BY <1>2, <1>3

\* A step that moves no request and no response.
LEMMA MovingStep ==
  ASSUME ServeInv, pc # "reset", pc \notin {"transfer", "respond"}, pc' \notin {"transfer", "respond"},
         UNCHANGED <<session, asked, outcomes, answers>>, Responses' = Responses,
         Dtr => Stream' = Stream
  PROVE  (Dtr /\ pc # "reset" => InOpenSession)' /\ ServerStep
<1>1. ServerStep
  BY UnseenStep
<1>2. Handled' = Handled
  BY DEF Handled
<1>3. ASSUME Dtr PROVE InOpenSession'
  BY <1>2, <1>3 DEF ServeInv, InOpenSession
<1>4. QED
  BY <1>1, <1>3 DEF Dtr

-----------------------------------------------------------------------------
(* The steps.                                                              *)

\* A request is carried out or refused, and its response made up.
LEMMA CarriedOut ==
  ASSUME ServeInv, Dtr, pc \in {"push", "transfer"}, pc' = "respond",
         Len(outcomes) < Len(asked),
         NEW o \in Outcomes(asked[Len(outcomes) + 1]),
         outcomes' = Append(outcomes, o),
         output' = ResponseTo(asked[Len(outcomes) + 1], o), output' \in Answer,
         Carries(Stream', asked, Len(outcomes) + 1),
         UNCHANGED <<session, inPacket, asked, answers>>
  PROVE  ServeInv' /\ ServerStep
<1>1. InOpenSession /\ Dtr' /\ Responses' = Responses
  BY DEF ServeInv, Dtr, Responses
<1>2. /\ asked \in Seq(Requests) /\ outcomes \in Seq(AnyOutcome) /\ Responses \in Seq(Answer)
      /\ Len(outcomes) = Len(Responses) /\ answers \in Seq(Answer)
  BY <1>1 DEF InOpenSession
<1>3. Len(outcomes) + 1 \in 1 .. Len(asked) /\ Len(outcomes) \in Nat /\ Len(asked) \in Nat
  BY <1>2
<1>4. o \in AnyOutcome
  BY <1>2, <1>3 DEF AnyOutcome
<1>5. /\ outcomes' \in Seq(AnyOutcome) /\ Len(outcomes') = Len(outcomes) + 1
      /\ outcomes'[Len(outcomes) + 1] = o
  BY <1>2, <1>4
<1>6. Handled' = Len(outcomes) + 1
  BY <1>3, <1>5 DEF Handled
<1>7. Carries(Stream, asked, Handled)'
  BY <1>6
<1>8. InOpenSession'
  <2>1. Len(outcomes') = Len(Responses') + (IF pc' = "respond" THEN 1 ELSE 0)
    BY <1>1, <1>2, <1>5
  <2>2. (Handled <= Len(asked))'
    BY <1>3, <1>6
  <2>3. output' = ResponseTo(asked'[Len(outcomes')], outcomes'[Len(outcomes')])
    BY <1>5
  <2>4. QED
    BY <1>1, <1>2, <1>5, <1>7, <2>1, <2>2, <2>3 DEF InOpenSession
<1>9. ServeInv'
  BY <1>1, <1>8 DEF ServeInv, Before, Dtr
<1>10. Server!CarryOut
  BY <1>1, <1>2, <1>3 DEF Server!CarryOut, InSession
<1>11. QED
  BY <1>9, <1>10 DEF ServerStep, Server!ServerNext

\* The main task away from packets and requests.
LEMMA ConnectServes ==
  ASSUME BridgeInv, ServeInv,
         Connect \/ WriteReady \/ SeeDtr \/ CheckDtr \/ ReadFails \/ Timeout \/ PacketDone \/ DtrWatch
  PROVE  ServeInv' /\ ServerStep
<1>1. UNCHANGED <<session, asked, outcomes, answers, unsent, outPacket, input>>
  BY DEF Connect, WriteReady, WritePacket, SeeDtr, CheckDtr, ReadFails, Timeout, PacketDone, DtrWatch,
         GoesTo, Fails, usbVars, hostVars
<1>2. CASE pc' = "reset"
  <2>1. inPacket' = inPacket
    BY <1>2 DEF Connect, WriteReady, WritePacket, SeeDtr, CheckDtr, ReadFails, Timeout, PacketDone,
                DtrWatch, GoesTo, Fails, usbVars, hostVars
  <2>2. QED
    BY <1>1, <1>2, <2>1, ResetStep
<1>3. CASE pc' # "reset"
  <2>1. /\ pc \notin {"transfer", "respond", "reset"}
        /\ held' = held
        /\ \/ pc = "connect" /\ pc' = "ready"
           \/ pc = "ready" /\ pc' = "dtr"
           \/ Dtr /\ pc = "dtr" /\ pc' = "head"
           \/ Dtr /\ pc = "head" /\ pc' = "read"
           \/ pc = "read" /\ pc' = "head"
           \/ pc = "push" /\ pc' = "head" /\ input = <<>>
    BY <1>3 DEF Connect, WriteReady, WritePacket, SeeDtr, CheckDtr, ReadFails, Timeout, PacketDone,
                DtrWatch, GoesTo, Fails, ServeInv, Before
  <2>2. /\ inPacket' = inPacket \/ (inPacket = NoPacket /\ inPacket' = READY)
        /\ Responses' = Responses
    BY <1>1, <1>3 DEF Connect, WriteReady, WritePacket, SeeDtr, CheckDtr, ReadFails, Timeout,
                PacketDone, DtrWatch, Fails, usbVars, Responses
  <2>3. Stream' = Stream
    BY <1>1, <2>1 DEF Stream, Waiting
  <2>4. (Dtr /\ pc # "reset" => InOpenSession)' /\ ServerStep
    <3>1. pc' \notin {"transfer", "respond"}
      BY <2>1
    <3>2. QED
      BY <1>1, <2>1, <2>2, <2>3, <3>1, MovingStep
  <2>5. ServeInv'
    BY <1>1, <2>1, <2>2, <2>4 DEF ServeInv, Before, Dtr
  <2>6. QED
    BY <2>4, <2>5
<1>4. QED
  BY <1>2, <1>3

\* A packet of the host becomes input.
LEMMA ReadServes ==
  ASSUME BridgeInv, ServeInv, ReadPacket
  PROVE  ServeInv' /\ ServerStep
<1>1. /\ pc = "read" /\ outPacket # NoPacket /\ outPacket' = NoPacket
      /\ UNCHANGED <<session, inPacket, unsent, asked, answers, outcomes, held>>
      /\ (pc' = "push" /\ input' = outPacket) \/ pc' = "reset"
  BY DEF ReadPacket, Fails, hostVars
<1>2. CASE pc' = "reset"
  BY <1>1, <1>2, ResetStep
<1>3. CASE pc' # "reset"
  <2>1. input = <<>> /\ input' = outPacket /\ pc' = "push"
    BY <1>1, <1>3 DEF ServeInv
  <2>2. Stream' = Stream
    <3>1. outPacket \in Seq(Octets) /\ unsent \in Seq(Octets) /\ outPacket \o unsent \in Seq(Octets)
      BY <1>1, StreamOfBytes DEF Waiting
    <3>2. outPacket \o (<<>> \o unsent) = <<>> \o (outPacket \o unsent)
      BY <3>1, ConcatEmptySeq
    <3>3. QED
      BY <1>1, <2>1, <3>2 DEF Stream, Waiting
  <2>3. Responses' = Responses
    BY <1>1 DEF Responses
  <2>4. (Dtr /\ pc # "reset" => InOpenSession)' /\ ServerStep
    BY <1>1, <2>1, <2>2, <2>3, MovingStep
  <2>5. ServeInv'
    BY <1>1, <2>1, <2>4 DEF ServeInv, Before, Dtr
  <2>6. QED
    BY <2>4, <2>5
<1>4. QED
  BY <1>2, <1>3

\* A byte of the input: the beginning of the next request, or the whole of it.
LEMMA PushServes ==
  ASSUME BridgeInv, ServeInv, PushByte
  PROVE  ServeInv' /\ ServerStep
<1> DEFINE b == Head(input)
           a == Append(held, b)
           rest == Tail(input) \o (Waiting \o unsent)
           req == asked[Len(outcomes) + 1]
           f == Frame(req)
<1>1. /\ pc = "push" /\ input # <<>> /\ input' = Tail(input)
      /\ held' = IF Push(held, b).result \in Errors THEN <<>> ELSE Push(held, b).held
      /\ IF Push(held, b).result = "request" THEN Handle(Decoded(Push(held, b).frame))
         ELSE UNCHANGED <<pc, request, output, outcomes>>
      /\ UNCHANGED <<readBuffer, usbVars, hostVars>>
  BY DEF PushByte
<1>2. /\ UNCHANGED <<session, outPacket, inPacket, unsent, asked, answers>>
      /\ pc' \in {"push", "transfer", "respond"}
  <2>1. CASE Push(held, b).result = "request"
    BY <1>1, <2>1 DEF Handle, usbVars, hostVars
  <2>2. CASE Push(held, b).result # "request"
    BY <1>1, <2>2 DEF usbVars, hostVars
  <2>3. QED
    BY <2>1, <2>2
<1>3. session # "fresh"
  BY <1>1 DEF ServeInv, Before
<1>4. CASE ~Dtr
  <2>1. ServeInv'
    BY <1>2, <1>3, <1>4 DEF ServeInv, Before, Dtr
  <2>2. QED
    BY <1>2, <1>4, <2>1, ClosedStep DEF Dtr
<1>5. CASE Dtr
  <2>1. /\ InOpenSession /\ Dtr' /\ Handled = Len(outcomes)
        /\ asked \in Seq(Requests) /\ outcomes \in Seq(AnyOutcome)
        /\ Len(outcomes) \in 0 .. Len(asked)
        /\ Carries(Stream, asked, Len(outcomes))
    BY <1>1, <1>2, <1>5 DEF ServeInv, InOpenSession, Handled, Dtr
  <2>2. /\ held \in Seq(Octets) /\ IsPartial(held) /\ input \in Seq(Octets)
        /\ Waiting \o unsent \in Seq(Octets) /\ Stream \in Seq(Octets)
    BY StreamOfBytes DEF BridgeInv, BridgeTypeOK
  <2>3. b \in Octets /\ a \in Seq(Octets) /\ Tail(input) \in Seq(Octets) /\ rest \in Seq(Octets)
        /\ Len(a) = Len(held) + 1 /\ Len(held) \in Nat
    <3>1. b \in Octets /\ Tail(input) \in Seq(Octets)
      BY <1>1, <2>2
    <3>2. rest \in Seq(Octets)
      BY <2>2, <3>1, ConcatProperties
    <3>3. QED
      BY <2>2, <3>1, <3>2
  <2> DEFINE u == Waiting \o unsent
  <2>4. Stream = a \o rest
    <3>1. u \in Seq(Octets)
      BY <2>2
    <3> HIDE DEF u
    <3>2. input # <<>> /\ held \in Seq(Octets) /\ input \in Seq(Octets)
      BY <1>1, <2>2
    <3>3. Append(held, Head(input)) \o (Tail(input) \o u) = held \o (input \o u)
      BY <3>1, <3>2, ShiftByte
    <3>4. QED
      BY <3>3 DEF Stream, u
  <2> HIDE DEF u
  <2>5. Stream # <<>> /\ \A i \in 1 .. Len(a) : Stream[i] = a[i]
    <3> HIDE DEF a, rest
    <3>1. Len(a \o rest) = Len(a) + Len(rest) /\ \A i \in 1 .. Len(a) : (a \o rest)[i] = a[i]
      BY <2>3
    <3>2. Len(a \o rest) # 0
      BY <2>3, <3>1
    <3>3. QED
      BY <2>4, <3>1, <3>2
  <2>6. /\ Len(outcomes) < Len(asked) /\ req \in Requests
        /\ \A i \in 1 .. Len(f) : Stream[i] = f[i]
    BY <2>1, <2>2, <2>5, CarriesFirst
  <2>7. f \in Seq(Octets) /\ IsFrame(f) /\ Len(f) \in Nat /\ Decoded(f) = req /\ req.sequence \in Octets
    BY <2>6, RequestFrame
  <2>8. /\ a = f => Push(held, b).result = "request"
        /\ a # f => Push(held, b).result = "incomplete"
    <3>1. \A i \in 1 .. Len(f) : i <= Len(held) + 1 => a[i] = f[i]
      BY <2>3, <2>5, <2>6, <2>7
    <3>2. QED
      BY <2>2, <2>3, <2>7, <3>1, PushInFrame
  <2>9. Responses' = Responses
    BY <1>2 DEF Responses
  <2>10. CASE a # f
    <3>1. held' = a /\ UNCHANGED <<pc, outcomes>>
      BY <1>1, <2>2, <2>3, <2>8, <2>10, PushKeepsPartial DEF Errors
    <3>2. Stream' = Stream
      BY <1>1, <1>2, <2>4, <3>1 DEF Stream, Waiting
    <3>3. (Dtr /\ pc # "reset" => InOpenSession)' /\ ServerStep
      BY <1>1, <1>2, <2>9, <3>1, <3>2, MovingStep
    <3>4. QED
      BY <1>1, <1>2, <1>3, <3>1, <3>3 DEF ServeInv, Before
  <2>11. CASE a = f
    <3>1. held' = <<>> /\ Handle(req)
      <4>1. Push(held, b).result = "request" /\ Push(held, b).held = <<>> /\ Push(held, b).frame = a
        BY <2>2, <2>3, <2>8, <2>11, PushKeepsPartial
      <4>2. Decoded(Push(held, b).frame) = req
        BY <2>7, <2>11, <4>1
      <4>3. QED
        BY <1>1, <4>1, <4>2 DEF Errors
    <3>2. Stream' = rest
      <4>1. Stream' = <<>> \o rest
        BY <1>1, <1>2, <3>1 DEF Stream, Waiting
      <4>2. QED
        BY <2>3, <4>1, ConcatEmptySeq
    <3>3. Carries(rest, asked, Len(outcomes) + 1)
      <4>1. Carries(f \o rest, asked, Len(outcomes))
        BY <2>1, <2>4, <2>11
      <4>2. Len(outcomes) \in 0 .. Len(asked) - 1
        BY <2>1, <2>6
      <4> HIDE DEF rest
      <4>3. QED
        BY <2>1, <2>3, <4>1, <4>2, CarriesRest
    <3>4. CASE Validity(req) = "OK"
      <4>1. pc' = "transfer" /\ request' = req /\ UNCHANGED <<output, outcomes>>
        BY <3>1, <3>4 DEF Handle
      <4>2. ServerStep
        BY <1>2, <2>9, <4>1, UnseenStep
      <4>3. Handled' = Len(outcomes) + 1
        BY <4>1 DEF Handled
      <4>4. InOpenSession'
        BY <1>1, <1>2, <2>1, <2>6, <2>9, <3>2, <3>3, <4>1, <4>3 DEF InOpenSession
      <4>5. QED
        BY <1>2, <1>3, <4>1, <4>2, <4>4 DEF ServeInv, Before
    <3>5. CASE Validity(req) # "OK"
      <4>1. /\ pc' = "respond" /\ output' = ResponseTo(req, Refused)
            /\ outcomes' = Append(outcomes, Refused)
        BY <3>1, <3>5 DEF Handle
      <4>2. Refused \in Outcomes(req)
        BY <3>5 DEF Outcomes
      <4>3. output' \in Answer
        <5>1. output' = [status |-> Validity(req), sequence |-> req.sequence, payload |-> <<>>]
          BY <4>1 DEF ResponseTo, Refused, Response
        <5>2. Validity(req) \in Statuses
          BY DEF Validity, Statuses
        <5>3. <<>> \in Seq(Octets)
          OBVIOUS
        <5>4. QED
          BY <2>7, <5>1, <5>2, <5>3 DEF Answer
      <4>4. Carries(Stream', asked, Len(outcomes) + 1)
        BY <3>2, <3>3
      <4>5. QED
        BY <1>1, <1>2, <1>5, <2>6, <4>1, <4>2, <4>3, <4>4, CarriedOut
    <3>6. QED
      BY <3>4, <3>5
  <2>12. QED
    BY <2>10, <2>11
<1>6. QED
  BY <1>4, <1>5

\* What is taken from the buffer is what was read into it.
LEMMA ReadBytes ==
  ASSUME NEW n \in 0 .. MaxPayload, NEW got \in [1 .. n -> I2cData],
         readBuffer \in [1 .. MaxPayload -> Octets]
  PROVE  got \in Seq(Octets) /\ SubSeq(Filled(got), 1, n) = got
<1>1. MaxPayload \in Nat /\ n \in Nat /\ n <= MaxPayload /\ I2cData \subseteq Octets
  BY FramingAssumption, BridgeAssumption
<1>2. got \in Seq(Octets) /\ Len(got) = n
  BY <1>1
<1> DEFINE buffer == Filled(got)
<1>3. buffer \in [1 .. MaxPayload -> Octets]
  BY FilledBuffer
<1>4. \A i \in 1 .. n : buffer[i] = got[i]
  BY <1>1, <1>2 DEF Filled
<1> HIDE DEF buffer
<1>5. buffer \in Seq(Octets) /\ Len(buffer) = MaxPayload
  BY <1>1, <1>3
<1> DEFINE taken == SubSeq(buffer, 1, n)
<1>6. taken \in Seq(Octets) /\ Len(taken) = n /\ \A i \in 1 .. n : taken[i] = buffer[i]
  BY <1>1, <1>5
<1> HIDE DEF taken
<1>7. taken = got
  BY <1>2, <1>4, <1>6, SeqEqual
<1>8. QED
  BY <1>2, <1>7 DEF taken, buffer

\* A transfer ends.
LEMMA TransferServes ==
  ASSUME BridgeInv, ServeInv, TransferEnds
  PROVE  ServeInv' /\ ServerStep
<1>1. /\ pc = "transfer" /\ pc' = "respond"
      /\ UNCHANGED <<held, input, session, outPacket, inPacket, unsent, asked, answers>>
  BY DEF TransferEnds, usbVars, hostVars
<1>2. session # "fresh"
  BY <1>1 DEF ServeInv, Before
<1>3. CASE ~Dtr
  <2>1. ServeInv'
    BY <1>1, <1>2, <1>3 DEF ServeInv, Before, Dtr
  <2>2. QED
    BY <1>1, <1>3, <2>1, ClosedStep DEF Dtr
<1>4. CASE Dtr
  <2>1. /\ request = asked[Len(outcomes) + 1]
        /\ asked \in Seq(Requests) /\ outcomes \in Seq(AnyOutcome)
        /\ Len(outcomes) < Len(asked)
        /\ Carries(Stream, asked, Len(outcomes) + 1)
    BY <1>1, <1>4 DEF ServeInv, InOpenSession, Handled
  <2>2. request \in Requests /\ request.sequence \in Octets
    BY <2>1, RequestFrame
  <2>3. Validity(request) = "OK" /\ ReadCount(request) \in 0 .. MaxPayload
    BY <1>1, ReadsFit DEF BridgeInv, BridgeTypeOK, BytesUnderWay
  <2>4. Carries(Stream', asked, Len(outcomes) + 1)
    BY <1>1, <2>1 DEF Stream, Waiting
  <2>5. ASSUME NEW got \in [1 .. ReadCount(request) -> I2cData], readBuffer' = Filled(got),
               output' = Response("OK", request, SubSeq(readBuffer', 1, ReadCount(request))),
               outcomes' = Append(outcomes, Done(got))
        PROVE  ServeInv' /\ ServerStep
    <3>1. got \in Seq(Octets) /\ SubSeq(readBuffer', 1, ReadCount(request)) = got
      BY <2>3, <2>5, ReadBytes DEF BridgeInv, BridgeTypeOK
    <3>2. Done(got) \in Outcomes(request)
      BY <2>3 DEF Outcomes
    <3>3. output' = [status |-> "OK", sequence |-> request.sequence, payload |-> got]
      BY <2>5, <3>1 DEF Response
    <3>4. output' = ResponseTo(request, Done(got))
      BY <3>3 DEF ResponseTo, Done, Response
    <3>5. output' \in Answer
      BY <2>2, <3>1, <3>3 DEF Answer, Statuses
    <3>6. QED
      BY <1>1, <1>4, <2>1, <2>4, <2>5, <3>2, <3>4, <3>5, CarriedOut
  <2>6. ASSUME output' = Response("BAD_COMMAND", request, <<>>),
               outcomes' = Append(outcomes, Failed)
        PROVE  ServeInv' /\ ServerStep
    <3>1. Failed \in Outcomes(request)
      BY <2>3 DEF Outcomes
    <3>2. output' = ResponseTo(request, Failed)
      BY <2>6 DEF ResponseTo, Failed
    <3>3. output' \in Answer
      <4>1. <<>> \in Seq(Octets)
        OBVIOUS
      <4>2. QED
        BY <2>2, <2>6, <4>1 DEF Answer, Response, Statuses
    <3>4. QED
      BY <1>1, <1>4, <2>1, <2>4, <2>6, <3>1, <3>2, <3>3, CarriedOut
  <2>7. QED
    BY <2>5, <2>6 DEF TransferEnds
<1>5. QED
  BY <1>3, <1>4

\* A response goes to the endpoint.
LEMMA RespondServes ==
  ASSUME BridgeInv, ServeInv, WriteResponse
  PROVE  ServeInv' /\ ServerStep
<1>1. /\ pc = "respond"
      /\ UNCHANGED <<session, outPacket, unsent, asked, answers, outcomes, held, input>>
      /\ \/ pc' = "reset" /\ inPacket' = inPacket
         \/ pc' = "push" /\ inPacket = NoPacket /\ inPacket' = output
  BY DEF WriteResponse, WritePacket, Fails, GoesTo, hostVars
<1>2. session # "fresh"
  BY <1>1 DEF ServeInv, Before
<1>3. CASE pc' = "reset"
  BY <1>1, <1>3, ResetStep
<1>4. CASE pc' = "push" /\ ~Dtr
  <2>1. ServeInv'
    BY <1>1, <1>2, <1>4 DEF ServeInv, Before, Dtr
  <2>2. QED
    BY <1>1, <1>4, <2>1, ClosedStep DEF Dtr
<1>5. CASE pc' = "push" /\ Dtr
  <2>1. InOpenSession /\ Dtr' /\ inPacket = NoPacket /\ inPacket' = output
    BY <1>1, <1>5 DEF ServeInv, Dtr
  <2>2. /\ output \in Answer
        /\ output = ResponseTo(asked[Len(outcomes)], outcomes[Len(outcomes)])
        /\ Responses = answers /\ answers \in Seq(Answer) /\ Len(outcomes) = Len(answers) + 1
        /\ asked \in Seq(Requests) /\ outcomes \in Seq(AnyOutcome)
        /\ Len(outcomes) <= Len(asked) /\ Carries(Stream, asked, Len(outcomes))
    BY <1>1, <2>1 DEF InOpenSession, Responses, Handled
  <2>3. Responses' = Append(answers, output)
    BY <1>1, <2>1, <2>2, AnswersAreAnswers DEF Responses
  <2>4. /\ Responses' \in Seq(Answer) /\ Len(Responses') = Len(answers) + 1
        /\ Len(answers) \in Nat
    BY <2>2, <2>3
  <2>5. Handled' = Len(outcomes) /\ Stream' = Stream
    BY <1>1, <1>5, <2>2 DEF Handled, Stream, Waiting
  <2>6. InOpenSession'
    BY <1>1, <1>5, <2>2, <2>4, <2>5 DEF InOpenSession
  <2>7. ServeInv'
    BY <1>1, <1>2, <1>5, <2>6 DEF ServeInv, Before
  <2>8. Server!Respond
    <3>1. Len(answers) < Len(outcomes) /\ Len(answers) + 1 = Len(outcomes)
      BY <2>2, <2>4
    <3>2. /\ InSession(asked) = asked /\ InSession(outcomes) = outcomes
          /\ InSession(Responses) = answers
      BY <1>5, <2>2 DEF InSession
    <3>3. /\ InSession(asked)' = asked /\ InSession(outcomes)' = outcomes
          /\ InSession(Responses)' = Append(answers, output)
      BY <1>1, <2>1, <2>3 DEF InSession
    <3>4. output = ResponseTo(asked[Len(answers) + 1], outcomes[Len(answers) + 1])
      BY <2>2, <3>1
    <3>5. QED
      BY <3>1, <3>2, <3>3, <3>4 DEF Server!Respond
  <2>9. QED
    BY <2>7, <2>8 DEF ServerStep, Server!ServerNext
<1>6. QED
  BY <1>1, <1>3, <1>4, <1>5

\* The reset.
LEMMA RestartServes ==
  ASSUME Restart
  PROVE  ServeInv' /\ ServerStep
<1>1. /\ pc' = "connect" /\ session' = "fresh" /\ ~Dtr' /\ held' = <<>> /\ input' = <<>>
      /\ asked' = <<>> /\ outcomes' = <<>> /\ answers' = <<>> /\ unsent' = <<>>
      /\ outPacket' = NoPacket /\ inPacket' = NoPacket
  BY DEF Restart, NewSession, Dtr
<1>2. ServerStep
  BY <1>1, EndingStep
<1>3. QED
  BY <1>1, <1>2 DEF ServeInv, Before

-----------------------------------------------------------------------------
(* The steps of the host.                                                  *)

\* The task stays where it is.
LEMMA TaskStays ==
  ASSUME ServeInv, pc # "reset", UNCHANGED taskVars, UNCHANGED <<session, asked, outcomes>>,
         Responses' = Responses, Dtr => answers' \in Seq(Answer) /\ Stream' = Stream
  PROVE  (Dtr /\ pc # "reset" => InOpenSession)' /\ ServerStep
<1>1. ServerStep
  BY UnseenStep
<1>2. Handled' = Handled
  BY DEF Handled, taskVars
<1>3. ASSUME Dtr PROVE InOpenSession'
  BY <1>2, <1>3 DEF ServeInv, InOpenSession, taskVars
<1>4. QED
  BY <1>1, <1>3 DEF Dtr

\* The host enumerates the device, or ends its session.
LEMMA PlugServes ==
  ASSUME ServeInv, pc # "reset", Enumerate \/ Unplug \/ ClosePort
  PROVE  ServeInv' /\ ServerStep
<1>1. CASE Enumerate
  <2>1. /\ UNCHANGED taskVars
        /\ UNCHANGED <<session, asked, outcomes, answers, unsent, outPacket, inPacket>>
    BY <1>1 DEF Enumerate, hostVars
  <2>2. Responses' = Responses
    BY <2>1 DEF Responses
  <2>3. Dtr => answers' \in Seq(Answer) /\ Stream' = Stream
    BY <2>1 DEF ServeInv, InOpenSession, Stream, Waiting, taskVars
  <2>4. (Dtr /\ pc # "reset" => InOpenSession)' /\ ServerStep
    BY <2>1, <2>2, <2>3, TaskStays
  <2>5. QED
    BY <2>1, <2>4 DEF ServeInv, Before, taskVars
<1>2. CASE Unplug \/ ClosePort
  <2>1. /\ UNCHANGED taskVars /\ UNCHANGED <<asked, outcomes, answers>>
        /\ unsent' = <<>>
        /\ session' # "open" /\ (session' = "fresh" => session = "fresh")
        /\ outPacket' \in {outPacket, NoPacket} /\ inPacket' \in {inPacket, NoPacket}
    BY <1>2 DEF Unplug, ClosePort
  <2>2. ~Dtr'
    BY <2>1 DEF Dtr
  <2>3. ServerStep
    BY <2>2, EndingStep
  <2>4. QED
    BY <2>1, <2>2, <2>3 DEF ServeInv, Before, taskVars
<1>3. QED
  BY <1>1, <1>2

\* The host opens the port of a bridge that began anew.
LEMMA OpenServes ==
  ASSUME ServeInv, pc # "reset", OpenPort
  PROVE  ServeInv' /\ ServerStep
<1>1. /\ session = "fresh" /\ session' = "open" /\ UNCHANGED taskVars
      /\ UNCHANGED <<asked, outcomes, answers, unsent, outPacket, inPacket>>
  BY DEF OpenPort, hostVars
<1>2. /\ asked = <<>> /\ outcomes = <<>> /\ answers = <<>> /\ unsent = <<>>
      /\ outPacket = NoPacket /\ inPacket \in {NoPacket, READY}
      /\ pc \in Before /\ held = <<>> /\ input = <<>>
  BY <1>1 DEF ServeInv
<1>3. Responses' = <<>> /\ Responses = <<>> /\ Handled' = 0
  BY <1>1, <1>2 DEF Responses, Handled, Before, taskVars
<1>4. Stream' = <<>>
  <2>1. Stream' = <<>> \o (<<>> \o (<<>> \o <<>>))
    BY <1>1, <1>2 DEF Stream, Waiting, taskVars
  <2>2. <<>> \o <<>> = <<>>
    OBVIOUS
  <2>3. QED
    BY <2>1, <2>2
<1>5. InOpenSession'
  <2>1. /\ <<>> \in Seq(Requests) /\ <<>> \in Seq(AnyOutcome) /\ <<>> \in Seq(Answer)
        /\ Len(<<>>) = 0
    OBVIOUS
  <2>2. pc' \notin {"transfer", "respond"}
    BY <1>1, <1>2 DEF Before, taskVars
  <2>3. Carries(Stream', asked', Handled')
    BY <1>1, <1>2, <1>3, <1>4, CarriesNothing
  <2>4. QED
    BY <1>1, <1>2, <1>3, <2>1, <2>2, <2>3 DEF InOpenSession
<1>6. ServerStep
  BY <1>1, <1>2, <1>3 DEF ServerStep, View, InSession
<1>7. QED
  BY <1>1, <1>2, <1>5, <1>6 DEF ServeInv, Before, taskVars

\* The host asks.
LEMMA AskServes ==
  ASSUME BridgeInv, ServeInv, pc # "reset", NEW t \in Templates, Ask(t)
  PROVE  ServeInv' /\ ServerStep
<1> DEFINE req == Asks(t, Len(asked) + 1)
           f == Frame(req)
<1>1. /\ session = "open" /\ Dtr /\ Dtr' /\ Len(asked) < MaxRequests
      /\ UNCHANGED taskVars /\ UNCHANGED <<session, outPacket, inPacket, answers, outcomes>>
      /\ asked' = Append(asked, req)
  BY DEF Ask, usbVars, Dtr
<1>2. unsent' = unsent \o f
  BY DEF Ask, Frame, Asks
<1>3. InOpenSession
  BY <1>1 DEF ServeInv
<1>4. /\ asked \in Seq(Requests) /\ Len(asked) \in Nat /\ Handled \in 0 .. Len(asked)
      /\ Carries(Stream, asked, Handled)
  <2>1. outcomes \in Seq(AnyOutcome) /\ asked \in Seq(Requests) /\ Handled <= Len(asked)
        /\ Carries(Stream, asked, Handled)
    BY <1>3 DEF InOpenSession
  <2>2. Len(outcomes) \in Nat /\ Len(asked) \in Nat
    BY <2>1
  <2>3. Handled \in Nat
    BY <2>2 DEF Handled
  <2>4. QED
    BY <2>1, <2>2, <2>3
<1>5. Len(asked) + 1 \in 1 .. MaxRequests
  BY <1>1, <1>4, BridgeAssumption
<1>6. req \in Requests
  BY <1>5 DEF Requests
<1>7. f \in Seq(Octets)
  BY <1>6, RequestFrame
<1>8. Stream' = Stream \o f
  <2>1. Stream' = held \o (input \o (Waiting \o (unsent \o f)))
    BY <1>1, <1>2 DEF Stream, Waiting, taskVars
  <2> HIDE DEF f
  <2>2. QED
    BY <1>7, <2>1, PutBehind
<1>9. Carries(Stream \o f, Append(asked, req), Handled)
  BY <1>4, <1>6, CarriesMore, StreamOfBytes
<1>10. Handled' = Handled /\ Responses' = Responses
  BY <1>1 DEF Handled, Responses, taskVars
<1> HIDE DEF f, req
<1>11. /\ asked' \in Seq(Requests) /\ Len(asked') = Len(asked) + 1
       /\ \A k \in 1 .. Len(asked) : asked'[k] = asked[k]
  BY <1>1, <1>4, <1>6
<1>12. InOpenSession'
  <2>1. (Handled <= Len(asked))'
    BY <1>4, <1>10, <1>11
  <2>2. Carries(Stream, asked, Handled)'
    BY <1>1, <1>8, <1>9, <1>10
  <2>3. outcomes \in Seq(AnyOutcome) /\ Responses \in Seq(Answer) /\ Len(outcomes) \in Nat
    BY <1>3 DEF InOpenSession
  <2>4. ASSUME pc = "transfer"
        PROVE  request = asked'[Len(outcomes) + 1]
    <3>1. Len(outcomes) + 1 \in 1 .. Len(asked) /\ request = asked[Len(outcomes) + 1]
      BY <1>3, <1>4, <2>3, <2>4 DEF InOpenSession, Handled
    <3>2. QED
      BY <1>11, <3>1
  <2>5. ASSUME pc = "respond"
        PROVE  /\ output \in Answer
               /\ output = ResponseTo(asked'[Len(outcomes)], outcomes[Len(outcomes)])
    <3>1. Len(outcomes) = Len(Responses) + 1 /\ Len(Responses) \in Nat
      BY <1>3, <2>3, <2>5 DEF InOpenSession
    <3>2. Len(outcomes) \in 1 .. Len(asked)
      BY <1>3, <1>4, <2>3, <2>5, <3>1 DEF InOpenSession, Handled
    <3>3. QED
      BY <1>3, <1>11, <2>5, <3>2 DEF InOpenSession
  <2>6. QED
    BY <1>1, <1>3, <1>10, <1>11, <2>1, <2>2, <2>4, <2>5 DEF InOpenSession, taskVars
<1>13. ServeInv'
  BY <1>1, <1>12 DEF ServeInv, Before, taskVars
<1>14. Server!Ask
  <2>1. /\ InSession(asked)' = Append(InSession(asked), req)
        /\ InSession(outcomes)' = InSession(outcomes)
        /\ InSession(Responses)' = InSession(Responses)
    BY <1>1, <1>10 DEF InSession
  <2>2. QED
    BY <1>6, <2>1 DEF Server!Ask
<1>15. QED
  BY <1>13, <1>14 DEF ServerStep, Server!ServerNext

\* The host cuts a packet off what it has to send.
LEMMA SendServes ==
  ASSUME BridgeInv, ServeInv, pc # "reset", SendPacket
  PROVE  ServeInv' /\ ServerStep
<1>1. /\ session = "open" /\ outPacket = NoPacket /\ unsent # <<>>
      /\ UNCHANGED taskVars /\ UNCHANGED <<session, inPacket, asked, answers, outcomes>>
  BY DEF SendPacket
<1>2. unsent \in Seq(Octets) /\ Len(unsent) \in Nat /\ Len(unsent) >= 1
  <2>1. unsent \in Seq(Octets)
    BY StreamOfBytes
  <2>2. QED
    BY <1>1, <2>1
<1>3. PICK length \in 1 .. Len(unsent) :
        /\ outPacket' = SubSeq(unsent, 1, length)
        /\ unsent' = SubSeq(unsent, length + 1, Len(unsent))
  <2>1. PICK n \in PacketLens :
          LET length == IF n <= Len(unsent) THEN n ELSE Len(unsent)
          IN  /\ outPacket' = SubSeq(unsent, 1, length)
              /\ unsent' = SubSeq(unsent, length + 1, Len(unsent))
    BY DEF SendPacket
  <2> DEFINE cut == IF n <= Len(unsent) THEN n ELSE Len(unsent)
  <2>2. n \in Nat \ {0}
    BY BridgeAssumption
  <2>3. cut \in 1 .. Len(unsent)
    BY <1>2, <2>2
  <2>4. /\ outPacket' = SubSeq(unsent, 1, cut)
        /\ unsent' = SubSeq(unsent, cut + 1, Len(unsent))
    BY <2>1
  <2> HIDE DEF cut
  <2>5. QED
    BY <2>3, <2>4
<1>4. outPacket' \o unsent' = unsent
  <2>1. SubSeq(unsent, 1, length) \o SubSeq(unsent, length + 1, Len(unsent))
        = SubSeq(unsent, 1, Len(unsent))
    BY <1>2, ConcatAdjacentSubSeq
  <2>2. SubSeq(unsent, 1, Len(unsent)) = unsent
    BY <1>2, SubSeqFull
  <2>3. QED
    BY <1>3, <2>1, <2>2
<1>5. outPacket' # NoPacket
  <2>1. SubSeq(unsent, 1, length) \in Seq(Octets)
    BY <1>2
  <2>2. QED
    BY <1>3, <2>1, PacketAssumption
<1>6. Stream' = Stream
  <2>1. Waiting' \o unsent' = unsent
    BY <1>4, <1>5 DEF Waiting
  <2>2. Waiting \o unsent = unsent
    BY <1>1, <1>2, ConcatEmptySeq DEF Waiting
  <2>3. Stream' = held \o (input \o (Waiting' \o unsent'))
    BY <1>1 DEF Stream, taskVars
  <2>4. QED
    BY <2>1, <2>2, <2>3 DEF Stream
<1>7. Responses' = Responses /\ (Dtr => answers' \in Seq(Answer))
  BY <1>1 DEF Responses, ServeInv, InOpenSession
<1>8. (Dtr /\ pc # "reset" => InOpenSession)' /\ ServerStep
  BY <1>1, <1>6, <1>7, TaskStays
<1>9. QED
  BY <1>1, <1>8 DEF ServeInv, taskVars

\* The host takes a packet.
LEMMA TakeServes ==
  ASSUME ServeInv, pc # "reset", TakePacket
  PROVE  ServeInv' /\ ServerStep
<1>1. /\ session = "open" /\ inPacket # NoPacket /\ inPacket' = NoPacket
      /\ answers' = IF inPacket = READY THEN answers ELSE Append(answers, inPacket)
      /\ UNCHANGED taskVars /\ UNCHANGED <<session, outPacket, unsent, asked, outcomes>>
  BY DEF TakePacket
<1>2. Responses' = Responses /\ answers' = Responses
  BY <1>1 DEF Responses
<1>3. Responses \in Seq(Answer)
  BY <1>1 DEF ServeInv, InOpenSession, Dtr
<1>4. Stream' = Stream
  BY <1>1 DEF Stream, Waiting, taskVars
<1>5. (Dtr /\ pc # "reset" => InOpenSession)' /\ ServerStep
  BY <1>1, <1>2, <1>3, <1>4, TaskStays
<1>6. QED
  BY <1>1, <1>5 DEF ServeInv, taskVars

-----------------------------------------------------------------------------
(* The theorem.                                                            *)

\* A bridge that boots serves nobody yet.
LEMMA ServeInvInit == BridgeInit => ServeInv /\ Server!ServerInit
<1> SUFFICES ASSUME BridgeInit PROVE ServeInv /\ Server!ServerInit
  OBVIOUS
<1>1. ~Dtr
  BY DEF BridgeInit, Dtr
<1>2. ServeInv
  BY <1>1 DEF BridgeInit, ServeInv, Before
<1>3. Server!ServerInit
  BY <1>1 DEF Server!ServerInit, InSession
<1>4. QED
  BY <1>2, <1>3

\* Every step keeps the invariant and is a step of I2cServer, or none.
LEMMA ServeInvNext ==
  ASSUME BridgeInv, ServeInv, [BridgeNext]_bridgeVars
  PROVE  ServeInv' /\ ServerStep
<1>1. CASE Connect \/ WriteReady \/ SeeDtr \/ CheckDtr \/ ReadFails \/ Timeout \/ PacketDone
           \/ DtrWatch
  BY <1>1, ConnectServes
<1>2. CASE ReadPacket
  BY <1>2, ReadServes
<1>3. CASE PushByte
  BY <1>3, PushServes
<1>4. CASE WriteResponse
  BY <1>4, RespondServes
<1>5. CASE TransferEnds
  BY <1>5, TransferServes
<1>6. CASE Restart
  BY <1>6, RestartServes
<1>7. CASE Host
  <2>1. pc # "reset"
    BY <1>7 DEF Host
  <2>2. CASE Enumerate \/ Unplug \/ ClosePort
    BY <2>1, <2>2, PlugServes
  <2>3. CASE OpenPort
    BY <2>1, <2>3, OpenServes
  <2>4. ASSUME NEW t \in Templates, Ask(t) PROVE ServeInv' /\ ServerStep
    BY <2>1, <2>4, AskServes
  <2>5. CASE SendPacket
    BY <2>1, <2>5, SendServes
  <2>6. CASE TakePacket
    BY <2>1, <2>6, TakeServes
  <2>7. QED
    BY <1>7, <2>2, <2>3, <2>4, <2>5, <2>6 DEF Host
<1>8. CASE UNCHANGED bridgeVars
  <2>1. /\ UNCHANGED <<pc, held, input, request, output, session, outPacket, inPacket>>
        /\ UNCHANGED <<unsent, asked, answers, outcomes>>
    BY <1>8 DEF bridgeVars, taskVars, usbVars, hostVars
  <2>2. Stream' = Stream /\ Responses' = Responses /\ Handled' = Handled
    BY <2>1 DEF Stream, Waiting, Responses, Handled
  <2>3. ServerStep
    BY <2>1, <2>2, UnseenStep
  <2>4. InOpenSession' <=> InOpenSession
    BY <2>1, <2>2 DEF InOpenSession
  <2>5. QED
    BY <2>1, <2>3, <2>4 DEF ServeInv, Dtr
<1>9. QED
  BY <1>1, <1>2, <1>3, <1>4, <1>5, <1>6, <1>7, <1>8 DEF BridgeNext, Task

\* The bridge keeps the promise of I2cServer in every session: each request
\* that arrives is carried out and answered once, in order and with its own
\* outcome, however its bytes were split into packets (main, handle_request,
\* Parser::push).
THEOREM BridgeImplementsServer == BridgeSpec => ImplementsI2cServer
<1>1. BridgeInit => ServeInv /\ Server!ServerInit
  BY ServeInvInit
<1>2. BridgeInv /\ ServeInv /\ [BridgeNext]_bridgeVars => ServeInv' /\ [Server!ServerNext]_(Server!serverVars)
  BY ServeInvNext DEF ServerStep, View, Server!serverVars
<1>3. QED
  BY <1>1, <1>2, BridgeInvariant, PTL DEF BridgeSpec, ImplementsI2cServer, Server!Spec
=============================================================================
