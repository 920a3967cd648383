-------------------------- MODULE BpfLoaderProofs --------------------------
(* Proofs that BpfLoader keeps its invariants for every partition, image
   bound and host. *)
EXTENDS BpfLoader, SequenceTheorems, TLAPS

\* The safety invariants, which are inductive together with LoaderTypeOK.
Safety ==
  /\ CommittedIsDurable
  /\ LayoutsOnlyForImage
  /\ PendingFits
  /\ ReceivedPrefixInFlash
  /\ RunningIsIdle

-----------------------------------------------------------------------------
(* Lemmas.                                                                 *)

\* The pages begin erases hold the header and every unit of the image: the
\* page of unit i is below (1 + len).div_ceil(PageCells).
LEMMA ErasedCoversImage ==
  ASSUME NEW len \in 0 .. FlashCells, NEW i \in 1 .. len
  PROVE  i \in ErasedBy(len)
<1> DEFINE q == i \div PageCells
           p == PagesOf(len)
           n == 1 + len + PageCells - 1
<1>1. PageCells \in Nat \ {0} /\ FlashCells \in Nat
  BY ImageAssumption
<1>2. q \in Int /\ q * PageCells <= i
  BY <1>1
<1>3. p \in Int /\ n < (p + 1) * PageCells
  BY <1>1 DEF PagesOf
<1>4. q < p
  BY <1>1, <1>2, <1>3
<1>5. QED
  BY <1>1, <1>4 DEF ErasedBy, Cells

\* An operation has the fields of its kind.
LEMMA OperationKinds ==
  ASSUME pending \in Operations
  PROVE  /\ pending.op = "begin" =>
              /\ pending.bytecodeLen \in 0 .. MaxBytecode
              /\ pending.mapCount \in 0 .. MaxMaps
              /\ pending.crc \in Seq(Units)
         /\ pending.op = "data" => pending.offset \in Nat /\ pending.bytes \in Seq(Units)
         /\ pending.op = "finalize" => pending = FinalizeOp
         /\ pending.op \notin {"begin", "data", "finalize"} => pending = NoOperation
BY DEF Operations, BeginOps, DataOps, FinalizeOp, NoOperation

\* A request accepts_load accepts is an operation that fits the loader state.
LEMMA AcceptedIsOperation ==
  ASSUME NEW req \in LoadRequests, LoadVerdict(req) = "OK", LoaderTypeOK
  PROVE  /\ req \in Operations
         /\ req.op = "begin" => ShapeOK(req.bytecodeLen, req.mapCount)
         /\ req.op = "data" => DataVerdict(req) = "OK"
         /\ req.op = "finalize" => FinalizeVerdict = "OK"
<1>1. CASE req.op = "begin"
  <2>1. BeginVerdict(req) = "OK"
    BY <1>1 DEF LoadVerdict
  <2>2. ShapeOK(req.bytecodeLen, req.mapCount)
    BY <2>1 DEF BeginVerdict
  <2>3. req \in [op : {"begin"}, bytecodeLen : 0 .. MaxBytecode + 1,
                 mapCount : 0 .. MaxMaps + 1, crc : DeclaredCrcs]
    BY <1>1 DEF LoadRequests, FinalizeOp
  <2>4. req \in BeginOps
    BY <2>2, <2>3, ImageAssumption, LoaderAssumption DEF BeginOps, ShapeOK
  <2>5. QED
    BY <1>1, <2>2, <2>4 DEF Operations
<1>2. CASE req.op = "data"
  <2>1. DataVerdict(req) = "OK"
    BY <1>2 DEF LoadVerdict
  <2>2. req \in [op : {"data"}, offset : 0 .. FlashCells, bytes : Fragments]
    BY <1>2 DEF LoadRequests, FinalizeOp
  <2>3. req.bytes \in Seq(Units)
    BY <2>2 DEF Fragments
  <2>4. req \in DataOps
    BY <2>2, <2>3, ImageAssumption DEF DataOps
  <2>5. QED
    BY <1>2, <2>1, <2>4 DEF Operations
<1>3. CASE req.op = "finalize"
  BY <1>3 DEF LoadVerdict, LoadRequests, FinalizeOp, Operations
<1>4. CASE req.op \notin {"begin", "data", "finalize"}
  BY <1>4 DEF LoadVerdict
<1>5. QED
  BY <1>1, <1>2, <1>3, <1>4

\* What an interrupted or failed operation leaves is a flash content.
LEMMA TornTypes ==
  ASSUME flash \in Flashes, pending \in Operations
  PROVE  /\ pending.op = "begin" => TornBegin(flash, pending) \subseteq Flashes
         /\ pending.op = "data" => TornData(flash, pending) \subseteq Flashes
         /\ TornFinalize(flash) \subseteq Flashes
<1>1. ASSUME pending.op = "begin" PROVE TornBegin(flash, pending) \subseteq Flashes
  <2>1. HeaderOf(pending) \in Headers
    BY <1>1, OperationKinds, ImageAssumption DEF HeaderOf, Headers
  <2>2. TornErase(flash, LenOf(pending)) \subseteq Flashes
    BY DEF TornErase, Flashes
  <2>3. AfterErase(flash, LenOf(pending)) \in Flashes
    BY DEF AfterErase, Flashes, CellValues
  <2>4. QED
    BY <2>1, <2>2, <2>3 DEF TornBegin, Flashes
<1>2. ASSUME pending.op = "data" PROVE TornData(flash, pending) \subseteq Flashes
  BY DEF TornData, Flashes
<1>3. TornFinalize(flash) \subseteq Flashes
  BY DEF TornFinalize, Flashes
<1>4. QED
  BY <1>1, <1>2, <1>3

\* The boot outcomes carry an image shape the partition has room for.
LEMMA BootTypes ==
  ASSUME LoaderTypeOK, NEW f \in Flashes, Boot(f)
  PROVE  LoaderTypeOK'
<1>1. /\ 0 \in 0 .. MaxBytecode /\ 0 \in 0 .. MaxMaps /\ 0 \in 0 .. FlashCells
      /\ <<>> \in Seq(Units) /\ NoOperation \in Operations
  BY ImageAssumption DEF Operations
<1>2. flash' \in Flashes /\ pending' \in Operations /\ imageLen' \in 0 .. FlashCells
      /\ nextOffset' \in 0 .. imageLen' /\ expectedCrc' \in Seq(Units) /\ crc' \in Seq(Units)
  BY <1>1 DEF Boot, FreshRam
<1>3. CASE BootCommitted(f)
  <2>1. f.header \in Headers /\ ShapeOK(f.header.bytecodeLen, f.header.mapCount)
    BY <1>3 DEF BootCommitted, Durable, HasHeader
  <2>2. QED
    BY <1>2, <1>3, <2>1, ImageAssumption
    DEF BootCommitted, LoaderTypeOK, Headers, ShapeOK, LoaderStates, Committed
<1>4. CASE BootEmpty(f)
  BY <1>1, <1>2, <1>4
  DEF BootEmpty, NoImageAtBoot, LoaderTypeOK, LoaderStates, Empty
<1>5. CASE BootUnreadable
  BY <1>1, <1>2, <1>5
  DEF BootUnreadable, NoImageAtBoot, LoaderTypeOK, LoaderStates, Failed, Failures
<1>6. QED
  BY <1>3, <1>4, <1>5 DEF Boot

\* Boot starts from nothing pending and serves an image only when flash holds
\* it whole, so it establishes the safety invariants whatever went before.
LEMMA BootSafe ==
  ASSUME NEW f, Boot(f)
  PROVE  Safety'
<1>1. CASE BootCommitted(f)
  <2>1. /\ Durable(flash') /\ flash'.header \in Headers
        /\ state' = Committed(flash'.header.crc)
        /\ bytecodeLen' = flash'.header.bytecodeLen
        /\ mapCount' = flash'.header.mapCount
        /\ layouts' = Layouts(flash'.cell, bytecodeLen', mapCount')
    BY <1>1 DEF Boot, BootCommitted, Durable, HasHeader
  <2>2. flash'.header = DeclaredHeader(state.crc)'
    BY <2>1 DEF DeclaredHeader, Headers, Committed
  <2>3. QED
    BY <2>1, <2>2
    DEF Boot, FreshRam, Safety, CommittedIsDurable, LayoutsOnlyForImage, HasImage,
        PendingFits, ReceivedPrefixInFlash, RunningIsIdle, Committed, Receiving, NoOperation
<1>2. CASE BootEmpty(f) \/ BootUnreadable
  BY <1>2
  DEF Boot, BootEmpty, BootUnreadable, NoImageAtBoot, FreshRam, Safety, CommittedIsDurable,
      LayoutsOnlyForImage, HasImage, PendingFits, ReceivedPrefixInFlash, RunningIsIdle,
      Empty, Failed, Receiving, NoOperation
<1>3. QED
  BY <1>1, <1>2 DEF Boot

-----------------------------------------------------------------------------
(* Type correctness.                                                       *)

\* The accepted sizes fit the partition at every step; what a pending
\* operation declares is bounded by PendingFits.
LEMMA TypeStep ==
  ASSUME LoaderTypeOK, Safety, [LoaderNext]_loaderVars
  PROVE  LoaderTypeOK'
<1> USE DEF LoaderTypeOK
<1>0. FlashCells \in Nat /\ MaxBytecode \in Nat /\ MaxMaps \in Nat
      /\ NoOperation \in Operations
  BY ImageAssumption DEF Operations
<1>1. ASSUME NEW req \in LoadRequests, AcceptLoad(req) PROVE LoaderTypeOK'
  BY <1>1, AcceptedIsOperation DEF AcceptLoad
<1>2. CASE Begin
  <2>1. pending.op = "begin" /\ ShapeOK(pending.bytecodeLen, pending.mapCount)
    BY <1>2 DEF Begin, TakeOperation, Safety, PendingFits
  <2>2. LenOf(pending) \in 0 .. FlashCells
    BY <1>0, <2>1, OperationKinds DEF ShapeOK, LenOf, ImageLen
  <2>3. AfterBegin(flash, pending) \in Flashes
    <3>1. HeaderOf(pending) \in Headers
      BY <1>0, <2>1, OperationKinds DEF HeaderOf, Headers
    <3>2. AfterErase(flash, LenOf(pending)) \in Flashes
      BY DEF AfterErase, Flashes, CellValues
    <3>3. QED
      BY <3>1, <3>2 DEF AfterBegin, Flashes
  <2>4. QED
    BY <1>0, <1>2, <2>1, <2>2, <2>3, OperationKinds
    DEF Begin, TakeOperation, LoaderStates, Receiving
<1>3. CASE BeginFails
  BY <1>0, <1>3, TornTypes DEF BeginFails, TakeOperation, LoaderStates, Failed, Failures
<1>4. CASE Data
  <2>1. /\ pending.op = "data"
        /\ pending.offset = nextOffset
        /\ nextOffset + Len(pending.bytes) <= imageLen
    BY <1>4 DEF Data, TakeOperation, Safety, PendingFits
  <2>2. pending.bytes \in Seq(Units) /\ Len(pending.bytes) \in Nat
    BY <2>1, OperationKinds
  <2>3. AfterData(flash, pending) \in Flashes
    <3>1. ASSUME NEW i \in Cells, i \in Programmed(pending)
          PROVE  pending.bytes[i - pending.offset] \in CellValues
      BY <2>1, <2>2, <3>1 DEF Programmed, CellValues, Cells
    <3>2. QED
      BY <3>1 DEF AfterData, Flashes
  <2>4. nextOffset + Len(pending.bytes) \in 0 .. imageLen
    BY <1>0, <2>1, <2>2
  <2>5. QED
    BY <1>0, <1>4, <2>2, <2>3, <2>4 DEF Data, TakeOperation
<1>5. CASE DataFails
  BY <1>0, <1>5, TornTypes DEF DataFails, TakeOperation, LoaderStates, Failed, Failures
<1>6. CASE Commit
  <2>1. AfterFinalize(flash) \in Flashes
    BY DEF AfterFinalize, Flashes
  <2>2. QED
    BY <1>0, <1>6, <2>1 DEF Commit, TakeOperation, LoaderStates, Committed
<1>7. CASE FinalizeBadCrc
  BY <1>0, <1>7 DEF FinalizeBadCrc, FinalizeFails, TakeOperation, LoaderStates, Failed, Failures
<1>8. CASE FinalizeBadMaps
  BY <1>0, <1>8 DEF FinalizeBadMaps, FinalizeFails, TakeOperation, LoaderStates, Failed, Failures
<1>9. CASE FinalizeFlashError
  BY <1>0, <1>9, TornTypes
  DEF FinalizeFlashError, FinalizeFails, TakeOperation, LoaderStates, Failed, Failures
<1>10. CASE StartImage
  BY <1>10 DEF StartImage, MarkRunning, LoaderStates, Running
<1>11. CASE Reset
  BY <1>11, BootTypes DEF Reset
<1>12. CASE PowerCut
  <2>1. PICK f \in Torn : Boot(f)
    BY <1>12 DEF PowerCut
  <2>2. f \in Flashes
    BY <2>1, TornTypes DEF Torn
  <2>3. QED
    BY <2>1, <2>2, BootTypes
<1>13. CASE UNCHANGED loaderVars
  BY <1>13 DEF loaderVars
<1>14. QED
  BY <1>1, <1>2, <1>3, <1>4, <1>5, <1>6, <1>7, <1>8, <1>9, <1>10, <1>11, <1>12, <1>13
  DEF LoaderNext, ExecutePending

-----------------------------------------------------------------------------
(* Safety.                                                                 *)

\* A failure gives up the image, the transfer and the layouts.
LEMMA FailureSafe ==
  ASSUME NEW s, state' = Failed(s), pending' = NoOperation, layouts' = NoLayouts
  PROVE  Safety'
BY DEF Safety, CommittedIsDurable, LayoutsOnlyForImage, HasImage, PendingFits,
       ReceivedPrefixInFlash, RunningIsIdle, Failed, Receiving, NoOperation

\* While no image is committed there are no layouts, so a Data or Finalize
\* failure need not clear them.
LEMMA ReceivingHasNoLayouts ==
  ASSUME Safety, pending.op \in {"data", "finalize"}
  PROVE  state.tag = "Receiving" /\ layouts = NoLayouts
BY DEF Safety, PendingFits, LayoutsOnlyForImage, HasImage, Receiving

\* Finalize commits what was received: the flash content is the sequence the
\* rolling CRC was computed from.
LEMMA ReceivedContent ==
  ASSUME LoaderTypeOK, ReceivedPrefixInFlash, state.tag = "Receiving", nextOffset = imageLen
  PROVE  ContentOf(flash.cell, imageLen) = crc
<1>1. crc \in Seq(Units) /\ Len(crc) = imageLen /\ imageLen \in Nat
  BY ImageAssumption DEF LoaderTypeOK, ReceivedPrefixInFlash
<1>2. crc = [i \in 1 .. imageLen |-> crc[i]]
  BY <1>1
<1>3. \A i \in 1 .. imageLen : flash.cell[i] = crc[i]
  BY <1>1 DEF ReceivedPrefixInFlash
<1>4. QED
  BY <1>2, <1>3 DEF ContentOf

LEMMA SafetyStep ==
  ASSUME LoaderTypeOK, Safety, [LoaderNext]_loaderVars
  PROVE  Safety'
<1>0. FlashCells \in Nat /\ MaxBytecode \in Nat /\ MaxMaps \in Nat
  BY ImageAssumption
<1>1. ASSUME NEW req \in LoadRequests, AcceptLoad(req) PROVE Safety'
  <2>1. /\ LoadVerdict(req) = "OK"
        /\ pending' = req
        /\ UNCHANGED <<flash, state, bytecodeLen, mapCount, imageLen, nextOffset,
                       expectedCrc, crc, layouts>>
    BY <1>1 DEF AcceptLoad
  <2>2. PendingFits'
    <3>1. req.op = "begin" => ShapeOK(req.bytecodeLen, req.mapCount)
      BY <2>1, AcceptedIsOperation
    <3>2. req.op = "data" =>
            /\ state.tag = "Receiving"
            /\ req.offset = nextOffset
            /\ nextOffset + Len(req.bytes) <= imageLen
      <4>1. SUFFICES ASSUME req.op = "data" PROVE DataVerdict(req) = "OK"
                                                  /\ Len(req.bytes) \in Nat
                                                  /\ nextOffset \in Nat /\ imageLen \in Nat
        BY DEF DataVerdict
      <4>2. req \in DataOps
        BY <2>1, <4>1, AcceptedIsOperation
        DEF Operations, BeginOps, FinalizeOp, NoOperation
      <4>3. QED
        BY <1>0, <2>1, <4>1, <4>2, AcceptedIsOperation DEF DataOps, LoaderTypeOK
    <3>3. req.op = "finalize" => state.tag = "Receiving" /\ nextOffset = imageLen
      BY <2>1, AcceptedIsOperation DEF FinalizeVerdict
    <3>4. QED
      BY <2>1, <3>1, <3>2, <3>3 DEF PendingFits
  <2>3. RunningIsIdle'
    BY <2>1 DEF RunningIsIdle, LoadVerdict
  <2>4. QED
    BY <2>1, <2>2, <2>3
    DEF Safety, CommittedIsDurable, DeclaredHeader, LayoutsOnlyForImage, HasImage,
        ReceivedPrefixInFlash
<1>2. CASE Begin
  <2>1. pending.op = "begin" /\ ShapeOK(pending.bytecodeLen, pending.mapCount)
    BY <1>2 DEF Begin, TakeOperation, Safety, PendingFits
  <2>2. LenOf(pending) \in 0 .. FlashCells
    BY <1>0, <2>1, OperationKinds DEF ShapeOK, LenOf, ImageLen, LoaderTypeOK
  <2>3. \A i \in 1 .. LenOf(pending) : i \in Cells /\ i \in ErasedBy(LenOf(pending))
    BY <2>2, ErasedCoversImage DEF ErasedBy
  <2>4. flash' = [header |-> HeaderOf(pending), marker |-> Erased,
                  cell |-> [i \in Cells |-> IF i \in ErasedBy(LenOf(pending)) THEN Erased
                                            ELSE flash.cell[i]]]
    BY <1>2 DEF Begin, AfterBegin, AfterErase
  <2>5. /\ state' = Receiving /\ pending' = NoOperation /\ layouts' = NoLayouts
        /\ bytecodeLen' = pending.bytecodeLen /\ mapCount' = pending.mapCount
        /\ imageLen' = LenOf(pending) /\ nextOffset' = 0 /\ crc' = <<>>
        /\ expectedCrc' = pending.crc
    BY <1>2 DEF Begin, TakeOperation
  <2>6. ReceivedPrefixInFlash'
    <3>1. flash'.header = DeclaredHeader(expectedCrc)' /\ flash'.marker = Erased
      BY <2>4, <2>5 DEF HeaderOf, DeclaredHeader
    <3>2. \A i \in 1 .. imageLen' : flash'.cell[i] = Erased /\ ~(i <= nextOffset')
      BY <2>2, <2>3, <2>4, <2>5
    <3>3. nextOffset' = Len(crc')
      BY <2>5
    <3>4. QED
      BY <2>1, <2>5, <3>1, <3>2, <3>3 DEF ReceivedPrefixInFlash, LenOf
  <2>7. QED
    BY <2>5, <2>6
    DEF Safety, CommittedIsDurable, LayoutsOnlyForImage, HasImage, PendingFits,
        RunningIsIdle, Receiving, NoOperation
<1>3. CASE BeginFails
  BY <1>3, FailureSafe DEF BeginFails, TakeOperation
<1>4. CASE Data
  <2>1. /\ pending.op = "data" /\ state.tag = "Receiving" /\ layouts = NoLayouts
        /\ pending.offset = nextOffset
        /\ nextOffset + Len(pending.bytes) <= imageLen
    BY <1>4, ReceivingHasNoLayouts DEF Data, TakeOperation, Safety, PendingFits
  <2>2. /\ pending.bytes \in Seq(Units) /\ Len(pending.bytes) \in Nat
        /\ crc \in Seq(Units) /\ nextOffset \in Nat /\ imageLen \in 0 .. FlashCells
        /\ nextOffset = Len(crc)
    BY <1>0, <2>1, OperationKinds DEF LoaderTypeOK, Safety, ReceivedPrefixInFlash
  <2>3. /\ state'.tag = "Receiving" /\ pending' = NoOperation /\ layouts' = NoLayouts
        /\ crc' = crc \o pending.bytes /\ nextOffset' = nextOffset + Len(pending.bytes)
        /\ UNCHANGED <<bytecodeLen, mapCount, imageLen, expectedCrc>>
    BY <1>4, <2>1 DEF Data, TakeOperation
  <2>4. /\ flash'.header = flash.header /\ flash'.marker = flash.marker
        /\ \A i \in Cells : flash'.cell[i] = IF i \in Programmed(pending)
                                             THEN pending.bytes[i - pending.offset]
                                             ELSE flash.cell[i]
    BY <1>4 DEF Data, AfterData, LoaderTypeOK, Flashes
  <2>5. nextOffset' = Len(crc')
    BY <2>2, <2>3
  <2>6. ASSUME NEW i \in 1 .. imageLen'
        PROVE  flash'.cell[i] = IF i <= nextOffset' THEN crc'[i] ELSE Erased
    <3>1. i \in Cells /\ i \in 1 .. imageLen
      BY <1>0, <2>2, <2>3 DEF Cells
    <3>2. flash.cell[i] = IF i <= nextOffset THEN crc[i] ELSE Erased
      BY <2>1, <3>1 DEF Safety, ReceivedPrefixInFlash
    <3>3. i \in Programmed(pending) <=> nextOffset < i /\ i <= nextOffset'
      BY <2>1, <2>2, <2>3, <3>1 DEF Programmed
    <3>4. i <= nextOffset => crc'[i] = crc[i]
      BY <2>2, <2>3, <3>1
    <3>5. nextOffset < i /\ i <= nextOffset' => crc'[i] = pending.bytes[i - nextOffset]
      BY <2>2, <2>3, <3>1
    <3>6. QED
      BY <2>1, <2>2, <2>3, <2>4, <3>1, <3>2, <3>3, <3>4, <3>5
  <2>7. ReceivedPrefixInFlash'
    BY <2>1, <2>3, <2>4, <2>5, <2>6 DEF Safety, ReceivedPrefixInFlash, DeclaredHeader
  <2>8. QED
    BY <2>3, <2>7
    DEF Safety, CommittedIsDurable, LayoutsOnlyForImage, HasImage, PendingFits,
        RunningIsIdle, Receiving, NoOperation
<1>5. CASE DataFails
  BY <1>5, FailureSafe, ReceivingHasNoLayouts DEF DataFails, TakeOperation
<1>6. CASE Commit
  <2>1. /\ pending.op = "finalize" /\ state.tag = "Receiving" /\ nextOffset = imageLen
        /\ crc = expectedCrc /\ FlashLayouts # NoLayouts
    BY <1>6 DEF Commit, TakeOperation, CrcMatches, Safety, PendingFits
  <2>2. /\ ShapeOK(bytecodeLen, mapCount) /\ imageLen = ImageLen(bytecodeLen, mapCount)
        /\ flash.header = DeclaredHeader(expectedCrc)
        /\ ContentOf(flash.cell, imageLen) = crc
    BY <2>1, ReceivedContent DEF Safety, ReceivedPrefixInFlash
  <2>3. flash.header \in Headers
    BY <1>0, <2>2 DEF DeclaredHeader, Headers, LoaderTypeOK
  <2>4. /\ flash'.header = flash.header /\ flash'.marker = "committed"
        /\ flash'.cell = flash.cell
    BY <1>6 DEF Commit, AfterFinalize, LoaderTypeOK, Flashes
  <2>5. /\ state' = Committed(expectedCrc) /\ pending' = NoOperation
        /\ layouts' = Layouts(flash.cell, bytecodeLen, mapCount)
        /\ UNCHANGED <<bytecodeLen, mapCount>>
    BY <1>6 DEF Commit, TakeOperation, FlashLayouts
  <2>6. Durable(flash')
    BY <2>1, <2>2, <2>3, <2>4 DEF Durable, HasHeader, DeclaredHeader, FlashLayouts
  <2>7. CommittedIsDurable'
    BY <2>2, <2>4, <2>5, <2>6 DEF CommittedIsDurable, DeclaredHeader, Committed
  <2>8. QED
    BY <2>5, <2>7
    DEF Safety, LayoutsOnlyForImage, HasImage, PendingFits, ReceivedPrefixInFlash,
        RunningIsIdle, Committed, Receiving, NoOperation
<1>7. CASE FinalizeBadCrc
  BY <1>7, FailureSafe, ReceivingHasNoLayouts DEF FinalizeBadCrc, FinalizeFails, TakeOperation
<1>8. CASE FinalizeBadMaps
  BY <1>8, FailureSafe, ReceivingHasNoLayouts DEF FinalizeBadMaps, FinalizeFails, TakeOperation
<1>9. CASE FinalizeFlashError
  BY <1>9, FailureSafe, ReceivingHasNoLayouts DEF FinalizeFlashError, FinalizeFails, TakeOperation
<1>10. CASE StartImage
  <2>1. /\ pending = NoOperation /\ state.tag = "Committed" /\ state' = Running(state.crc)
        /\ UNCHANGED <<flash, pending, bytecodeLen, mapCount, imageLen, nextOffset,
                       expectedCrc, crc, layouts>>
    BY <1>10 DEF StartImage, MarkRunning, ExecutionVerdict, QueryVerdict
  <2>2. QED
    BY <2>1
    DEF Safety, CommittedIsDurable, DeclaredHeader, LayoutsOnlyForImage, HasImage,
        PendingFits, ReceivedPrefixInFlash, RunningIsIdle, Running, Receiving, NoOperation
<1>11. CASE Reset
  BY <1>11, BootSafe DEF Reset
<1>12. CASE PowerCut
  BY <1>12, BootSafe DEF PowerCut
<1>13. CASE UNCHANGED loaderVars
  BY <1>13
  DEF loaderVars, Safety, CommittedIsDurable, DeclaredHeader, LayoutsOnlyForImage, HasImage,
      PendingFits, ReceivedPrefixInFlash, RunningIsIdle
<1>14. QED
  BY <1>1, <1>2, <1>3, <1>4, <1>5, <1>6, <1>7, <1>8, <1>9, <1>10, <1>11, <1>12, <1>13
  DEF LoaderNext, ExecutePending

-----------------------------------------------------------------------------
(* Theorems of the specification.                                          *)

LEMMA InitInvariant == LoaderInit => LoaderTypeOK /\ Safety
<1> SUFFICES ASSUME LoaderInit PROVE LoaderTypeOK /\ Safety
  OBVIOUS
<1>1. LoaderTypeOK
  <2>1. ErasedFlash \in Flashes
    BY DEF ErasedFlash, Flashes, CellValues
  <2>2. QED
    BY <2>1, ImageAssumption DEF LoaderInit, LoaderTypeOK, LoaderStates, Empty, Operations
<1>2. Safety
  BY DEF LoaderInit, Safety, CommittedIsDurable, LayoutsOnlyForImage, HasImage, PendingFits,
         ReceivedPrefixInFlash, RunningIsIdle, Empty, NoOperation
<1>3. QED
  BY <1>1, <1>2

\* LoaderTypeOK and Safety together are inductive: the sizes a Begin installs are
\* bounded by PendingFits, and PendingFits is only kept for a well-typed state.
THEOREM Invariance == LoaderSpec => [](LoaderTypeOK /\ Safety)
<1>1. LoaderInit => LoaderTypeOK /\ Safety
  BY InitInvariant
<1>2. LoaderTypeOK /\ Safety /\ [LoaderNext]_loaderVars => (LoaderTypeOK /\ Safety)'
  BY TypeStep, SafetyStep
<1>3. QED
  BY <1>1, <1>2, PTL DEF LoaderSpec

\* Every length in RAM is one the partition has room for (accepts_load, begin,
\* validate_committed).
THEOREM TypeCorrect == LoaderSpec => []LoaderTypeOK
BY Invariance, PTL

\* What the loader reports committed, and what Start runs, is whole in flash
\* (finalize, validate_committed, mark_running).
THEOREM CommittedImageIsDurable == LoaderSpec => []CommittedIsDurable
<1>1. Safety => CommittedIsDurable
  BY DEF Safety
<1>2. QED
  BY <1>1, Invariance, PTL

\* Layouts are those of an image that is reported (clear_map_layouts).
THEOREM LayoutsAreForAnImage == LoaderSpec => []LayoutsOnlyForImage
<1>1. LoaderTypeOK /\ Safety => LayoutsOnlyForImage
  BY DEF Safety
<1>2. QED
  BY <1>1, Invariance, PTL

\* An operation still fits when the main loop gets to it (accepts_load,
\* execute_pending).
THEOREM PendingOperationFits == LoaderSpec => []PendingFits
<1>1. LoaderTypeOK /\ Safety => PendingFits
  BY DEF Safety
<1>2. QED
  BY <1>1, Invariance, PTL

\* The received prefix, and nothing else, is in flash during a transfer (begin,
\* the Data arm of execute_pending).
THEOREM ReceivedPrefixIsInFlash == LoaderSpec => []ReceivedPrefixInFlash
<1>1. Safety => ReceivedPrefixInFlash
  BY DEF Safety
<1>2. QED
  BY <1>1, Invariance, PTL

\* A running image has no operation parked behind it (accepts_load,
\* execution_metadata).
THEOREM RunningImageIsIdle == LoaderSpec => []RunningIsIdle
<1>1. Safety => RunningIsIdle
  BY DEF Safety
<1>2. QED
  BY <1>1, Invariance, PTL

\* Flash does not change under a running image, whatever is requested, and only
\* a reboot ends the running state.
THEOREM RunningImageIsKept == LoaderSpec => RunningImageStays
<1>1. ASSUME LoaderTypeOK, Safety, LoaderNext, state.tag = "Running"
      PROVE  flash' = flash /\ (state' = state \/ Reset)
  <2>1. pending = NoOperation
    BY <1>1 DEF Safety, RunningIsIdle
  <2>2. ~ExecutePending
    BY <2>1
    DEF ExecutePending, Begin, BeginFails, Data, DataFails, Commit, FinalizeBadCrc,
        FinalizeBadMaps, FinalizeFlashError, FinalizeFails, TakeOperation, NoOperation
  <2>3. ~PowerCut /\ ~StartImage
    BY <1>1, <2>1 DEF PowerCut, StartImage, MarkRunning
  <2>4. ASSUME NEW req \in LoadRequests, AcceptLoad(req) PROVE flash' = flash /\ state' = state
    BY <2>4 DEF AcceptLoad
  <2>5. Reset => flash' = flash
    BY DEF Reset, Boot
  <2>6. QED
    BY <1>1, <2>2, <2>3, <2>4, <2>5 DEF LoaderNext
<1>2. LoaderTypeOK /\ Safety /\ [LoaderNext]_loaderVars =>
        [state.tag = "Running" => flash' = flash /\ (state' = state \/ Reset)]_loaderVars
  BY <1>1
<1>3. QED
  BY <1>2, Invariance, PTL DEF LoaderSpec, RunningImageStays

\* A failure ends by Begin or by a reboot only.
THEOREM FailureIsRetained == LoaderSpec => FailureRetained
<1>1. ASSUME LoaderTypeOK, Safety, LoaderNext, state.tag = "Failed", state' # state
      PROVE  pending.op = "begin" \/ Reset \/ PowerCut
  <2>1. pending.op \notin {"data", "finalize"}
    BY <1>1 DEF Safety, PendingFits
  <2>2. ExecutePending => pending.op = "begin"
    BY <2>1
    DEF ExecutePending, Begin, BeginFails, Data, DataFails, Commit, FinalizeBadCrc,
        FinalizeBadMaps, FinalizeFlashError, FinalizeFails, TakeOperation
  <2>3. ~StartImage
    BY <1>1 DEF StartImage, MarkRunning
  <2>4. ASSUME NEW req \in LoadRequests, AcceptLoad(req) PROVE FALSE
    BY <1>1, <2>4 DEF AcceptLoad
  <2>5. QED
    BY <1>1, <2>2, <2>3, <2>4 DEF LoaderNext
<1>2. LoaderTypeOK /\ Safety /\ [LoaderNext]_loaderVars =>
        [state.tag = "Failed" /\ state' # state =>
           pending.op = "begin" \/ Reset \/ PowerCut]_loaderVars
  BY <1>1
<1>3. QED
  BY <1>2, Invariance, PTL DEF LoaderSpec, FailureRetained

\* A Data operation, whole or cut short, programs only units that are erased.
LEMMA DataHitsErased ==
  ASSUME LoaderTypeOK, Safety, pending.op = "data",
         NEW i \in Cells, i \in Programmed(pending)
  PROVE  flash.cell[i] = Erased
<1>1. /\ pending.bytes \in Seq(Units) /\ Len(pending.bytes) \in Nat
      /\ nextOffset \in Nat /\ imageLen \in Nat
  BY OperationKinds, ImageAssumption DEF LoaderTypeOK
<1>2. /\ state.tag = "Receiving"
      /\ pending.offset = nextOffset
      /\ nextOffset + Len(pending.bytes) <= imageLen
  BY DEF Safety, PendingFits
<1>3. i \in 1 .. imageLen /\ ~(i <= nextOffset)
  BY <1>1, <1>2 DEF Programmed
<1>4. QED
  BY <1>2, <1>3 DEF Safety, ReceivedPrefixInFlash

\* The NOR discipline as a relation between two flash contents.
ProgramsErasedOnly(f, g) ==
  /\ \A i \in Cells : g.cell[i] \in Units /\ g.cell[i] # f.cell[i] => f.cell[i] = Erased
  /\ g.marker = "committed" /\ f.marker # "committed" => f.marker = Erased

\* Programming only erased flash holds of every step: of Data because it hits
\* erased units only, of Finalize because the marker stays erased while the
\* image is received, of Begin because it erases.
THEOREM NothingIsRewritten == LoaderSpec => NoRewrite
<1>1. ASSUME LoaderTypeOK, Safety, LoaderNext PROVE ProgramsErasedOnly(flash, flash')
  <2>1. ASSUME pending.op = "begin", flash' \in TornBegin(flash, pending)
        PROVE  ProgramsErasedOnly(flash, flash')
    BY <1>1, <2>1, ImageAssumption
    DEF TornBegin, TornErase, AfterErase, ProgramsErasedOnly
  <2>2. ASSUME pending.op = "begin", flash' = AfterBegin(flash, pending)
        PROVE  ProgramsErasedOnly(flash, flash')
    BY <2>1, <2>2 DEF AfterBegin, TornBegin
  <2>3. ASSUME pending.op = "data", flash' \in TornData(flash, pending)
        PROVE  ProgramsErasedOnly(flash, flash')
    BY <1>1, <2>3, ImageAssumption, DataHitsErased DEF TornData, ProgramsErasedOnly
  <2>4. ASSUME pending.op = "data", flash' = AfterData(flash, pending)
        PROVE  ProgramsErasedOnly(flash, flash')
    BY <1>1, <2>4, DataHitsErased DEF AfterData, ProgramsErasedOnly, LoaderTypeOK, Flashes
  <2>5. ASSUME pending.op = "finalize", flash' \in TornFinalize(flash)
        PROVE  ProgramsErasedOnly(flash, flash')
    <3>1. flash.marker = Erased
      BY <1>1, <2>5 DEF Safety, PendingFits, ReceivedPrefixInFlash
    <3>2. flash'.cell = flash.cell
      BY <1>1, <2>5 DEF TornFinalize, LoaderTypeOK, Flashes
    <3>3. QED
      BY <3>1, <3>2 DEF ProgramsErasedOnly
  <2>6. ASSUME flash' = flash PROVE ProgramsErasedOnly(flash, flash')
    BY <2>6 DEF ProgramsErasedOnly
  <2>7. ASSUME pending.op = "finalize", flash' = AfterFinalize(flash)
        PROVE  ProgramsErasedOnly(flash, flash')
    BY <2>5, <2>7 DEF AfterFinalize, TornFinalize
  <2>8. CASE ExecutePending
    BY <2>1, <2>2, <2>3, <2>4, <2>5, <2>6, <2>7, <2>8
    DEF ExecutePending, Begin, BeginFails, Data, DataFails, Commit, FinalizeBadCrc,
        FinalizeBadMaps, FinalizeFlashError, FinalizeFails, TakeOperation
  <2>9. CASE PowerCut
    <3>1. flash' \in Torn
      BY <2>9 DEF PowerCut, Boot
    <3>2. QED
      BY <2>1, <2>3, <2>5, <2>6, <3>1 DEF Torn
  <2>10. CASE (\E req \in LoadRequests : AcceptLoad(req)) \/ StartImage \/ Reset
    BY <2>6, <2>10 DEF AcceptLoad, StartImage, MarkRunning, Reset, Boot
  <2>11. QED
    BY <1>1, <2>8, <2>9, <2>10 DEF LoaderNext
<1>2. LoaderTypeOK /\ Safety /\ [LoaderNext]_loaderVars =>
        [/\ \A i \in Cells :
              flash'.cell[i] \in Units /\ flash'.cell[i] # flash.cell[i] =>
                flash.cell[i] = Erased
         /\ flash'.marker = "committed" /\ flash.marker # "committed" =>
                flash.marker = Erased]_loaderVars
  BY <1>1 DEF ProgramsErasedOnly
<1>3. QED
  BY <1>2, Invariance, PTL DEF LoaderSpec, NoRewrite

-----------------------------------------------------------------------------
(* The loader implements the image store.                                  *)

\* An erase cut short leaves the image it found, untouched, or none: a unit
\* that is not the old one is not a unit of any content.
LEMMA TornBeginKeepsOrLoses ==
  ASSUME flash \in Flashes, NEW op, NEW g \in TornBegin(flash, op), Durable(g)
  PROVE  Durable(flash) /\ g.header = flash.header
<1> DEFINE h == g.header
           n == ImageLen(h.bytecodeLen, h.mapCount)
<1>1. h \in Headers /\ g.marker = "committed" /\ ShapeOK(h.bytecodeLen, h.mapCount)
  BY DEF Durable, HasHeader
<1>2. g \in TornErase(flash, LenOf(op))
  BY <1>1, ImageAssumption DEF TornBegin, AfterErase
<1>3. flash.header = h /\ flash.marker = "committed"
  BY <1>1, <1>2, ImageAssumption, HeaderAssumption DEF TornErase
<1>4. h.bytecodeLen \in Nat /\ h.mapCount \in Nat /\ h.crc \in Seq(Units)
      /\ n \in Nat /\ n <= FlashCells /\ FlashCells \in Nat
      /\ n = h.bytecodeLen + h.mapCount
  BY <1>1, ImageAssumption DEF Headers, ShapeOK, ImageLen
<1>5. h.crc = [i \in 1 .. n |-> g.cell[i]]
  BY DEF Durable, ContentOf
<1>6. \A i \in 1 .. n : i \in Cells /\ g.cell[i] \in Units
  <2>1. Len(h.crc) = n
    BY <1>4, <1>5
  <2>2. \A i \in 1 .. n : h.crc[i] \in Units /\ h.crc[i] = g.cell[i]
    BY <1>4, <1>5, <2>1
  <2>3. QED
    BY <1>4, <2>2 DEF Cells
<1>7. \A i \in 1 .. n : g.cell[i] = flash.cell[i]
  BY <1>2, <1>6, ImageAssumption DEF TornErase
<1>8. ContentOf(flash.cell, n) = h.crc
  BY <1>5, <1>7 DEF ContentOf
<1>9. [k \in 1 .. h.mapCount |-> flash.cell[h.bytecodeLen + k]]
        = [k \in 1 .. h.mapCount |-> g.cell[h.bytecodeLen + k]]
  BY <1>4, <1>7
<1>10. Layouts(flash.cell, h.bytecodeLen, h.mapCount) # NoLayouts
  BY <1>9 DEF Layouts, Durable
<1>11. QED
  BY <1>1, <1>3, <1>8, <1>10 DEF Durable, HasHeader

\* While an image is received nothing is committed.
LEMMA ReceivingIsNotDurable ==
  ASSUME Safety, state.tag = "Receiving"
  PROVE  flash.marker = Erased /\ ~Durable(flash) /\ StoreImage = Erased
BY ImageAssumption DEF Safety, ReceivedPrefixInFlash, Durable, HasHeader, StoreImage

\* Torn reaches the old image, the offered one or none.
LEMMA TornImages ==
  ASSUME LoaderTypeOK, Safety, NEW g \in Torn, Durable(g)
  PROVE  \/ Durable(flash) /\ g.header = flash.header
         \/ pending.op = "finalize" /\ g.header = StoreOffer
<1>1. CASE pending.op = "begin"
  BY <1>1, TornBeginKeepsOrLoses DEF Torn, LoaderTypeOK
<1>2. CASE pending.op = "data"
  <2>1. g.marker = Erased
    BY <1>2, ReceivingIsNotDurable DEF Torn, TornData, Safety, PendingFits
  <2>2. QED
    BY <2>1, ImageAssumption DEF Durable, HasHeader
<1>3. CASE pending.op = "finalize"
  <2>1. g.header = flash.header
    BY <1>3 DEF Torn, TornFinalize, LoaderTypeOK, Flashes
  <2>2. flash.header = StoreOffer
    BY <1>3 DEF Safety, PendingFits, ReceivedPrefixInFlash, StoreOffer
  <2>3. QED
    BY <1>3, <2>1, <2>2
<1>4. CASE pending.op \notin {"begin", "data", "finalize"}
  BY <1>4 DEF Torn
<1>5. QED
  BY <1>1, <1>2, <1>3, <1>4

\* An operation that was not started leaves flash as it was.
LEMMA TornKeeps ==
  ASSUME LoaderTypeOK
  PROVE  flash \in Torn
<1>1. flash = [header |-> flash.header, marker |-> flash.marker, cell |-> flash.cell]
      /\ flash.cell \in [Cells -> CellValues]
  BY DEF LoaderTypeOK, Flashes
<1>2. flash \in TornErase(flash, LenOf(pending)) /\ flash \in TornData(flash, pending)
  BY <1>1 DEF TornErase, TornData
<1>3. flash \in TornFinalize(flash)
  BY DEF TornFinalize, LoaderTypeOK, Flashes
<1>4. QED
  BY <1>2, <1>3 DEF Torn, TornBegin

\* A boot from a flash some operation left is a reboot of the store.
LEMMA BootIsReboot ==
  ASSUME LoaderTypeOK, Safety, NEW f \in Torn, Boot(f)
  PROVE  Store!Reboot
<1>1. StoreImage' = IF Durable(f) THEN f.header ELSE Erased
  BY DEF Boot, StoreImage
<1>2. \/ StoreImage' = StoreImage
      \/ StoreWork = "replace" /\ StoreImage' = Erased
      \/ StoreWork = "install" /\ StoreImage' = StoreOffer
  <2>1. CASE pending.op \notin {"begin", "data", "finalize"}
    BY <1>1, <2>1 DEF StoreImage, Torn
  <2>2. CASE Durable(f)
    BY <1>1, <2>2, TornImages DEF StoreImage, StoreWork
  <2>3. CASE ~Durable(f) /\ pending.op = "begin"
    BY <1>1, <2>3 DEF StoreWork
  <2>4. CASE ~Durable(f) /\ pending.op \in {"data", "finalize"}
    BY <1>1, <2>4, ReceivingIsNotDurable DEF Safety, PendingFits
  <2>5. QED
    BY <2>1, <2>2, <2>3, <2>4
<1>3. StoreOffer' = Erased /\ StoreWork' = "idle"
  BY DEF Boot, FreshRam, BootCommitted, BootEmpty, BootUnreadable, NoImageAtBoot, Committed,
         Empty, Failed, StoreOffer, StoreWork, NoOperation
<1>4. \/ StoreSession' \in {"none", "failed"}
      \/ StoreSession' = "ready" /\ StoreImage' # Erased
  <2>1. CASE BootCommitted(f)
    BY <1>1, <2>1, HeaderAssumption
    DEF BootCommitted, Committed, StoreSession, Durable, HasHeader
  <2>2. CASE BootEmpty(f)
    BY <2>2 DEF BootEmpty, NoImageAtBoot, Empty, StoreSession
  <2>3. CASE BootUnreadable
    BY <2>3 DEF BootUnreadable, NoImageAtBoot, Failed, StoreSession
  <2>4. QED
    BY <2>1, <2>2, <2>3 DEF Boot
<1>5. QED
  BY <1>2, <1>3, <1>4 DEF Store!Reboot

\* The state of the store reads the same while the loader's does.
StoreVars == <<StoreImage, StoreSession, StoreOffer, StoreWork>>

\* Every step of the loader is a step of the store or leaves it alone.
LEMMA StoreStep ==
  ASSUME LoaderTypeOK, Safety, [LoaderNext]_loaderVars
  PROVE  Store!Next \/ UNCHANGED StoreVars
<1>1. ASSUME NEW req \in LoadRequests, AcceptLoad(req)
      PROVE  Store!Next \/ UNCHANGED StoreVars
  <2>1. /\ LoadVerdict(req) = "OK" /\ pending = NoOperation /\ state.tag # "Running"
        /\ pending' = req
        /\ UNCHANGED <<flash, state, bytecodeLen, mapCount, expectedCrc>>
    BY <1>1 DEF AcceptLoad, LoadVerdict
  <2>2. /\ StoreWork = "idle" /\ StoreSession # "running"
        /\ UNCHANGED <<StoreImage, StoreSession, StoreOffer>>
    <3>1. StoreWork = "idle" /\ StoreSession # "running"
      BY <2>1 DEF StoreWork, StoreSession, NoOperation
    <3>2. StoreImage' = StoreImage /\ StoreSession' = StoreSession
      BY <2>1 DEF StoreImage, StoreSession
    <3>3. StoreOffer' = StoreOffer
      BY <2>1 DEF StoreOffer, DeclaredHeader
    <3>4. QED
      BY <3>1, <3>2, <3>3
  <2>3. \/ StoreWork' = "replace"
        \/ StoreWork' = "install" /\ StoreSession = "loading"
        \/ StoreWork' = "idle"
    BY <2>1, AcceptedIsOperation DEF StoreWork, StoreSession, FinalizeVerdict
  <2>4. QED
    BY <2>2, <2>3 DEF Store!Next, Store!Request, StoreVars
<1>2. CASE Begin
  <2>1. /\ pending.op = "begin" /\ pending' = NoOperation /\ flash'.marker = Erased
        /\ state' = Receiving /\ StoreOffer' = DeclaredHeader(expectedCrc)'
    BY <1>2 DEF Begin, TakeOperation, AfterBegin, AfterErase, StoreOffer, Receiving
  <2>2. StoreOffer' \in Headers
    BY <2>1, TypeStep, ImageAssumption DEF LoaderTypeOK, DeclaredHeader, Headers
  <2>3. StoreImage' = Erased
    BY <2>1, ImageAssumption DEF StoreImage, Durable, HasHeader
  <2>4. StoreWork = "replace" /\ StoreWork' = "idle" /\ StoreSession' = "loading"
    BY <2>1 DEF StoreWork, StoreSession, Receiving, NoOperation
  <2>5. QED
    BY <2>2, <2>3, <2>4 DEF Store!Next, Store!Replace
<1>3. CASE BeginFails
  <2>1. /\ pending.op = "begin" /\ pending' = NoOperation /\ state' = Failed("FLASH_ERROR")
        /\ flash' \in TornBegin(flash, pending)
    BY <1>3 DEF BeginFails, TakeOperation
  <2>2. StoreImage' \in {StoreImage, Erased}
    BY <2>1, TornBeginKeepsOrLoses DEF StoreImage, LoaderTypeOK
  <2>3. StoreWork = "replace" /\ StoreWork' = "idle" /\ StoreSession' = "failed"
        /\ StoreOffer' = Erased
    BY <2>1 DEF StoreWork, StoreSession, StoreOffer, Failed, NoOperation
  <2>4. QED
    BY <2>2, <2>3 DEF Store!Next, Store!ReplaceFails
<1>4. CASE Data
  <2>1. /\ pending.op = "data" /\ pending' = NoOperation /\ state' = state
        /\ state.tag = "Receiving" /\ flash'.marker = flash.marker
        /\ UNCHANGED <<bytecodeLen, mapCount, expectedCrc>>
    BY <1>4 DEF Data, TakeOperation, AfterData, Safety, PendingFits, LoaderTypeOK, Flashes
  <2>2. StoreImage = Erased /\ StoreImage' = Erased
    BY <2>1, ReceivingIsNotDurable, ImageAssumption DEF StoreImage, Durable, HasHeader
  <2>3. UNCHANGED <<StoreSession, StoreOffer, StoreWork>>
    BY <2>1 DEF StoreSession, StoreOffer, StoreWork, DeclaredHeader, NoOperation
  <2>4. QED
    BY <2>2, <2>3 DEF StoreVars
<1>5. CASE DataFails
  <2>1. /\ pending.op = "data" /\ pending' = NoOperation /\ state' = Failed("FLASH_ERROR")
        /\ state.tag = "Receiving" /\ flash'.marker = flash.marker
    BY <1>5 DEF DataFails, TakeOperation, TornData, Safety, PendingFits
  <2>2. StoreImage = Erased /\ StoreImage' = Erased
    BY <2>1, ReceivingIsNotDurable, ImageAssumption DEF StoreImage, Durable, HasHeader
  <2>3. StoreSession = "loading" /\ StoreWork = "idle"
    BY <2>1 DEF StoreSession, StoreWork
  <2>4. StoreSession' = "failed" /\ StoreOffer' = Erased /\ StoreWork' = "idle"
    BY <2>1 DEF StoreSession, StoreOffer, StoreWork, Failed, NoOperation
  <2>5. QED
    BY <2>2, <2>3, <2>4 DEF Store!Next, Store!TransferFails
<1>6. ASSUME pending.op = "finalize", pending' = NoOperation, flash' \in TornFinalize(flash)
      PROVE  /\ StoreWork = "install" /\ StoreWork' = "idle"
             /\ StoreImage' \in {StoreImage, StoreOffer}
             /\ Durable(flash') => StoreImage' = StoreOffer
  <2>1. state.tag = "Receiving" /\ flash'.header = flash.header
    BY <1>6 DEF Safety, PendingFits, TornFinalize, LoaderTypeOK, Flashes
  <2>2. flash.header = StoreOffer
    BY <2>1 DEF Safety, ReceivedPrefixInFlash, StoreOffer
  <2>3. StoreImage = Erased
    BY <2>1, ReceivingIsNotDurable
  <2>4. QED
    BY <1>6, <2>1, <2>2, <2>3 DEF StoreImage, StoreWork, NoOperation
<1>7. CASE Commit
  <2>1. /\ pending.op = "finalize" /\ pending' = NoOperation
        /\ flash' \in TornFinalize(flash) /\ state' = Committed(expectedCrc)
    BY <1>7 DEF Commit, TakeOperation, AfterFinalize, TornFinalize
  <2>2. StoreSession' = "ready" /\ StoreOffer' = Erased
    BY <2>1 DEF StoreSession, StoreOffer, Committed
  <2>3. Durable(flash')
    BY <2>1, SafetyStep DEF Safety, CommittedIsDurable, HasImage, Committed
  <2>4. QED
    BY <1>6, <2>1, <2>2, <2>3 DEF Store!Next, Store!Install
<1>8. CASE FinalizeBadCrc \/ FinalizeBadMaps \/ FinalizeFlashError
  <2>1. PICK status \in Failures : FinalizeFails(status)
    BY <1>8 DEF FinalizeBadCrc, FinalizeBadMaps, FinalizeFlashError, Failures
  <2>2. flash \in TornFinalize(flash)
    BY DEF TornFinalize, LoaderTypeOK, Flashes
  <2>3. flash' \in TornFinalize(flash)
    BY <1>8, <2>2 DEF FinalizeBadCrc, FinalizeBadMaps, FinalizeFlashError
  <2>4. StoreSession' = "failed" /\ StoreOffer' = Erased
    BY <2>1 DEF FinalizeFails, StoreSession, StoreOffer, Failed
  <2>5. QED
    BY <1>6, <2>1, <2>3, <2>4
    DEF FinalizeFails, TakeOperation, Store!Next, Store!InstallFails
<1>9. CASE StartImage
  <2>1. /\ pending = NoOperation /\ state.tag = "Committed" /\ state' = Running(state.crc)
        /\ UNCHANGED <<flash, pending>>
    BY <1>9 DEF StartImage, MarkRunning, ExecutionVerdict, QueryVerdict
  <2>2. StoreWork = "idle" /\ StoreSession = "ready" /\ StoreSession' = "running"
        /\ UNCHANGED <<StoreImage, StoreOffer, StoreWork>>
    BY <2>1 DEF StoreWork, StoreSession, StoreImage, StoreOffer, Running, NoOperation
  <2>3. QED
    BY <2>2 DEF Store!Next, Store!Start
<1>10. ASSUME NEW f \in Torn, Boot(f) PROVE Store!Next
  BY <1>10, BootIsReboot DEF Store!Next
<1>11. CASE Reset \/ PowerCut
  BY <1>10, <1>11, TornKeeps DEF Reset, PowerCut
<1>12. CASE UNCHANGED loaderVars
  BY <1>12
  DEF loaderVars, StoreVars, StoreImage, StoreSession, StoreOffer, StoreWork, DeclaredHeader
<1>13. QED
  BY <1>1, <1>2, <1>3, <1>4, <1>5, <1>7, <1>8, <1>9, <1>10, <1>11, <1>12
  DEF LoaderNext, ExecutePending

\* The loader implements the image store for every partition, host, flash error
\* and power loss.
THEOREM LoaderImplementsStore == LoaderSpec => ImplementsImageStore
<1>1. LoaderInit => Store!Init
  BY ImageAssumption, HeaderAssumption
  DEF LoaderInit, Store!Init, StoreImage, StoreSession, StoreOffer, StoreWork, Durable, HasHeader,
      ErasedFlash, Empty, NoOperation
<1>2. LoaderTypeOK /\ Safety /\ [LoaderNext]_loaderVars => [Store!Next]_(Store!vars)
  BY StoreStep DEF StoreVars, Store!vars
<1>3. QED
  BY <1>1, <1>2, Invariance, PTL DEF LoaderSpec, ImplementsImageStore, Store!Spec
=============================================================================
