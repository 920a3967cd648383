----------------------------- MODULE BpfLoader -----------------------------
(***************************************************************************)
(* The BPF image loader of the OptiBridge target (optibridge-protocol).    *)
(*                                                                         *)
(* The I2C callback only validates a Load BPF request and parks it in      *)
(* `pending`; the main loop later takes the operation and drives flash     *)
(* with interrupts masked, so an operation is one step here.  A flash      *)
(* driver that reports an error, and a power loss in the middle of an      *)
(* operation, may leave flash anywhere between the old and the new         *)
(* content: the Torn* operators enumerate what is found afterwards.        *)
(***************************************************************************)
EXTENDS BpfImage

CONSTANTS
  MaxFragment,   \* units one Data request carries at most
  DeclaredCrcs   \* CRCs a host declares in Begin

ASSUME LoaderAssumption ==
  /\ MaxFragment \in Nat
  /\ DeclaredCrcs \subseteq Seq(Units)

VARIABLES
  flash,         \* the reserved partition
  state,         \* LoaderState, with the payload of the variant it is in
  pending,       \* Option<LoadOperation>
  bytecodeLen,   \* shape of the image being received or committed
  mapCount,
  imageLen,
  nextOffset,    \* image units received so far
  expectedCrc,   \* declared by the last Begin
  crc,           \* of the units received so far
  layouts        \* map_layouts and committed_map_count

loaderVars == <<flash, state, pending, bytecodeLen, mapCount, imageLen,
                nextOffset, expectedCrc, crc, layouts>>

-----------------------------------------------------------------------------
(* Types.                                                                  *)

Failures == {"BAD_STATE", "BAD_CRC", "FLASH_ERROR"}

Empty         == [tag |-> "Empty", crc |-> <<>>, status |-> "OK"]
Receiving     == [tag |-> "Receiving", crc |-> <<>>, status |-> "OK"]
Committed(c)  == [tag |-> "Committed", crc |-> c, status |-> "OK"]
Running(c)    == [tag |-> "Running", crc |-> c, status |-> "OK"]
Failed(s)     == [tag |-> "Failed", crc |-> <<>>, status |-> s]

LoaderStates ==
  [tag : {"Empty", "Receiving", "Committed", "Running", "Failed"},
   crc : Seq(Units), status : Failures \cup {"OK"}]

HasImage == state.tag \in {"Committed", "Running"}

NoOperation == [op |-> "none"]
Fragments == UNION {[1 .. n -> Units] : n \in 1 .. MaxFragment}

BeginOps ==
  [op : {"begin"}, bytecodeLen : 0 .. MaxBytecode, mapCount : 0 .. MaxMaps, crc : Seq(Units)]
DataOps  == [op : {"data"}, offset : Nat, bytes : Seq(Units)]
FinalizeOp == [op |-> "finalize"]
Operations == {NoOperation, FinalizeOp} \cup BeginOps \cup DataOps

\* The Load BPF requests a host can send.  "malformed" is a known operation
\* with a payload of the wrong length, "unknown" any other first byte.
LoadRequests ==
  [op : {"begin"}, bytecodeLen : 0 .. MaxBytecode + 1,
   mapCount : 0 .. MaxMaps + 1, crc : DeclaredCrcs]
  \cup [op : {"data"}, offset : 0 .. FlashCells, bytes : Fragments]
  \cup {FinalizeOp, [op |-> "malformed"], [op |-> "unknown"]}

\* The lengths are those of an image the partition has room for; a status is
\* kept for a failure and for nothing else.
LoaderTypeOK ==
  /\ flash \in Flashes
  /\ state \in LoaderStates
  /\ state.tag = "Failed" <=> state.status # "OK"
  /\ pending \in Operations
  /\ bytecodeLen \in 0 .. MaxBytecode
  /\ mapCount \in 0 .. MaxMaps
  /\ imageLen \in 0 .. FlashCells
  /\ nextOffset \in 0 .. imageLen
  /\ expectedCrc \in Seq(Units)
  /\ crc \in Seq(Units)

-----------------------------------------------------------------------------
(* Queries: the status each request is answered with.                      *)

\* accepts_load, one operator per operation it parses.
BeginVerdict(req) ==
  IF ShapeOK(req.bytecodeLen, req.mapCount) THEN "OK" ELSE "BAD_LENGTH"

\* Mutated form: data already received may be sent again.
DataVerdictRepeats(req) ==
  IF state.tag # "Receiving" \/ req.offset > nextOffset THEN "BAD_STATE"
  ELSE IF req.offset + Len(req.bytes) > imageLen THEN "BAD_LENGTH"
  ELSE "OK"

DataVerdict(req) ==
  IF state.tag # "Receiving" \/ req.offset # nextOffset THEN "BAD_STATE"
  ELSE IF req.offset + Len(req.bytes) > imageLen THEN "BAD_LENGTH"
  ELSE "OK"

\* Mutated forms: one of the two conditions is dropped.
FinalizeVerdictEarly == IF state.tag # "Receiving" THEN "BAD_STATE" ELSE "OK"
FinalizeVerdictAnyState == IF nextOffset # imageLen THEN "BAD_STATE" ELSE "OK"

FinalizeVerdict ==
  IF state.tag # "Receiving" \/ nextOffset # imageLen THEN "BAD_STATE" ELSE "OK"

\* Mutated form: a running image may be replaced.
LoadVerdictRunning(req) ==
  IF pending # NoOperation THEN "BUSY"
  ELSE CASE req.op = "begin"     -> BeginVerdict(req)
         [] req.op = "data"      -> DataVerdict(req)
         [] req.op = "finalize"  -> FinalizeVerdict
         [] req.op = "malformed" -> "BAD_LENGTH"
         [] OTHER                -> "BAD_COMMAND"

LoadVerdict(req) ==
  IF pending # NoOperation THEN "BUSY"
  ELSE IF state.tag = "Running" THEN "BAD_STATE"
  ELSE CASE req.op = "begin"     -> BeginVerdict(req)
         [] req.op = "data"      -> DataVerdict(req)
         [] req.op = "finalize"  -> FinalizeVerdict
         [] req.op = "malformed" -> "BAD_LENGTH"
         [] OTHER                -> "BAD_COMMAND"

\* query
QueryVerdict ==
  IF pending # NoOperation THEN "BUSY"
  ELSE IF HasImage THEN "OK"
  ELSE IF state.tag = "Failed" THEN state.status
  ELSE "NO_PROGRAM"

\* event_execution_metadata: a timer event may run a committed or running image.
EventVerdict == QueryVerdict

\* Mutated form: a pending operation does not hold Start back.
ExecutionVerdictEager ==
  IF state.tag = "Running" THEN "BAD_STATE"
  ELSE IF state.tag = "Committed" THEN "OK"
  ELSE QueryVerdict

\* execution_metadata: Start needs an image that is not running yet.
ExecutionVerdict ==
  IF pending = NoOperation /\ state.tag = "Running" THEN "BAD_STATE"
  ELSE QueryVerdict

\* committed_metadata: what the interpreter is given.
Metadata == [bytecodeLen |-> bytecodeLen, layouts |-> layouts]

-----------------------------------------------------------------------------
(* What an interrupted or failed operation leaves in flash.                *)

\* Pages of the new image are erased one after the other, each cell of them
\* old, erased or in between.
TornErase(f, len) ==
  {g \in [header : {f.header, Erased, Garbage}, marker : {f.marker, Erased, Garbage},
          cell : [Cells -> CellValues]] :
     \A i \in Cells :
       IF i \in ErasedBy(len) THEN g.cell[i] \in {f.cell[i], Erased, Garbage}
       ELSE g.cell[i] = f.cell[i]}

AfterErase(f, len) ==
  [header |-> Erased, marker |-> Erased,
   cell |-> [i \in Cells |-> IF i \in ErasedBy(len) THEN Erased ELSE f.cell[i]]]

HeaderOf(op) ==
  [bytecodeLen |-> op.bytecodeLen, mapCount |-> op.mapCount, crc |-> op.crc]

LenOf(op) == ImageLen(op.bytecodeLen, op.mapCount)

\* Mutated form: the header goes out with the commit marker already set.
AfterBeginMarked(f, op) ==
  [AfterErase(f, LenOf(op)) EXCEPT !.header = HeaderOf(op), !.marker = "committed"]

AfterBegin(f, op) == [AfterErase(f, LenOf(op)) EXCEPT !.header = HeaderOf(op)]

TornBegin(f, op) ==
  TornErase(f, LenOf(op))
  \cup {[AfterErase(f, LenOf(op)) EXCEPT !.header = h] : h \in {Garbage, HeaderOf(op)}}

\* The cells one Data operation programs.
Programmed(op) == op.offset + 1 .. op.offset + Len(op.bytes)

AfterData(f, op) ==
  [f EXCEPT !.cell = [i \in Cells |->
     IF i \in Programmed(op) THEN op.bytes[i - op.offset] ELSE f.cell[i]]]

TornData(f, op) ==
  {g \in [header : {f.header}, marker : {f.marker}, cell : [Cells -> CellValues]] :
     \A i \in Cells :
       IF i \in Programmed(op)
       THEN g.cell[i] \in {f.cell[i], op.bytes[i - op.offset], Garbage}
       ELSE g.cell[i] = f.cell[i]}

AfterFinalize(f) == [f EXCEPT !.marker = "committed"]

TornFinalize(f) == {[f EXCEPT !.marker = m] : m \in {f.marker, Garbage, "committed"}}

\* Every content a power loss can leave, whatever the operation in progress.
Torn ==
  CASE pending.op = "begin"    -> TornBegin(flash, pending)
    [] pending.op = "data"     -> TornData(flash, pending)
    [] pending.op = "finalize" -> TornFinalize(flash)
    [] OTHER                   -> {flash}

-----------------------------------------------------------------------------
(* Requests.                                                               *)

\* accepts_load on a request it accepts; a refused one changes nothing.
AcceptLoad(req) ==
  /\ LoadVerdict(req) = "OK"
  /\ pending' = req
  /\ UNCHANGED <<flash, state, bytecodeLen, mapCount, imageLen, nextOffset,
                 expectedCrc, crc, layouts>>

\* mark_running, after the program returned zero.  Start ran it inside the
\* callback on metadata execution_metadata granted.
MarkRunning ==
  /\ state.tag = "Committed"
  /\ state' = Running(state.crc)
  /\ UNCHANGED <<flash, pending, bytecodeLen, mapCount, imageLen, nextOffset,
                 expectedCrc, crc, layouts>>

-----------------------------------------------------------------------------
(* execute_pending: the operation is taken first, then one of begin, the   *)
(* Data arm and finalize runs, each to its end or to its first error.      *)

TakeOperation(op) == pending.op = op /\ pending' = NoOperation

\* begin: layouts are dropped before anything can fail; the rest of the
\* receiving state is only set up once erase and header write succeeded.
Begin ==
  /\ TakeOperation("begin")
  /\ flash' = AfterBegin(flash, pending)
  /\ state' = Receiving
  /\ bytecodeLen' = pending.bytecodeLen
  /\ mapCount' = pending.mapCount
  /\ imageLen' = LenOf(pending)
  /\ nextOffset' = 0
  /\ expectedCrc' = pending.crc
  /\ crc' = <<>>
  /\ layouts' = NoLayouts

BeginFails ==
  /\ TakeOperation("begin")
  /\ flash' \in TornBegin(flash, pending)
  /\ state' = Failed("FLASH_ERROR")
  /\ layouts' = NoLayouts
  /\ UNCHANGED <<bytecodeLen, mapCount, imageLen, nextOffset, expectedCrc, crc>>

Data ==
  /\ TakeOperation("data")
  /\ flash' = AfterData(flash, pending)
  /\ crc' = crc \o pending.bytes
  /\ nextOffset' = nextOffset + Len(pending.bytes)
  /\ UNCHANGED <<state, bytecodeLen, mapCount, imageLen, expectedCrc, layouts>>

DataFails ==
  /\ TakeOperation("data")
  /\ flash' \in TornData(flash, pending)
  /\ state' = Failed("FLASH_ERROR")
  /\ UNCHANGED <<bytecodeLen, mapCount, imageLen, nextOffset, expectedCrc, crc, layouts>>

\* Mutated form: only the amount of data is checked.
CrcMatchesLength == nextOffset = imageLen

\* finalize checks the rolling CRC, then the descriptors as flash has them,
\* and programs the commit marker last.
CrcMatches == crc = expectedCrc
FlashLayouts == Layouts(flash.cell, bytecodeLen, mapCount)

Commit ==
  /\ TakeOperation("finalize")
  /\ CrcMatches
  /\ FlashLayouts # NoLayouts
  /\ flash' = AfterFinalize(flash)
  /\ state' = Committed(expectedCrc)
  /\ layouts' = FlashLayouts
  /\ UNCHANGED <<bytecodeLen, mapCount, imageLen, nextOffset, expectedCrc, crc>>

FinalizeFails(status) ==
  /\ TakeOperation("finalize")
  /\ state' = Failed(status)
  /\ UNCHANGED <<bytecodeLen, mapCount, imageLen, nextOffset, expectedCrc, crc, layouts>>

FinalizeBadCrc ==
  /\ ~CrcMatches
  /\ FinalizeFails("BAD_CRC")
  /\ UNCHANGED flash

\* A descriptor is refused, or cannot be read back.
FinalizeBadMaps ==
  /\ CrcMatches
  /\ FlashLayouts = NoLayouts \/ mapCount > 0
  /\ FinalizeFails("BAD_STATE")
  /\ UNCHANGED flash

FinalizeFlashError ==
  /\ CrcMatches
  /\ FlashLayouts # NoLayouts
  /\ FinalizeFails("FLASH_ERROR")
  /\ flash' \in TornFinalize(flash)

ExecutePending ==
  \/ Begin \/ BeginFails
  \/ Data \/ DataFails
  \/ Commit \/ FinalizeBadCrc \/ FinalizeBadMaps \/ FinalizeFlashError

-----------------------------------------------------------------------------
(* Boot.  RAM is lost; validate_committed rebuilds the state from flash f. *)

FreshRam ==
  /\ pending' = NoOperation
  /\ imageLen' = 0
  /\ nextOffset' = 0
  /\ expectedCrc' = <<>>
  /\ crc' = <<>>

NoImageAtBoot(s) ==
  /\ state' = s
  /\ bytecodeLen' = 0
  /\ mapCount' = 0
  /\ layouts' = NoLayouts

BootCommitted(f) ==
  /\ Durable(f)
  /\ state' = Committed(f.header.crc)
  /\ bytecodeLen' = f.header.bytecodeLen
  /\ mapCount' = f.header.mapCount
  /\ layouts' = Layouts(f.cell, f.header.bytecodeLen, f.header.mapCount)

\* No valid image, or a descriptor that cannot be read back.
BootEmpty(f) ==
  /\ Durable(f) => f.header.mapCount > 0
  /\ NoImageAtBoot(Empty)

\* The header or an image chunk cannot be read.
BootUnreadable == NoImageAtBoot(Failed("FLASH_ERROR"))

Boot(f) ==
  /\ flash' = f
  /\ FreshRam
  /\ BootCommitted(f) \/ BootEmpty(f) \/ BootUnreadable

\* The reset command, or a power loss while no operation is touching flash.
Reset == Boot(flash)

\* A power loss in the middle of execute_pending.
PowerCut == pending # NoOperation /\ \E f \in Torn : Boot(f)

-----------------------------------------------------------------------------
LoaderInit ==
  /\ flash = ErasedFlash
  /\ state = Empty
  /\ pending = NoOperation
  /\ bytecodeLen = 0
  /\ mapCount = 0
  /\ imageLen = 0
  /\ nextOffset = 0
  /\ expectedCrc = <<>>
  /\ crc = <<>>
  /\ layouts = NoLayouts

\* Start as the loader sees it: granted metadata, a program that returned zero.
StartImage == ExecutionVerdict = "OK" /\ MarkRunning

LoaderNext ==
  \/ \E req \in LoadRequests : AcceptLoad(req)
  \/ ExecutePending
  \/ StartImage
  \/ Reset
  \/ PowerCut

LoaderSpec == LoaderInit /\ [][LoaderNext]_loaderVars

-----------------------------------------------------------------------------
(* Properties.                                                             *)

\* The header a completed transfer of the image described in RAM leaves.
DeclaredHeader(c) == [bytecodeLen |-> bytecodeLen, mapCount |-> mapCount, crc |-> c]

\* An image is reported committed, or runs, only while flash holds all of it:
\* validated header, committed marker, the content whose CRC is reported, and
\* the map layouts in RAM are those of its descriptors.  Whatever the order of
\* requests, flash errors, resets and power losses (execute_pending, finalize,
\* validate_committed, mark_running).
CommittedIsDurable ==
  HasImage =>
    /\ Durable(flash)
    /\ flash.header = DeclaredHeader(state.crc)
    /\ layouts = Layouts(flash.cell, bytecodeLen, mapCount)

\* Map layouts are exposed for a committed or running image and for no other
\* state: map reads and writes and the interpreter use them (clear_map_layouts).
LayoutsOnlyForImage == layouts # NoLayouts => HasImage

\* An accepted operation still fits the state it was validated against when
\* the main loop gets to it: data continues the transfer where it stopped and
\* stays inside the declared image, finalize finds all of it received
\* (accepts_load, execute_pending).
PendingFits ==
  /\ pending.op = "begin" => ShapeOK(pending.bytecodeLen, pending.mapCount)
  /\ pending.op = "data" =>
       /\ state.tag = "Receiving"
       /\ pending.offset = nextOffset
       /\ nextOffset + Len(pending.bytes) <= imageLen
  /\ pending.op = "finalize" => state.tag = "Receiving" /\ nextOffset = imageLen

\* While an image is being received, flash holds the uncommitted header, then
\* exactly the received prefix, then erased cells up to the declared end: the
\* rolling CRC in RAM speaks for what flash really holds (begin, Data arm).
ReceivedPrefixInFlash ==
  state.tag = "Receiving" =>
    /\ flash.header = DeclaredHeader(expectedCrc)
    /\ flash.marker = Erased
    /\ ShapeOK(bytecodeLen, mapCount)
    /\ imageLen = ImageLen(bytecodeLen, mapCount)
    /\ nextOffset = Len(crc)
    /\ \A i \in 1 .. imageLen :
         flash.cell[i] = IF i <= nextOffset THEN crc[i] ELSE Erased

\* No operation is parked while an image runs: Start is refused while one is
\* pending and loads are refused while one runs, so the main loop never
\* erases the program the callback just started (accepts_load,
\* execution_metadata).
RunningIsIdle == state.tag = "Running" => pending = NoOperation

\* Nothing rewrites or erases the partition under a running image; only a
\* reboot ends the running state.
RunningImageStays ==
  [][state.tag = "Running" =>
       flash' = flash /\ (state' = state \/ Reset)]_loaderVars

\* NOR flash discipline: a step programs a unit, or the commit marker, only
\* where flash is erased; a new image replaces an old one by erasing it first
\* (REQ-OPT-BPF-004).
NoRewrite ==
  [][/\ \A i \in Cells :
          flash'.cell[i] \in Units /\ flash'.cell[i] # flash.cell[i] =>
            flash.cell[i] = Erased
     /\ flash'.marker = "committed" /\ flash.marker # "committed" =>
            flash.marker = Erased]_loaderVars

\* A failure is kept until the next Begin or a reboot: no data, finalize or
\* Start gets out of it (REQ-OPT-BPF-005).
FailureRetained ==
  [][state.tag = "Failed" /\ state' # state =>
       pending.op = "begin" \/ Reset \/ PowerCut]_loaderVars

\* The loader implements the image store: the durable image changes only by a
\* requested replacement or the installation of the image the host declared,
\* and a reboot at any moment leaves the old image, the new one whole or none.
StoreImage == IF Durable(flash) THEN flash.header ELSE Erased
StoreSession ==
  CASE state.tag = "Empty"     -> "none"
    [] state.tag = "Receiving" -> "loading"
    [] state.tag = "Committed" -> "ready"
    [] state.tag = "Running"   -> "running"
    [] OTHER                   -> "failed"
StoreOffer == IF state.tag = "Receiving" THEN DeclaredHeader(expectedCrc) ELSE Erased
StoreWork ==
  CASE pending.op = "begin"    -> "replace"
    [] pending.op = "finalize" -> "install"
    [] OTHER                   -> "idle"

Store == INSTANCE ImageStore WITH
  Images <- Headers, NoImage <- Erased,
  image <- StoreImage, session <- StoreSession, offer <- StoreOffer, work <- StoreWork

ImplementsImageStore == Store!Spec
=============================================================================
