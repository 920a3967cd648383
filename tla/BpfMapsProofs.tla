--------------------------- MODULE BpfMapsProofs ---------------------------
(* Proofs about the map store of BpfMaps, for every image, store size, program
   and host.  The firmware below it only takes steps of OptiBridge, so what
   OptiBridgeProofs shows of the claim and of the committed image holds here. *)
EXTENDS BpfMaps, OptiBridgeProofs, WellFoundedInduction

allVars == <<vars, mapVars>>

-----------------------------------------------------------------------------
(* Layouts.                                                                *)

\* What the layouts of an image that is there look like: each map is a
\* nonempty range of the store.
LayoutsFit ==
  HasImage =>
    /\ Len(layouts) \in Nat
    /\ \A k \in 1 .. Len(layouts) :
         /\ layouts[k].offset \in Nat
         /\ layouts[k].len \in Units
         /\ layouts[k].len # 0
         /\ layouts[k].offset + layouts[k].len <= MaxMapBytes

\* A placement that exists gives every map a range of the store.
LEMMA LayoutsOfFit ==
  ASSUME NEW n \in Nat, NEW sizes \in [1 .. n -> Units \cup {0}],
         LayoutsOf(sizes) # NoLayouts
  PROVE  LET l == LayoutsOf(sizes)
         IN  /\ Len(l) = n
             /\ \A k \in 1 .. n :
                  /\ l[k].offset \in Nat
                  /\ l[k].len \in Units
                  /\ l[k].len # 0
                  /\ l[k].offset + l[k].len <= MaxMapBytes
<1> DEFINE start == CHOOSE placement \in Placements(sizes) : TRUE
<1>1. Len(sizes) = n
  OBVIOUS
<1>2. Placements(sizes) # {}
  BY DEF LayoutsOf
<1>3. start \in Placements(sizes)
  BY <1>2
<1>4. LayoutsOf(sizes) = [k \in 1 .. n |-> [offset |-> start[k], len |-> sizes[k]]]
  BY <1>1, <1>2 DEF LayoutsOf
<1>5. \A k \in 1 .. n :
        start[k] \in 0 .. MaxMapBytes /\ sizes[k] # 0 /\ start[k] + sizes[k] <= MaxMapBytes
  BY <1>1, <1>3 DEF Placements
<1> HIDE DEF start
<1>6. QED
  BY <1>4, <1>5, ImageAssumption

LEMMA ReportedLayoutsFit ==
  ASSUME LoaderInvariant
  PROVE  LayoutsFit
<1> SUFFICES ASSUME HasImage
             PROVE  /\ Len(layouts) \in Nat
                    /\ \A k \in 1 .. Len(layouts) :
                         /\ layouts[k].offset \in Nat
                         /\ layouts[k].len \in Units
                         /\ layouts[k].len # 0
                         /\ layouts[k].offset + layouts[k].len <= MaxMapBytes
  BY DEF LayoutsFit
<1> DEFINE sizes == [k \in 1 .. mapCount |-> DeclaredBytes(flash.cell[bytecodeLen + k])]
<1>1. layouts = LayoutsOf(sizes) /\ layouts # NoLayouts
  <2>1. /\ Durable(flash)
        /\ flash.header = DeclaredHeader(state.crc)
        /\ layouts = Layouts(flash.cell, bytecodeLen, mapCount)
    BY DEF LoaderInvariant, Safety, CommittedIsDurable
  <2>2. flash.header.bytecodeLen = bytecodeLen /\ flash.header.mapCount = mapCount
    BY <2>1 DEF DeclaredHeader
  <2>3. Layouts(flash.cell, bytecodeLen, mapCount) # NoLayouts
    BY <2>1, <2>2 DEF Durable
  <2>4. QED
    BY <2>1, <2>3 DEF Layouts
<1>2. mapCount \in Nat
  BY ImageAssumption DEF LoaderInvariant, LoaderTypeOK
<1>3. sizes \in [1 .. mapCount -> Units \cup {0}]
  BY DEF DeclaredBytes
<1> HIDE DEF sizes
<1>4. QED
  BY <1>1, <1>2, <1>3, LayoutsOfFit

\* A set of naturals that is not empty has a least element.
LEMMA SmallestNat ==
  ASSUME NEW S, S \subseteq Nat, S # {}
  PROVE  \E j \in S : \A i \in S : j <= i
<1>1. PICK x \in S : \A y \in S : <<y, x>> \notin OpToRel(<, Nat)
  BY NatLessThanWellFounded, WFMin
<1>2. \A y \in S : ~(y < x)
  BY <1>1 DEF OpToRel
<1>3. x \in Nat /\ \A y \in S : y \in Nat
  BY <1>1
<1>4. \A y \in S : x <= y
  BY <1>2, <1>3
<1>5. QED
  BY <1>1, <1>4

\* The value of an entry the helpers accept lies inside its map.
LEMMA ValueInsideMap ==
  ASSUME NEW offset \in Nat, NEW len \in Nat, NEW size \in Nat, NEW entry \in Nat,
         ValueInMap(len, size, entry)
  PROVE  offset + entry * size .. offset + entry * size + size - 1
           \subseteq offset .. offset + len - 1
<1> DEFINE product == entry * size
<1>1. product \in Nat
  OBVIOUS
<1>2. product + size <= len
  BY DEF ValueInMap
<1> HIDE DEF product
<1>3. offset + product .. offset + product + size - 1 \subseteq offset .. offset + len - 1
  BY <1>1, <1>2
<1>4. QED
  BY <1>3 DEF product

-----------------------------------------------------------------------------
(* Who has the store.                                                      *)

\* The maps a running program was given are those of the image that is there.
LEMMA ExecutingMaps ==
  ASSUME Control, Executing
  PROVE  HasImage /\ Maps = layouts /\ bpfActive
BY DEF Control, MetadataIsCurrent, ExclusiveExecution, Executing, Claimed, Metadata, Maps

\* The host gets at a map only while no program runs, and at bytes of that map
\* only.
LEMMA AccessInsideMap ==
  ASSUME LoaderInvariant, Control, NEW req \in Requests,
         req.command \in MapCommands, Answer(req) = "OK"
  PROVE  /\ HasImage
         /\ ~Executing
         /\ req.id + 1 \in 1 .. Len(layouts)
         /\ Touched(req) \subseteq MapBytes(layouts[req.id + 1])
         /\ Touched(req) \subseteq Addresses
<1>1. req.id \in Nat /\ req.offset \in Nat /\ req.count \in Nat
  BY ImageAssumption, MapAccessAssumption
  DEF Requests, MapCommands, MapIds, MapOffsets
<1>2. ~bpfActive /\ DispatchAnswer(req) = "OK"
  BY DEF Answer, MapCommands
<1>3. MapAnswer(req) = "OK"
  BY <1>2 DEF DispatchAnswer, MapCommands
<1>4. /\ HasImage
      /\ ~(req.id >= Len(layouts))
      /\ RangeInMap(layouts[req.id + 1], req.offset, req.count)
  BY <1>3 DEF MapAnswer, MapVerdict
<1>5. LayoutsFit
  BY ReportedLayoutsFit
<1>6. req.id + 1 \in 1 .. Len(layouts)
  BY <1>1, <1>4, <1>5 DEF LayoutsFit
<1> DEFINE offset == layouts[req.id + 1].offset
           len    == layouts[req.id + 1].len
<1>7. offset \in Nat /\ len \in Nat /\ offset + len <= MaxMapBytes
      /\ req.offset + req.count <= len
  BY <1>4, <1>5, <1>6, ImageAssumption DEF LayoutsFit, RangeInMap
<1>8. /\ Touched(req) = offset + req.offset .. offset + req.offset + req.count - 1
      /\ MapBytes(layouts[req.id + 1]) = offset .. offset + len - 1
  BY DEF Touched, AccessBytes, MapBytes, Bytes
<1> HIDE DEF offset, len
<1>9. /\ Touched(req) \subseteq MapBytes(layouts[req.id + 1])
      /\ Touched(req) \subseteq Addresses
  <2>1. MaxMapBytes \in Nat
    BY ImageAssumption
  <2>2. ASSUME NEW i \in Touched(req)
        PROVE  i \in offset .. offset + len - 1 /\ i \in 0 .. MaxMapBytes - 1
    BY <1>1, <1>7, <1>8, <2>1, <2>2
  <2>3. QED
    BY <1>8, <2>2 DEF Addresses
<1>10. ~Executing
  BY <1>2, ExecutingMaps
<1>11. QED
  BY <1>4, <1>6, <1>9, <1>10

\* An entry a helper accepts is a value inside a map of the image.
LEMMA EntryInsideMap ==
  ASSUME LoaderInvariant, Control, Executing,
         NEW pointer \in Addresses, NEW entry \in Addresses,
         EntryOK(MapAt(Maps, pointer), entry)
  PROVE  LET k == MapAt(Maps, pointer)
         IN  /\ k \in 1 .. Len(layouts)
             /\ Value(k, entry) \subseteq MapBytes(layouts[k])
             /\ MapBytes(layouts[k]) \subseteq Addresses
<1> DEFINE k == MapAt(Maps, pointer)
           found == {j \in 1 .. Len(Maps) : Maps[j].offset = pointer}
<1>1. HasImage /\ Maps = layouts /\ LayoutsFit
  BY ExecutingMaps, ReportedLayoutsFit
<1>2. k # 0 /\ ValueInMap(Maps[k].len, ValueSize(k), entry)
  BY DEF EntryOK
<1>3. k \in 1 .. Len(layouts)
  <2>1. found # {} /\ k = CHOOSE j \in found : \A i \in found : j <= i
    BY <1>2 DEF MapAt
  <2>2. found \subseteq 1 .. Len(layouts) /\ Len(layouts) \in Nat
    BY <1>1 DEF LayoutsFit
  <2>3. \E j \in found : \A i \in found : j <= i
    <3>1. found \subseteq Nat
      BY <2>2
    <3>2. QED
      BY <2>1, <3>1, SmallestNat
  <2>4. QED
    BY <2>1, <2>2, <2>3
<1> HIDE DEF k
<1>4. /\ layouts[k].offset \in Nat /\ layouts[k].len \in Units
      /\ layouts[k].offset + layouts[k].len <= MaxMapBytes
  BY <1>1, <1>3 DEF LayoutsFit
<1>5. ValueSize(k) \in Nat /\ layouts[k].len \in Nat /\ entry \in Nat
  <2>1. ValueSize(k) = ValueSizeOf[layouts[k].len]
    BY <1>1 DEF ValueSize
  <2>2. entry \in Nat
    BY ImageAssumption DEF Addresses
  <2>3. layouts[k].len \in Nat
    BY <1>4, ImageAssumption
  <2>4. QED
    BY <1>4, <2>1, <2>2, <2>3, MapsAssumption
<1>6. Value(k, entry) \subseteq MapBytes(layouts[k])
  BY <1>1, <1>2, <1>4, <1>5, ValueInsideMap DEF Value, ValueBytes, MapBytes, Bytes
<1>7. MapBytes(layouts[k]) \subseteq Addresses
  BY <1>4, <1>5, ImageAssumption DEF MapBytes, Bytes, Addresses
<1>8. QED
  BY <1>3, <1>6, <1>7 DEF k

-----------------------------------------------------------------------------
(* The invariant of the store.                                             *)

MapsInv ==
  /\ MapsTypeOK
  /\ CopyStaysInMap
  /\ UnwrittenIsZero
  /\ DOMAIN copying \subseteq Addresses \cap written
  /\ \A a \in DOMAIN copying : copying[a] \in ByteValues

\* Every step of the store is a step of the firmware.
LEMMA FirmwareStep ==
  ASSUME [MapsNext]_allVars
  PROVE  [Next]_vars
<1>1. CASE UNCHANGED allVars
  BY <1>1 DEF allVars
<1>2. CASE \E req \in Requests : ReadMap(req) \/ WriteMap(req)
  BY <1>2 DEF ReadMap, WriteMap, AcceptedAs, Next, Callback
<1>3. CASE OtherPacket
  BY <1>3 DEF OtherPacket, Next, Callback
<1>4. CASE Helper
  BY <1>4 DEF Helper, LookUp, Update, CopyByte, StoreByte
<1>5. CASE TimerHelper \/ ProgramEnds
  BY <1>5 DEF TimerHelper, ProgramEnds, Next
<1>6. CASE Startup \/ OtherStep
  BY <1>6 DEF Startup, OtherStep, Next, MainLoop
<1>7. QED
  BY <1>1, <1>2, <1>3, <1>4, <1>5, <1>6 DEF MapsNext

\* A step that leaves the store alone leaves the invariant true, when a program
\* that runs keeps running on the maps it has.
LEMMA StoreLeftAlone ==
  ASSUME MapsInv, UNCHANGED storeVars, page' = Nothing \/ page' = page,
         Executing => Executing' /\ Maps' = Maps /\ layouts' = layouts
  PROVE  MapsInv'
<1>1. UNCHANGED <<backing, copying, reach, written>>
  BY DEF storeVars
<1>2. DOMAIN page' \subseteq Addresses
  BY DEF MapsInv, MapsTypeOK, Nothing
<1>3. reach # {} \/ copying # Nothing => Executing
  BY DEF MapsInv, MapsTypeOK
<1>4. MapsTypeOK'
  BY <1>1, <1>2, <1>3 DEF MapsInv, MapsTypeOK
<1>5. CopyStaysInMap'
  BY <1>1, <1>3 DEF MapsInv, CopyStaysInMap
<1>6. QED
  BY <1>1, <1>4, <1>5 DEF MapsInv, UnwrittenIsZero

\* Outside helpers and the end of an invocation a running program stays where
\* it is.
LEMMA ProgramUndisturbed ==
  ASSUME LoaderInvariant, Control, Executing, TimerHelper \/ OtherPacket \/ OtherStep
  PROVE  Executing' /\ Maps' = Maps /\ layouts' = layouts /\ HasImage' = HasImage
<1>1. bpfActive
  BY ExecutingMaps
<1>2. CASE TimerHelper
  BY <1>2
  DEF TimerHelper, ScheduleTimer, CancelTimer, Executing, Maps, loaderVars, bpfVars, HasImage
<1>3. CASE OtherPacket
  <2>1. ASSUME NEW req \in Requests, Respond(req)
        PROVE  UNCHANGED <<isr, pc, activeHelpers, layouts, state>>
    BY <2>1 DEF Respond, AcceptLoad, bpfVars, mainVars, loaderVars
  <2>2. ASSUME NEW req \in Requests, StartProgram(req)
        PROVE  FALSE
    BY <1>1, <2>2, AnswerKinds DEF StartProgram, LoaderInvariant
  <2>3. CASE BadPacket \/ \E req \in Requests : AcceptReset(req)
    BY <2>3 DEF BadPacket, AcceptReset, Executing, Maps, loaderVars, bpfVars, mainVars, HasImage
  <2>4. QED
    BY <1>3, <2>1, <2>2, <2>3 DEF OtherPacket, Executing, Maps, HasImage
<1>4. CASE OtherStep
  <2>1. CASE DeadlinePasses
    BY <2>1 DEF DeadlinePasses, Executing, Maps, loaderVars, bpfVars, mainVars, HasImage
  <2>2. CASE LoopStep \/ BusIdle \/ BusBusy
    BY <2>2
    DEF LoopStep, LoopTop, CheckPending, Execute, Poll, Take, Claim, CheckGeneration,
        GetMetadata, EnterProgram, Release, Sleep, BusIdle, BusBusy, Goto, MainRuns, Executing
  <2>3. QED
    BY <1>4, <2>1, <2>2 DEF OtherStep
<1>5. QED
  BY <1>2, <1>3, <1>4

\* What the helpers of a running program do.
LEMMA HelperKeepsStore ==
  ASSUME LoaderInvariant, Control, MapsInv, Helper
  PROVE  MapsInv'
<1>1. Executing /\ UNCHANGED vars /\ page' = Nothing
  BY DEF Helper, LookUp, Update, CopyByte, StoreByte
<1>2. /\ Executing' /\ Maps' = Maps /\ layouts' = layouts
      /\ HasImage /\ Maps = layouts
  BY <1>1, ExecutingMaps DEF vars, loaderVars, bpfVars, mainVars, Executing, Maps
<1>3. DOMAIN page' = {}
  BY <1>1 DEF Nothing
<1>4. ASSUME NEW pointer \in Addresses, NEW entry \in Addresses,
             LookUp(MapAt(Maps, pointer), entry)
      PROVE  MapsInv'
  <2> DEFINE k == MapAt(Maps, pointer)
  <2>1. /\ copying = Nothing /\ EntryOK(k, entry) /\ reach' = reach \cup {k}
        /\ UNCHANGED <<backing, copying, written>>
    BY <1>4 DEF LookUp
  <2>2. k \in 1 .. Len(layouts)
    BY <1>1, <2>1, EntryInsideMap
  <2> HIDE DEF k
  <2>3. QED
    BY <1>2, <1>3, <2>1, <2>2 DEF MapsInv, MapsTypeOK, CopyStaysInMap, UnwrittenIsZero
<1>5. ASSUME NEW pointer \in Addresses, NEW entry \in Addresses,
             Update(MapAt(Maps, pointer), entry)
      PROVE  MapsInv'
  <2> DEFINE k == MapAt(Maps, pointer)
  <2>1. /\ copying = Nothing /\ EntryOK(k, entry)
        /\ copying' \in [Value(k, entry) -> ByteValues]
        /\ written' = written \cup Value(k, entry)
        /\ UNCHANGED <<backing, reach>>
    BY <1>5 DEF Update
  <2>2. /\ k \in 1 .. Len(layouts)
        /\ Value(k, entry) \subseteq MapBytes(layouts[k])
        /\ MapBytes(layouts[k]) \subseteq Addresses
    BY <1>1, <2>1, EntryInsideMap
  <2> HIDE DEF k
  <2>3. CopyStaysInMap'
    BY <1>2, <2>1, <2>2 DEF CopyStaysInMap
  <2>4. QED
    BY <1>2, <1>3, <2>1, <2>2, <2>3 DEF MapsInv, MapsTypeOK, UnwrittenIsZero
<1>6. CASE CopyByte
  <2>1. PICK a \in DOMAIN copying :
          /\ backing' = [backing EXCEPT ![a] = copying[a]]
          /\ copying' = [b \in DOMAIN copying \ {a} |-> copying[b]]
    BY <1>6 DEF CopyByte
  <2>2. UNCHANGED <<reach, written>>
    BY <1>6 DEF CopyByte
  <2>3. a \in Addresses \cap written /\ copying[a] \in ByteValues
    BY DEF MapsInv
  <2>4. copying # Nothing
    BY DEF Nothing
  <2>5. CopyStaysInMap'
    BY <1>2, <2>1, <2>4 DEF MapsInv, CopyStaysInMap
  <2>6. backing' \in [Addresses -> ByteValues]
        /\ \A b \in Addresses \ written : backing'[b] = backing[b]
    BY <2>1, <2>3 DEF MapsInv, MapsTypeOK
  <2>7. QED
    BY <1>2, <1>3, <2>1, <2>2, <2>3, <2>5, <2>6 DEF MapsInv, MapsTypeOK, UnwrittenIsZero
<1>7. CASE StoreByte
  <2>1. PICK k \in reach : \E a \in MapBytes(Maps[k]), byte \in ByteValues :
          backing' = [backing EXCEPT ![a] = byte] /\ written' = written \cup {a}
    BY <1>7 DEF StoreByte
  <2>2. copying = Nothing /\ UNCHANGED <<copying, reach>>
    BY <1>7 DEF StoreByte
  <2>3. PICK a \in MapBytes(Maps[k]), byte \in ByteValues :
          backing' = [backing EXCEPT ![a] = byte] /\ written' = written \cup {a}
    BY <2>1
  <2>4. backing' \in [Addresses -> ByteValues]
        /\ \A b \in Addresses \ written' : backing'[b] = backing[b]
    BY <2>3 DEF MapsInv, MapsTypeOK
  <2>5. QED
    BY <1>2, <1>3, <2>2, <2>3, <2>4
    DEF MapsInv, MapsTypeOK, CopyStaysInMap, UnwrittenIsZero
<1>8. QED
  BY <1>4, <1>5, <1>6, <1>7 DEF Helper

\* The invariant holds through every step.
LEMMA MapsStep ==
  ASSUME LoaderInvariant, Control, MapsInv, [MapsNext]_allVars
  PROVE  MapsInv'
<1>1. CASE UNCHANGED allVars
  BY <1>1, StoreLeftAlone
  DEF allVars, vars, mapVars, loaderVars, bpfVars, mainVars, Executing, Maps
<1>2. CASE OtherPacket \/ TimerHelper \/ OtherStep
  <2>1. UNCHANGED storeVars /\ page' = Nothing
    BY <1>2 DEF OtherPacket, TimerHelper, OtherStep
  <2>2. QED
    BY <1>2, <2>1, ProgramUndisturbed, StoreLeftAlone
<1>3. ASSUME NEW req \in Requests, ReadMap(req) \/ WriteMap(req)
      PROVE  MapsInv'
  <2>1. /\ req.command \in MapCommands /\ Answer(req) = "OK"
        /\ UNCHANGED <<isr, pc, copying, reach>>
    BY <1>3 DEF ReadMap, WriteMap, AcceptedAs, Respond, MapCommands, mainVars, storeVars
  <2>2. ~Executing /\ Touched(req) \subseteq Addresses
    BY <2>1, AccessInsideMap
  <2>3. ~Executing'
    BY <2>1, <2>2 DEF Executing
  <2>4. copying = Nothing /\ reach = {}
    BY <2>2 DEF MapsInv, MapsTypeOK
  <2>5. DOMAIN page' \subseteq Addresses
    BY <1>3, <2>2 DEF ReadMap, WriteMap, Nothing
  <2>6. /\ backing' \in [Addresses -> ByteValues]
        /\ \A a \in Addresses \ written' : backing'[a] = 0
    <3>1. CASE ReadMap(req)
      BY <3>1 DEF ReadMap, storeVars, MapsInv, MapsTypeOK, UnwrittenIsZero
    <3>2. CASE WriteMap(req)
      <4>1. PICK bytes \in [Touched(req) -> ByteValues] :
              backing' = Overwritten(backing, bytes)
        BY <3>2 DEF WriteMap
      <4>2. written' = written \cup Touched(req)
        BY <3>2 DEF WriteMap
      <4>3. QED
        BY <4>1, <4>2 DEF Overwritten, MapsInv, MapsTypeOK, UnwrittenIsZero
    <3>3. QED
      BY <1>3, <3>1, <3>2
  <2>7. DOMAIN copying' = {}
    BY <2>1, <2>4 DEF Nothing
  <2>8. QED
    BY <2>1, <2>3, <2>4, <2>5, <2>6, <2>7
    DEF MapsInv, MapsTypeOK, CopyStaysInMap, UnwrittenIsZero
<1>4. CASE Helper
  BY <1>4, HelperKeepsStore
<1>5. CASE ProgramEnds
  <2>1. /\ copying = Nothing /\ copying' = Nothing /\ reach' = {} /\ page' = Nothing
        /\ UNCHANGED <<backing, written>>
    BY <1>5 DEF ProgramEnds
  <2>2. QED
    BY <2>1 DEF Nothing, MapsInv, MapsTypeOK, CopyStaysInMap, UnwrittenIsZero
<1>6. CASE Startup
  <2>1. /\ copying' = Nothing /\ reach' = {} /\ page' = Nothing /\ written' = {}
        /\ backing' = [a \in Addresses |-> 0]
    BY <1>6 DEF Startup
  <2>2. QED
    BY <2>1, MapsAssumption DEF Nothing, MapsInv, MapsTypeOK, CopyStaysInMap, UnwrittenIsZero
<1>7. QED
  BY <1>1, <1>2, <1>3, <1>4, <1>5, <1>6 DEF MapsNext

\* The firmware with maps is the firmware: what is proved of OptiBridge holds
\* under every program that uses maps (MAP_BACKING_STORE, the helpers).
THEOREM MapsRunTheFirmware == MapsSpec => Spec
<1>1. [MapsNext]_allVars => [Next]_vars
  BY FirmwareStep
<1>2. QED
  BY <1>1, PTL DEF MapsSpec, Spec, allVars

\* So it keeps the image store's promise too, and what it runs is what flash
\* holds (execute_loaded_bpf).
THEOREM MapsKeepImages == MapsSpec => ImplementsImageStore /\ []ExecutingImageIntact
BY MapsRunTheFirmware, FirmwareImplementsStore, ExecutingImageIsIntact, PTL

\* The invariant of the store holds throughout (bpf_map_update_elem, read_map,
\* write_map).
THEOREM MapsInvariance == MapsSpec => []MapsInv
<1>1. MapsInit => MapsInv
  BY MapsAssumption
  DEF MapsInit, MapsInv, MapsTypeOK, CopyStaysInMap, UnwrittenIsZero, Nothing
<1>2. LoaderInvariant /\ Control /\ MapsInv /\ [MapsNext]_allVars => MapsInv'
  BY MapsStep
<1>3. QED
  BY <1>1, <1>2, MapsRunTheFirmware, FirmwareInvariance, PTL DEF MapsSpec, allVars

\* Pointers and copies are those of a program that runs, and inside its maps.
THEOREM MapsTypeCorrect == MapsSpec => []MapsTypeOK
<1>1. MapsInv => MapsTypeOK
  BY DEF MapsInv
<1>2. QED
  BY <1>1, MapsInvariance, PTL

\* A copy never leaves the map it is made to (bpf_map_update_elem, value_range).
THEOREM CopiesStayInTheirMap == MapsSpec => []CopyStaysInMap
<1>1. MapsInv => CopyStaysInMap
  BY DEF MapsInv
<1>2. QED
  BY <1>1, MapsInvariance, PTL

\* A byte nobody wrote since boot is zero (main, REQ-OPT-BPF-016).
THEOREM UnwrittenBytesAreZero == MapsSpec => []UnwrittenIsZero
<1>1. MapsInv => UnwrittenIsZero
  BY DEF MapsInv
<1>2. QED
  BY <1>1, MapsInvariance, PTL

-----------------------------------------------------------------------------
(* The refinement of MapStore.                                             *)

Content == Overwritten(backing, copying)
Regions == IF HasImage THEN {MapBytes(layouts[k]) : k \in 1 .. Len(layouts)} ELSE {}

\* Maps are in the store.
LEMMA RegionsInStore == LoaderInvariant => Regions \subseteq SUBSET Addresses
<1> SUFFICES ASSUME LoaderInvariant
             PROVE  Regions \subseteq SUBSET Addresses
  OBVIOUS
<1>1. LayoutsFit /\ MaxMapBytes \in Nat /\ Units \subseteq Nat
  BY ReportedLayoutsFit, ImageAssumption
<1>2. ASSUME HasImage, NEW k \in 1 .. Len(layouts)
      PROVE  MapBytes(layouts[k]) \subseteq Addresses
  <2>1. layouts[k].offset \in Nat /\ layouts[k].len \in Nat
        /\ layouts[k].offset + layouts[k].len <= MaxMapBytes
    BY <1>1, <1>2 DEF LayoutsFit
  <2>2. QED
    BY <1>1, <2>1 DEF MapBytes, Bytes, Addresses
<1>3. QED
  BY <1>2 DEF Regions

\* Between two invocations a step of the firmware that is neither an access nor
\* a reboot may enter or leave a program or change the image, never both.
LEMMA OtherSteps ==
  ASSUME LoaderInvariant, LoaderInvariant', Control, Control',
         OtherPacket \/ TimerHelper \/ OtherStep
  PROVE  \/ Executing' = Executing /\ Regions' = Regions
         \/ Executing' # Executing /\ Regions' = Regions
         \/ ~Executing /\ ~Executing'
<1>1. CASE Executing
  <2>1. (Executing = TRUE) /\ (Executing' = TRUE)
        /\ layouts' = layouts /\ (HasImage' = HasImage)
    BY <1>1, ProgramUndisturbed
  <2>2. Regions' = Regions
    BY <2>1 DEF Regions
  <2>3. QED
    BY <2>1, <2>2
<1>2. ASSUME ~Executing, Executing'
      PROVE  Regions' = Regions
  <2>1. CASE TimerHelper
    BY <1>2, <2>1 DEF TimerHelper, ScheduleTimer, CancelTimer
  <2>2. CASE OtherPacket
    <3>1. ASSUME NEW req \in Requests, StartProgram(req)
          PROVE  UNCHANGED loaderVars
      BY <3>1 DEF StartProgram
    <3>2. ASSUME BadPacket \/ (\E req \in Requests : Respond(req) \/ AcceptReset(req))
          PROVE  FALSE
      BY <1>2, <3>2 DEF BadPacket, Respond, AcceptReset, Executing, mainVars
    <3>3. QED
      BY <2>2, <3>1, <3>2 DEF OtherPacket, loaderVars, Regions, HasImage
  <2>3. CASE OtherStep
    <3>1. UNCHANGED loaderVars
      BY <1>2, <2>3
      DEF OtherStep, LoopStep, LoopTop, CheckPending, Execute, Poll, Take, Claim,
          CheckGeneration, GetMetadata, EnterProgram, Release, Sleep, BusIdle, BusBusy,
          DeadlinePasses, Goto, MainRuns, Executing, mainVars
    <3>2. QED
      BY <3>1 DEF loaderVars, Regions, HasImage
  <2>4. QED
    BY <2>1, <2>2, <2>3
<1>3. QED
  BY <1>1, <1>2

\* Each step of the store is one of MapStore, or leaves what it shows alone.
LEMMA MapStoreStep ==
  ASSUME LoaderInvariant, LoaderInvariant', Control, Control', MapsInv, MapsInv',
         Regions' \subseteq SUBSET Addresses, [MapsNext]_allVars
  PROVE  [HostView!StoreNext]_<<Content, written, Regions, Executing, page>>
<1> USE DEF HostView!StoreNext
<1>0. /\ Executing \in BOOLEAN /\ Executing' \in BOOLEAN
      /\ Regions' \subseteq SUBSET Addresses
  BY DEF Executing
<1>1. CASE UNCHANGED allVars
  BY <1>1
  DEF allVars, vars, mapVars, storeVars, loaderVars, bpfVars, mainVars, Content, Overwritten,
      Regions, HasImage, Executing
<1>2. CASE OtherPacket \/ TimerHelper \/ OtherStep
  <2>1. Content' = Content /\ written' = written /\ page' = Nothing
    BY <1>2 DEF OtherPacket, TimerHelper, OtherStep, storeVars, Content, Overwritten
  <2>2. CASE Executing' = Executing /\ Regions' = Regions
    BY <2>1, <2>2 DEF HostView!Other, Content, Regions
  <2>3. CASE Executing' # Executing /\ Regions' = Regions
    BY <1>0, <2>1, <2>3 DEF HostView!EnterOrLeave, Content, Regions
  <2>4. CASE ~Executing /\ ~Executing'
    BY <1>0, <2>1, <2>4 DEF HostView!ChangeImage, Content, Regions
  <2>5. QED
    BY <1>2, <2>2, <2>3, <2>4, OtherSteps
<1>3. ASSUME NEW req \in Requests, ReadMap(req) \/ WriteMap(req)
      PROVE  HostView!HostRead \/ HostView!HostWrite
  <2>1. /\ req.command \in MapCommands /\ Answer(req) = "OK"
        /\ UNCHANGED <<isr, pc, loaderVars>>
    BY <1>3 DEF ReadMap, WriteMap, AcceptedAs, Respond, MapCommands, mainVars
  <2>2. /\ HasImage /\ ~Executing
        /\ Touched(req) \subseteq MapBytes(layouts[req.id + 1])
        /\ Touched(req) \subseteq Addresses
        /\ MapBytes(layouts[req.id + 1]) \in Regions
    BY <2>1, AccessInsideMap DEF Regions
  <2>3. ~Executing' /\ Regions' = Regions
    BY <2>1, <2>2 DEF Executing, loaderVars, Regions, HasImage
  <2>4. copying = Nothing
    BY <2>2 DEF MapsInv, MapsTypeOK
  <2>5. DOMAIN copying = {} /\ \A a \in Addresses : Content[a] = backing[a]
    BY <2>4 DEF Nothing, Content, Overwritten
  <2>6. CASE ReadMap(req)
    <3>1. page' = [a \in Touched(req) |-> Content[a]]
      BY <2>2, <2>5, <2>6 DEF ReadMap
    <3>2. Content' = Content /\ written' = written
      BY <2>6 DEF ReadMap, storeVars, Content, Overwritten
    <3>3. HostView!HostRead
      BY <1>0, <2>2, <2>3, <3>1, <3>2 DEF HostView!HostRead, Content, Regions
    <3>4. QED
      BY <3>3
  <2>7. CASE WriteMap(req)
    <3>1. PICK bytes \in [Touched(req) -> ByteValues] :
            backing' = Overwritten(backing, bytes)
      BY <2>7 DEF WriteMap
    <3>2. copying' = copying /\ page' = Nothing /\ written' = written \cup Touched(req)
      BY <2>7 DEF WriteMap
    <3>3. Content' = backing'
      BY <2>5, <3>1, <3>2 DEF Content, Overwritten
    <3>4. /\ Content' \in [Addresses -> ByteValues]
          /\ \A a \in Addresses \ Touched(req) : Content'[a] = Content[a]
      BY <2>5, <3>1, <3>3 DEF Overwritten, MapsInv, MapsTypeOK
    <3>5. HostView!ChangeOneMap
      BY <2>2, <3>2, <3>4 DEF HostView!ChangeOneMap, Content, Regions
    <3>6. HostView!HostWrite
      BY <1>0, <2>2, <2>3, <3>2, <3>5 DEF HostView!HostWrite, Regions
    <3>7. QED
      BY <3>6
  <2>8. QED
    BY <1>3, <2>6, <2>7
<1>8. CASE Startup
  <2>1. /\ backing' = [a \in Addresses |-> 0] /\ copying' = Nothing
        /\ written' = {} /\ page' = Nothing
    BY <1>8 DEF Startup
  <2>2. Executing' = FALSE
    BY <1>8 DEF Startup, HonourReset, PowerLoss, Reboot, Executing
  <2>3. Content' = [a \in Addresses |-> 0]
    BY <2>1 DEF Content, Overwritten, Nothing
  <2>4. QED
    BY <1>0, <2>1, <2>2, <2>3 DEF HostView!Restart, HostView!Cleared, Content, Regions
<1>4. CASE Helper
  <2>1. /\ Executing /\ UNCHANGED vars /\ page' = Nothing
    BY <1>4 DEF Helper, LookUp, Update, CopyByte, StoreByte
  <2>2. Executing' = Executing /\ Regions' = Regions
    BY <2>1 DEF vars, loaderVars, mainVars, Executing, Regions, HasImage
  <2>3. /\ HasImage /\ Maps = layouts
        /\ \A k \in 1 .. Len(layouts) : MapBytes(layouts[k]) \in Regions
    BY <2>1, ExecutingMaps DEF Regions
  <2>4. Content' \in [Addresses -> ByteValues]
    <3>1. /\ backing' \in [Addresses -> ByteValues]
          /\ \A a \in DOMAIN copying' : copying'[a] \in ByteValues
      BY DEF MapsInv, MapsTypeOK
    <3>2. QED
      BY <3>1 DEF Content, Overwritten
  <2>5. CASE \E pointer \in Addresses, entry \in Addresses :
               LookUp(MapAt(Maps, pointer), entry)
    <3>1. Content' = Content /\ written' = written
      BY <2>5 DEF LookUp, Content, Overwritten
    <3>2. QED
      BY <2>1, <2>2, <3>1 DEF HostView!Other, Content, Regions
  <2>6. ASSUME NEW pointer \in Addresses, NEW entry \in Addresses,
               Update(MapAt(Maps, pointer), entry)
        PROVE  HostView!ProgramWrite
    <3> DEFINE k == MapAt(Maps, pointer)
    <3>1. /\ copying = Nothing /\ EntryOK(k, entry) /\ backing' = backing
          /\ copying' \in [Value(k, entry) -> ByteValues]
          /\ written' = written \cup Value(k, entry)
      BY <2>6 DEF Update
    <3>2. k \in 1 .. Len(layouts) /\ Value(k, entry) \subseteq MapBytes(layouts[k])
      BY <2>1, <3>1, EntryInsideMap
    <3> HIDE DEF k
    <3>3. \A a \in Addresses \ Value(k, entry) : Content'[a] = Content[a]
      BY <3>1 DEF Content, Overwritten, Nothing
    <3>4. HostView!ChangeOneMap
      BY <2>3, <2>4, <3>1, <3>2, <3>3 DEF HostView!ChangeOneMap, Content, Regions
    <3>5. QED
      BY <2>1, <2>2, <3>4 DEF HostView!ProgramWrite, Regions
  <2>7. CASE CopyByte
    <3>1. PICK a \in DOMAIN copying :
            /\ backing' = [backing EXCEPT ![a] = copying[a]]
            /\ copying' = [b \in DOMAIN copying \ {a} |-> copying[b]]
      BY <2>7 DEF CopyByte
    <3>2. backing \in [Addresses -> ByteValues]
      BY DEF MapsInv, MapsTypeOK
    <3>3. \A b \in Addresses : Content'[b] = Content[b]
      BY <3>1, <3>2 DEF Content, Overwritten
    <3>4. Content' = Content
      BY <3>3 DEF Content, Overwritten
    <3>5. written' = written
      BY <2>7 DEF CopyByte
    <3>6. QED
      BY <2>1, <2>2, <3>4, <3>5 DEF HostView!Other, Content, Regions
  <2>8. CASE StoreByte
    <3>1. PICK k \in reach : \E a \in MapBytes(Maps[k]), byte \in ByteValues :
            backing' = [backing EXCEPT ![a] = byte] /\ written' = written \cup {a}
      BY <2>8 DEF StoreByte
    <3>2. PICK a \in MapBytes(Maps[k]), byte \in ByteValues :
            backing' = [backing EXCEPT ![a] = byte] /\ written' = written \cup {a}
      BY <3>1
    <3>3. k \in 1 .. Len(layouts)
      BY <2>1, <2>3 DEF MapsInv, MapsTypeOK
    <3>4. copying = Nothing /\ copying' = copying /\ backing \in [Addresses -> ByteValues]
      BY <2>8 DEF StoreByte, MapsInv, MapsTypeOK
    <3>5. \A b \in Addresses \ {a} : Content'[b] = Content[b]
      BY <3>2, <3>4 DEF Content, Overwritten, Nothing
    <3>6. {a} \in SUBSET MapBytes(layouts[k])
      BY <2>3, <3>2
    <3>7. HostView!ChangeOneMap
      BY <2>3, <2>4, <3>2, <3>3, <3>5, <3>6 DEF HostView!ChangeOneMap, Content, Regions
    <3>8. QED
      BY <2>1, <2>2, <3>7 DEF HostView!ProgramWrite, Regions
  <2>9. QED
    BY <1>4, <2>5, <2>6, <2>7, <2>8 DEF Helper
<1>5. CASE ProgramEnds
  <2>1. Content' = Content /\ written' = written /\ page' = Nothing
    BY <1>5 DEF ProgramEnds, Content, Overwritten
  <2>2. Executing' # Executing
    <3>1. CASE \E zero \in BOOLEAN : StartReturns(zero)
      BY <3>1
      DEF StartReturns, Executing, mainVars, Control, ExclusiveExecution, Claimed
    <3>2. CASE ProgramReturns
      BY <3>2 DEF ProgramReturns, Goto, MainRuns, Executing
    <3>3. QED
      BY <1>5, <3>1, <3>2 DEF ProgramEnds
  <2>3. Regions' = Regions
    <3>1. layouts' = layouts /\ HasImage' = HasImage
      BY <1>5
      DEF ProgramEnds, ProgramReturns, StartReturns, MarkRunning, HasImage, loaderVars, Running
    <3>2. QED
      BY <3>1 DEF Regions
  <2>4. QED
    BY <1>0, <2>1, <2>2, <2>3 DEF HostView!EnterOrLeave, Content, Regions
<1>6. QED
  BY <1>1, <1>2, <1>3, <1>4, <1>5, <1>8 DEF MapsNext

\* The firmware keeps the promises of MapStore: to the host an invocation is
\* one transaction, an access changes or shows one map, and nothing else
\* changes a byte but a reboot (on_i2c_packet, bpf_map_update_elem, main).
THEOREM FirmwareImplementsMapStore == MapsSpec => ImplementsMapStore
<1>1. Init /\ MapsInit => HostView!StoreInit
  BY DEF Init, RuntimeInit, MapsInit, HostView!StoreInit, HostView!Cleared, Overwritten,
         Nothing, Executing
<1>2. /\ LoaderInvariant /\ LoaderInvariant' /\ Control /\ Control' /\ MapsInv /\ MapsInv'
      /\ (Regions \subseteq SUBSET Addresses)'
      /\ [MapsNext]_allVars
      => [HostView!StoreNext]_<<Content, written, Regions, Executing, page>>
  BY MapStoreStep
<1>3. QED
  BY <1>1, <1>2, RegionsInStore, MapsRunTheFirmware, FirmwareInvariance, MapsInvariance, PTL
  DEF MapsSpec, allVars, ImplementsMapStore, HostView!Spec, HostView!storeVars, Content,
      Regions
=============================================================================
