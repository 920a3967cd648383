------------------------------ MODULE BpfMaps ------------------------------
(***************************************************************************)
(* The map backing store of the target, under the firmware of OptiBridge:  *)
(* what the host's paged reads and writes, the array helpers and the       *)
(* stores of programs do to its bytes.                                     *)
(*                                                                         *)
(* A helper of a timer event's program copies its value byte by byte on    *)
(* the main loop with interrupts enabled, so the packet callback can come  *)
(* between two bytes.  The order of the bytes is that of memmove, any.     *)
(***************************************************************************)
EXTENDS OptiBridge

CONSTANTS
  ByteValues,    \* what a byte can hold
  ValueSizeOf    \* value_size of the descriptor that declares so many bytes

ASSUME MapsAssumption ==
  /\ 0 \in ByteValues
  /\ ValueSizeOf \in [Units -> Nat]
  /\ \A unit \in Units : unit # 0 => ValueSizeOf[unit] # 0

VARIABLES
  backing,       \* MAP_BACKING_STORE
  copying,       \* the bytes a helper has yet to copy, by address
  reach,         \* the maps the running program holds a value pointer into
  written,       \* history: the addresses written since boot
  page           \* the bytes a Read BPF Map was answered with in the last step

storeVars == <<backing, copying, reach, written>>
mapVars == <<storeVars, page>>

Addresses == 0 .. MaxMapBytes - 1

\* No bytes.
Nothing == [a \in {} |-> 0]

Overwritten(store, bytes) ==
  [a \in Addresses |-> IF a \in DOMAIN bytes THEN bytes[a] ELSE store[a]]

-----------------------------------------------------------------------------
(* The host.                                                               *)

Touched(req) == AccessBytes(layouts, req.id, req.offset, req.count)

AcceptedAs(command, req) ==
  /\ req.command = command
  /\ Answer(req) = "OK"
  /\ Respond(req)

ReadMap(req) ==
  /\ AcceptedAs("READ_MAP", req)
  /\ page' = [a \in Touched(req) |-> backing[a]]
  /\ UNCHANGED storeVars

WriteMap(req) ==
  /\ AcceptedAs("WRITE_MAP", req)
  /\ \E bytes \in [Touched(req) -> ByteValues] : backing' = Overwritten(backing, bytes)
  /\ written' = written \cup Touched(req)
  /\ page' = Nothing
  /\ UNCHANGED <<copying, reach>>

\* Everything else the callback does; a refused access changes no byte.
OtherPacket ==
  /\ \/ BadPacket
     \/ \E req \in Requests :
          \/ Respond(req) /\ ~(req.command \in MapCommands /\ Answer(req) = "OK")
          \/ AcceptReset(req)
          \/ StartProgram(req)
  /\ page' = Nothing
  /\ UNCHANGED storeVars

-----------------------------------------------------------------------------
(* The program.  It is not in a helper's copy while it does anything else. *)

Maps == activeHelpers.layouts
ValueSize(k) == ValueSizeOf[Maps[k].len]

\* Mutated form: the entry is not compared with the map.
EntryOKUnchecked(k, entry) == k # 0

\* The map pointer names a map and the entry is one of its own.  A bad key or
\* value pointer, a nonzero flag or a bad entry ends the helper with an error
\* and nothing done.
EntryOK(k, entry) == k # 0 /\ ValueInMap(Maps[k].len, ValueSize(k), entry)

Value(k, entry) == ValueBytes(Maps[k], ValueSize(k), entry)

\* bpf_map_lookup_elem: the interpreter lets the program store through what it
\* returns, anywhere in the map.
LookUp(k, entry) ==
  /\ copying = Nothing
  /\ EntryOK(k, entry)
  /\ reach' = reach \cup {k}
  /\ page' = Nothing
  /\ UNCHANGED <<vars, backing, copying, written>>

\* bpf_map_update_elem
Update(k, entry) ==
  /\ copying = Nothing
  /\ EntryOK(k, entry)
  /\ copying' \in [Value(k, entry) -> ByteValues]
  /\ written' = written \cup Value(k, entry)
  /\ page' = Nothing
  /\ UNCHANGED <<vars, backing, reach>>

CopyByte ==
  /\ \E a \in DOMAIN copying :
       /\ backing' = [backing EXCEPT ![a] = copying[a]]
       /\ copying' = [b \in DOMAIN copying \ {a} |-> copying[b]]
  /\ page' = Nothing
  /\ UNCHANGED <<vars, reach, written>>

\* A store of the program through a value pointer it was given.
StoreByte ==
  /\ copying = Nothing
  /\ \E k \in reach : \E a \in MapBytes(Maps[k]), byte \in ByteValues :
       /\ backing' = [backing EXCEPT ![a] = byte]
       /\ written' = written \cup {a}
  /\ page' = Nothing
  /\ UNCHANGED <<vars, copying, reach>>

Helper ==
  /\ Executing
  /\ \/ \E pointer \in Addresses, entry \in Addresses :
          LET k == MapAt(Maps, pointer) IN LookUp(k, entry) \/ Update(k, entry)
     \/ CopyByte
     \/ StoreByte

\* The timer helpers of OptiBridge.
TimerHelper ==
  /\ copying = Nothing
  /\ ScheduleTimer \/ CancelTimer
  /\ page' = Nothing
  /\ UNCHANGED storeVars

\* Mutated form: the pointers of an invocation outlive it.
ProgramEndsKeepsPointers ==
  /\ copying = Nothing
  /\ ProgramReturns \/ \E zero \in BOOLEAN : StartReturns(zero)
  /\ page' = Nothing
  /\ UNCHANGED storeVars

\* The invocation ends, and the pointers it was given with it.
ProgramEnds ==
  /\ copying = Nothing
  /\ ProgramReturns \/ \E zero \in BOOLEAN : StartReturns(zero)
  /\ reach' = {}
  /\ page' = Nothing
  /\ UNCHANGED <<backing, copying, written>>

-----------------------------------------------------------------------------
\* Mutated form: startup leaves the store as it finds it.
StartupKeepsMaps ==
  /\ HonourReset \/ PowerLoss
  /\ backing' = backing
  /\ copying' = Nothing
  /\ reach' = {}
  /\ written' = {}
  /\ page' = Nothing

\* main fills the store with zeros before it validates the image.
Startup ==
  /\ HonourReset \/ PowerLoss
  /\ backing' = [a \in Addresses |-> 0]
  /\ copying' = Nothing
  /\ reach' = {}
  /\ written' = {}
  /\ page' = Nothing

\* The main loop leaves the store alone, also when it replaces the image.
OtherStep ==
  /\ LoopStep \/ BusIdle \/ BusBusy \/ DeadlinePasses
  /\ page' = Nothing
  /\ UNCHANGED storeVars

MapsInit ==
  /\ backing = [a \in Addresses |-> 0]
  /\ copying = Nothing
  /\ reach = {}
  /\ written = {}
  /\ page = Nothing

MapsNext ==
  \/ \E req \in Requests : ReadMap(req) \/ WriteMap(req)
  \/ OtherPacket
  \/ Helper
  \/ TimerHelper
  \/ ProgramEnds
  \/ Startup
  \/ OtherStep

MapsSpec == Init /\ MapsInit /\ [][MapsNext]_<<vars, mapVars>>

-----------------------------------------------------------------------------
(* Properties.                                                             *)

\* A program holds pointers, and is in a copy, inside maps of the image it
\* runs, and only while it runs; the bytes are bytes.
MapsTypeOK ==
  /\ backing \in [Addresses -> ByteValues]
  /\ DOMAIN page \subseteq Addresses
  /\ reach # {} \/ copying # Nothing => Executing
  /\ Executing => reach \subseteq 1 .. Len(Maps)

\* A copy in progress stays inside one map of the image that is committed, and
\* that image cannot be replaced under it (bpf_map_update_elem, value_range).
CopyStaysInMap ==
  copying # Nothing =>
    /\ Maps = layouts
    /\ \E k \in 1 .. Len(layouts) : DOMAIN copying \subseteq MapBytes(layouts[k])

\* A byte is zero from boot on until an access that is entitled to it writes
\* it: no image brings contents along, and whatever an image that is replaced
\* left behind was written since this boot (main, REQ-OPT-BPF-016).
UnwrittenIsZero == \A a \in Addresses \ written : backing[a] = 0

\* The firmware keeps what MapStore promises: a program's invocation is one
\* transaction to the host, also on the main loop where the callback can come
\* between two bytes of a copy (on_i2c_packet's BUSY answer).  A value being
\* copied counts as replaced from the call on.
HostView == INSTANCE MapStore WITH
  Zero <- 0,
  content <- Overwritten(backing, copying),
  touched <- written,
  regions <- IF HasImage THEN {MapBytes(layouts[k]) : k \in 1 .. Len(layouts)} ELSE {},
  inProgram <- Executing

ImplementsMapStore == HostView!Spec
=============================================================================
