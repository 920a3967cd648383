------------------------------ MODULE BpfImage ------------------------------
(***************************************************************************)
(* The reserved flash partition of the OptiBridge target and the pure      *)
(* rules that decide whether it holds a BPF image.                         *)
(*                                                                         *)
(* Flash is counted in units: a unit is the smallest piece of an image the *)
(* properties tell apart.  One instruction is a unit and one map           *)
(* descriptor is a unit; the header takes the place of unit 0, so image    *)
(* unit i sits at flash position i.  Read as a map descriptor, a unit u    *)
(* declares u bytes of backing (value_size * max_entries); 0 stands for    *)
(* every descriptor the code refuses on its own fields (type, key size, a  *)
(* zero size, a product that overflows u32).                               *)
(*                                                                         *)
(* CRC-32 is taken to be collision free: the CRC of a content is the       *)
(* content itself, a sequence of units.                                    *)
(***************************************************************************)
EXTENDS Integers, Sequences

CONSTANTS
  Units,         \* what an image unit can hold
  MaxBytecode,   \* BPF_MAX_BYTECODE, in units
  MaxMaps,       \* BPF_MAX_MAPS
  MaxMapBytes,   \* BPF_MAX_MAP_BYTES
  FlashCells,    \* BPF_FLASH_SIZE less the header, in units
  PageCells,     \* units in one 4096-byte page
  Erased,        \* an erased unit, header or marker
  Garbage,       \* a unit, header or marker left half programmed or half erased
  NoLayouts      \* no map layout is committed

ASSUME ImageAssumption ==
  /\ Units \subseteq Nat
  /\ MaxBytecode \in Nat
  /\ MaxMaps \in Nat
  /\ MaxMapBytes \in Nat
  /\ FlashCells \in Nat
  /\ PageCells \in Nat \ {0}
  /\ Erased \notin Units
  /\ Garbage \notin Units
  /\ Erased # Garbage
  /\ "committed" \notin {Erased, Garbage}

Cells == 1 .. FlashCells
CellValues == Units \cup {Erased, Garbage}

Headers == [bytecodeLen : Nat, mapCount : Nat, crc : Seq(Units)]
Flashes ==
  [header : Headers \cup {Erased, Garbage},
   marker : {Erased, Garbage, "committed"},
   cell   : [Cells -> CellValues]]

\* A header is never mistaken for erased or torn flash.
ASSUME HeaderAssumption == Erased \notin Headers /\ Garbage \notin Headers

ErasedFlash ==
  [header |-> Erased, marker |-> Erased, cell |-> [i \in Cells |-> Erased]]

-----------------------------------------------------------------------------
(* Shape and content of an image.                                          *)

ImageLen(bytecodeLen, mapCount) == bytecodeLen + mapCount

\* Mutated form: the bytecode bound is off by one.
ShapeOKLoose(bytecodeLen, mapCount) ==
  /\ bytecodeLen # 0
  /\ bytecodeLen <= MaxBytecode + 1
  /\ mapCount <= MaxMaps
  /\ ImageLen(bytecodeLen, mapCount) <= FlashCells

\* The bounds accepts_load and validate_committed put on a declared shape.
ShapeOK(bytecodeLen, mapCount) ==
  /\ bytecodeLen # 0
  /\ bytecodeLen <= MaxBytecode
  /\ mapCount <= MaxMaps
  /\ ImageLen(bytecodeLen, mapCount) <= FlashCells

\* Mutated form: the header's room is forgotten.
PagesOfImageOnly(imageLen) == (imageLen + PageCells - 1) \div PageCells

\* The cells of the pages begin erases: those that hold the header and the
\* image, (1 + imageLen).div_ceil(PageCells) pages from the first one on.
PagesOf(imageLen) == (1 + imageLen + PageCells - 1) \div PageCells
ErasedBy(imageLen) == {i \in Cells : i \div PageCells < PagesOf(imageLen)}

\* What the CRC of the first n image units is computed from.
ContentOf(cell, n) == [i \in 1 .. n |-> cell[i]]

\* map_layouts: descriptors are laid out one after the other in the backing
\* store, in map-index order.  The whole table is refused when one descriptor
\* is, or when the total outgrows the store.
DeclaredBytes(unit) == IF unit \in Units THEN unit ELSE 0

\* Where each map starts; there is one such placement or none.
Placements(sizes) ==
  {start \in [1 .. Len(sizes) -> 0 .. MaxMapBytes] :
     \A k \in 1 .. Len(sizes) :
       /\ sizes[k] # 0
       /\ start[k] = IF k = 1 THEN 0 ELSE start[k - 1] + sizes[k - 1]
       /\ start[k] + sizes[k] <= MaxMapBytes}

LayoutsOf(sizes) ==
  IF Placements(sizes) = {} THEN NoLayouts
  ELSE LET start == CHOOSE placement \in Placements(sizes) : TRUE
       IN  [k \in 1 .. Len(sizes) |-> [offset |-> start[k], len |-> sizes[k]]]

Layouts(cell, bytecodeLen, mapCount) ==
  LayoutsOf([k \in 1 .. mapCount |-> DeclaredBytes(cell[bytecodeLen + k])])

-----------------------------------------------------------------------------
(* The image a flash holds.                                                *)

HasHeader(flash) ==
  /\ flash.header \in Headers
  /\ flash.marker = "committed"
  /\ ShapeOK(flash.header.bytecodeLen, flash.header.mapCount)

\* The header is accepted, the CRC of the content is the one it records, and
\* its descriptors lay out: what boot validation requires of a committed image.
Durable(flash) ==
  /\ HasHeader(flash)
  /\ LET h == flash.header
     IN  /\ ContentOf(flash.cell, ImageLen(h.bytecodeLen, h.mapCount)) = h.crc
         /\ Layouts(flash.cell, h.bytecodeLen, h.mapCount) # NoLayouts
=============================================================================
