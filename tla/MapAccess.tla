----------------------------- MODULE MapAccess -----------------------------
(***************************************************************************)
(* Who may touch which bytes of the map backing store: the paged reads and *)
(* writes of the host (BpfLoader::read_map, write_map) and the array       *)
(* helpers of programs (map_helpers.rs, bpf_map_layout).  Layouts are      *)
(* records with an offset into the store and a length; maps are numbered   *)
(* from 0, layouts from 1.  A pointer into the store is counted from its   *)
(* start.                                                                  *)
(***************************************************************************)
EXTENDS Integers, Sequences

CONSTANTS
  MaxReadBytes,   \* MAX_PAYLOAD
  MaxWriteBytes,  \* MAX_MAP_WRITE_BYTES
  U16Max,         \* u16::MAX
  U32Max          \* u32::MAX, and usize::MAX on the target

ASSUME MapAccessAssumption ==
  /\ MaxReadBytes \in Nat
  /\ MaxWriteBytes \in Nat
  /\ U16Max \in Nat
  /\ U32Max \in Nat
  /\ U16Max <= U32Max

\* Half-open byte range, as the set of its addresses in the store.
Bytes(start, n) == start .. start + n - 1

\* The bytes of one map.
MapBytes(layout) == Bytes(layout.offset, layout.len)

\* Mutated form: the end of the range wraps.
RangeInMapWraps(layout, offset, n) == (offset + n) % (U16Max + 1) <= layout.len

\* byte_offset.checked_add(n) succeeds and ends inside the map.
RangeInMap(layout, offset, n) ==
  /\ offset + n <= U16Max
  /\ offset + n <= layout.len

\* read_map and write_map up to the copy, `limit` being what each carries.
MapVerdict(hasImage, layouts, id, offset, n, limit) ==
  IF n = 0 \/ n > limit THEN "BAD_LENGTH"
  ELSE IF ~hasImage THEN "NO_PROGRAM"
  ELSE IF id >= Len(layouts) THEN "BAD_COMMAND"
  ELSE IF ~RangeInMap(layouts[id + 1], offset, n) THEN "BAD_LENGTH"
  ELSE "OK"

\* The bytes such an access touches once it is accepted.
AccessBytes(layouts, id, offset, n) == Bytes(layouts[id + 1].offset + offset, n)

\* Mutated form: product and sum wrap.
ValueInMapWraps(len, valueSize, entry) ==
  (entry * valueSize + valueSize) % (U32Max + 1) \in 1 .. len

\* value_range: the product and the sum are checked as usize, the end against
\* the map.
ValueInMap(len, valueSize, entry) ==
  /\ entry * valueSize <= U32Max
  /\ entry * valueSize + valueSize <= U32Max
  /\ entry * valueSize + valueSize <= len

\* The bytes of the value of an entry.
ValueBytes(layout, valueSize, entry) == Bytes(layout.offset + entry * valueSize, valueSize)

\* bpf_map_layout: the first map whose backing starts where the pointer points;
\* 0 is none.
MapAt(layouts, pointer) ==
  LET found == {k \in 1 .. Len(layouts) : layouts[k].offset = pointer}
  IN  IF found = {} THEN 0 ELSE CHOOSE k \in found : \A j \in found : k <= j
=============================================================================
