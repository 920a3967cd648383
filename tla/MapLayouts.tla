----------------------------- MODULE MapLayouts -----------------------------
(***************************************************************************)
(* map_layouts, the loop that lays the maps of an image out in the backing *)
(* store, with the widths of its integers: one step per descriptor it      *)
(* reads from flash.  BpfImage takes its result in one step, as LayoutsOf; *)
(* this module shows that the loop computes that, and that host access and *)
(* helpers stay inside their map on what it computes.                      *)
(***************************************************************************)
EXTENDS BpfImage, MapAccess

CONSTANTS
  FieldValues    \* what value_size and max_entries of a descriptor can be

ASSUME MapLayoutsAssumption ==
  /\ FieldValues \subseteq 0 .. U32Max
  /\ MaxMapBytes <= U16Max

VARIABLES
  mapsWanted,    \* map_count
  descriptors,   \* read from flash so far
  total,         \* bytes laid out so far
  laid,          \* layouts written so far
  outcome        \* "scanning", or how the loop ended

layoutVars == <<mapsWanted, descriptors, total, laid, outcome>>

\* A map type or key size other than the supported one stands for all others.
Descriptors ==
  [mapType : {1, 2}, keySize : {4, 8}, valueSize : FieldValues, maxEntries : FieldValues]

\* Mutated form: the product wraps.
MapBytesOfWraps(d) == (d.valueSize * d.maxEntries) % (U32Max + 1)

\* value_size * max_entries
MapBytesOf(d) == d.valueSize * d.maxEntries

\* Mutated form: each map is compared with the store, not the total.
FitsAtEachMap(t, d) == MapBytesOf(d) <= MaxMapBytes

\* checked_mul, checked_add and the bound on the running total.
FitsAt(t, d) ==
  /\ MapBytesOf(d) <= U32Max
  /\ t + MapBytesOf(d) <= U32Max
  /\ t + MapBytesOf(d) <= MaxMapBytes

FieldsOK(d) == d.mapType = 1 /\ d.keySize = 4 /\ d.valueSize # 0 /\ d.maxEntries # 0

\* `as u16`
ToU16(n) == n % (U16Max + 1)

\* Mutated form: a map is placed where the one before it starts.
LayoutAtOverlaps(t, d) ==
  [offset |-> IF laid = <<>> THEN 0 ELSE laid[Len(laid)].offset,
   len |-> ToU16(MapBytesOf(d)), valueSize |-> d.valueSize]

LayoutAt(t, d) ==
  [offset |-> ToU16(t), len |-> ToU16(MapBytesOf(d)), valueSize |-> d.valueSize]

ReadsDescriptor(d) ==
  /\ outcome = "scanning"
  /\ Len(descriptors) < mapsWanted
  /\ descriptors' = Append(descriptors, d)

LayOut(d) ==
  /\ ReadsDescriptor(d)
  /\ FitsAt(total, d) /\ FieldsOK(d)
  /\ laid' = Append(laid, LayoutAt(total, d))
  /\ total' = total + MapBytesOf(d)
  /\ UNCHANGED <<mapsWanted, outcome>>

RefuseDescriptor(d) ==
  /\ ReadsDescriptor(d)
  /\ ~(FitsAt(total, d) /\ FieldsOK(d))
  /\ outcome' = "refused"
  /\ UNCHANGED <<mapsWanted, total, laid>>

DescriptorUnreadable ==
  /\ outcome = "scanning"
  /\ Len(descriptors) < mapsWanted
  /\ outcome' = "unreadable"
  /\ UNCHANGED <<mapsWanted, descriptors, total, laid>>

FinishLayouts ==
  /\ outcome = "scanning"
  /\ Len(descriptors) = mapsWanted
  /\ outcome' = "accepted"
  /\ UNCHANGED <<mapsWanted, descriptors, total, laid>>

LayoutsInit ==
  /\ mapsWanted \in 0 .. MaxMaps
  /\ descriptors = <<>>
  /\ total = 0
  /\ laid = <<>>
  /\ outcome = "scanning"

LayoutsNext ==
  \/ \E d \in Descriptors : LayOut(d) \/ RefuseDescriptor(d)
  \/ DescriptorUnreadable
  \/ FinishLayouts

LayoutsSpec == LayoutsInit /\ [][LayoutsNext]_layoutVars

-----------------------------------------------------------------------------
(* Properties.                                                             *)

LayoutsTypeOK ==
  /\ mapsWanted \in 0 .. MaxMaps
  /\ descriptors \in Seq(Descriptors)
  /\ total \in 0 .. MaxMapBytes
  /\ laid \in Seq([offset : 0 .. U16Max, len : 0 .. U16Max, valueSize : FieldValues])
  /\ outcome \in {"scanning", "accepted", "refused", "unreadable"}

\* No two maps share a byte, none is empty and none leaves the store, whatever
\* sizes a descriptor declares: the products and the total are checked before
\* they are cut to u16 (map_layouts).  So the pointer a program is given for a map
\* names that map and no other (bpf_map_layout compares starts only).
MapsAreApart ==
  \A j, k \in 1 .. Len(laid) :
    /\ MapBytes(laid[j]) # {}
    /\ MapBytes(laid[j]) \subseteq 0 .. MaxMapBytes - 1
    /\ j # k => MapBytes(laid[j]) \cap MapBytes(laid[k]) = {}
    /\ MapAt(laid, laid[k].offset) = k

\* A page of a map that the host is granted stays inside that map, for every
\* id, offset and length of the wire (read_map, write_map).
PagesStayInMap ==
  \A id \in 0 .. MaxMaps, offset \in 0 .. U16Max, n \in 1 .. MaxReadBytes :
    MapVerdict(outcome = "accepted", laid, id, offset, n, MaxReadBytes) = "OK" =>
      /\ id < Len(laid)
      /\ AccessBytes(laid, id, offset, n) \subseteq MapBytes(laid[id + 1])

\* The entries of an array are those below max_entries, each has a value of
\* its own, and together they are the map (value_range, REQ-OPT-BPF-014).
EntriesTileMap ==
  \A k \in 1 .. Len(laid) :
    LET size   == descriptors[k].valueSize
        inside == {e \in 0 .. U32Max : ValueInMap(laid[k].len, size, e)}
    IN  /\ inside = 0 .. descriptors[k].maxEntries - 1
        /\ UNION {ValueBytes(laid[k], size, e) : e \in inside} = MapBytes(laid[k])
        /\ \A e, f \in inside :
             e # f => ValueBytes(laid[k], size, e) \cap ValueBytes(laid[k], size, f) = {}

\* What BpfImage reads of a descriptor: the bytes it declares, 0 when it is
\* refused on its own fields.
UnitOf(d) ==
  LET declared == d.valueSize * d.maxEntries
  IN  IF FieldsOK(d) /\ declared <= U32Max THEN declared ELSE 0
UnitsRead == [k \in 1 .. Len(descriptors) |-> UnitOf(descriptors[k])]

\* The loop and the one-step definition of BpfImage agree: same tables
\* accepted, same layouts.
AgreesWithLayoutsOf ==
  /\ outcome = "accepted" =>
       LayoutsOf(UnitsRead) =
         [k \in 1 .. Len(laid) |-> [offset |-> laid[k].offset, len |-> laid[k].len]]
  /\ outcome = "refused" => LayoutsOf(UnitsRead) = NoLayouts
=============================================================================
