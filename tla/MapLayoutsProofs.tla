-------------------------- MODULE MapLayoutsProofs --------------------------
(***************************************************************************)
(* The layout loop keeps the maps of an image apart, for every store,      *)
(* every width of the integers and every table of descriptors.             *)
(***************************************************************************)
EXTENDS MapLayouts, WellFoundedInduction, SequenceTheorems, TLAPS

\* Side by side, in the order of the descriptors, none of them empty.
SideBySide ==
  /\ \A k \in 1 .. Len(laid) : laid[k].len >= 1 /\ laid[k].offset + laid[k].len <= total
  /\ \A j, k \in 1 .. Len(laid) : j < k => laid[j].offset + laid[j].len <= laid[k].offset

LayoutsInv == LayoutsTypeOK /\ SideBySide

Layout == [offset : 0 .. U16Max, len : 0 .. U16Max, valueSize : FieldValues]

\* The widths of the counters and fields are powers of two above the store.
LEMMA Widths ==
  /\ MaxMapBytes \in Nat /\ U16Max \in Nat /\ U32Max \in Nat /\ MaxMapBytes <= U16Max
  /\ MaxReadBytes \in Nat
  /\ FieldValues \subseteq Nat
<1>1. /\ MaxMapBytes \in Nat /\ U16Max \in Nat /\ U32Max \in Nat /\ MaxMapBytes <= U16Max
      /\ MaxReadBytes \in Nat
  BY ImageAssumption, MapAccessAssumption, MapLayoutsAssumption
<1>2. FieldValues \subseteq Nat
  BY <1>1, MapLayoutsAssumption
<1>3. QED
  BY <1>1, <1>2

\* What fits the store is not changed by the cut to u16.
LEMMA NothingIsCut ==
  ASSUME NEW n \in 0 .. MaxMapBytes
  PROVE  ToU16(n) = n
<1>1. n \in Nat /\ U16Max \in Nat /\ n < U16Max + 1
  BY Widths
<1>2. QED
  BY <1>1 DEF ToU16

\* An array with entries that have a size has bytes.
LEMMA ArraysHaveBytes ==
  ASSUME NEW d \in Descriptors, FieldsOK(d)
  PROVE  MapBytesOf(d) \in Nat /\ MapBytesOf(d) >= 1 /\ d.valueSize \in FieldValues
<1>1. d.valueSize \in FieldValues /\ d.maxEntries \in FieldValues
  BY DEF Descriptors
<1>2. d.valueSize \in Nat /\ d.maxEntries \in Nat /\ d.valueSize >= 1 /\ d.maxEntries >= 1
  <2>1. d.valueSize \in Nat /\ d.maxEntries \in Nat
    BY <1>1, Widths
  <2>2. d.valueSize # 0 /\ d.maxEntries # 0
    BY DEF FieldsOK
  <2>3. QED
    BY <2>1, <2>2
<1>3. \A m, n \in Nat : m >= 1 /\ n >= 1 => m * n \in Nat /\ m * n >= 1
  OBVIOUS
<1>4. QED
  BY <1>1, <1>2, <1>3 DEF MapBytesOf

\* Laying out one more map: the cuts to u16 leave its place alone.
LEMMA LaidNext ==
  ASSUME LayoutsInv, NEW d \in Descriptors, LayOut(d)
  PROVE  /\ MapBytesOf(d) \in Nat /\ MapBytesOf(d) >= 1 /\ total + MapBytesOf(d) <= MaxMapBytes
         /\ laid \in Seq(Layout) /\ Len(laid) \in Nat /\ total \in Nat
         /\ laid' \in Seq(Layout) /\ Len(laid') = Len(laid) + 1
         /\ \A k \in 1 .. Len(laid) : laid'[k] = laid[k]
         /\ laid'[Len(laid) + 1] =
              [offset |-> total, len |-> MapBytesOf(d), valueSize |-> d.valueSize]
         /\ total' = total + MapBytesOf(d) /\ total' \in 0 .. MaxMapBytes
         /\ descriptors \in Seq(Descriptors) /\ descriptors' = Append(descriptors, d)
         /\ mapsWanted' = mapsWanted /\ outcome' = outcome /\ outcome = "scanning"
<1> DEFINE size == MapBytesOf(d)
           l == LayoutAt(total, d)
           n == Len(laid)
<1>1. /\ laid \in Seq(Layout) /\ n \in Nat /\ total \in 0 .. MaxMapBytes /\ total \in Nat
      /\ descriptors \in Seq(Descriptors)
  BY Widths DEF LayoutsInv, LayoutsTypeOK, Layout
<1>2. size \in Nat /\ size >= 1 /\ d.valueSize \in FieldValues /\ total + size <= MaxMapBytes
  BY ArraysHaveBytes DEF LayOut, FitsAt
<1>3. /\ laid' = Append(laid, l) /\ total' = total + size
      /\ descriptors' = Append(descriptors, d)
      /\ mapsWanted' = mapsWanted /\ outcome' = outcome /\ outcome = "scanning"
  BY DEF LayOut, ReadsDescriptor
<1> HIDE DEF size
<1>4. total \in 0 .. MaxMapBytes /\ size \in 0 .. MaxMapBytes /\ total' \in 0 .. MaxMapBytes
  BY <1>1, <1>2, <1>3, Widths
<1>5. l = [offset |-> total, len |-> size, valueSize |-> d.valueSize]
  BY <1>4, NothingIsCut DEF LayoutAt, size
<1> HIDE DEF l
<1>6. l \in Layout
  BY <1>2, <1>4, <1>5, Widths DEF Layout
<1>7. /\ laid' \in Seq(Layout) /\ Len(laid') = n + 1 /\ laid'[n + 1] = l
      /\ \A k \in 1 .. n : laid'[k] = laid[k]
  BY <1>1, <1>3, <1>6
<1>8. QED
  BY <1>1, <1>2, <1>3, <1>4, <1>5, <1>7 DEF size

\* Laying out one more map keeps the layouts apart and inside the store.
LEMMA LayOutKeepsInv ==
  ASSUME LayoutsInv, NEW d \in Descriptors, LayOut(d)
  PROVE  LayoutsInv'
<1> DEFINE size == MapBytesOf(d)
           l == laid'[Len(laid) + 1]
           n == Len(laid)
<1>1. /\ laid \in Seq(Layout) /\ n \in Nat /\ total \in Nat
      /\ descriptors \in Seq(Descriptors)
  BY LaidNext
<1>2. size \in Nat /\ size >= 1 /\ total + size <= MaxMapBytes
  BY LaidNext
<1>3. /\ total' = total + size /\ total' \in 0 .. MaxMapBytes
      /\ descriptors' = Append(descriptors, d)
      /\ mapsWanted' = mapsWanted /\ outcome' = outcome
  BY LaidNext
<1>4. l = [offset |-> total, len |-> size, valueSize |-> d.valueSize]
  BY LaidNext
<1>6. l.offset = total /\ l.len = size
  BY <1>4
<1>7. /\ laid' \in Seq(Layout) /\ Len(laid') = n + 1 /\ laid'[n + 1] = l
      /\ \A k \in 1 .. n : laid'[k] = laid[k]
  BY LaidNext
<1> HIDE DEF size, l
<1>8. LayoutsTypeOK'
  <2>1. descriptors' \in Seq(Descriptors)
    BY <1>1, <1>3
  <2>2. QED
    BY <1>3, <1>7, <2>1 DEF LayoutsInv, LayoutsTypeOK, Layout
<1>9. ASSUME NEW k \in 1 .. n
      PROVE  /\ laid[k].len >= 1 /\ laid[k].offset + laid[k].len <= total
             /\ laid[k].offset \in Nat /\ laid[k].len \in Nat
  <2>1. laid[k] \in Layout
    BY <1>1
  <2>2. laid[k].offset \in Nat /\ laid[k].len \in Nat
    BY <2>1, Widths DEF Layout
  <2>3. QED
    BY <2>2 DEF LayoutsInv, SideBySide
<1>10. ASSUME NEW k \in 1 .. Len(laid')
       PROVE  laid'[k].len >= 1 /\ laid'[k].offset + laid'[k].len <= total'
  <2>1. CASE k = n + 1
    BY <1>2, <1>3, <1>6, <1>7, <2>1
  <2>2. CASE k \in 1 .. n
    BY <1>1, <1>2, <1>3, <1>7, <1>9, <2>2
  <2>3. QED
    BY <1>1, <1>7, <2>1, <2>2
<1>11. ASSUME NEW j \in 1 .. Len(laid'), NEW k \in 1 .. Len(laid'), j < k
       PROVE  laid'[j].offset + laid'[j].len <= laid'[k].offset
  <2>1. j \in 1 .. n
    BY <1>1, <1>7, <1>11
  <2>2. CASE k = n + 1
    BY <1>6, <1>7, <1>9, <2>1, <2>2
  <2>3. CASE k \in 1 .. n
    BY <1>7, <1>11, <2>1, <2>3 DEF LayoutsInv, SideBySide
  <2>4. QED
    BY <1>1, <1>7, <2>2, <2>3
<1>12. QED
  BY <1>8, <1>10, <1>11 DEF LayoutsInv, SideBySide

\* The empty table satisfies the invariant.
LEMMA LayoutsInvInit == LayoutsInit => LayoutsInv
BY Widths DEF LayoutsInit, LayoutsInv, LayoutsTypeOK, SideBySide

\* Every step keeps the invariant.
LEMMA LayoutsInvNext == LayoutsInv /\ [LayoutsNext]_layoutVars => LayoutsInv'
<1> SUFFICES ASSUME LayoutsInv, [LayoutsNext]_layoutVars PROVE LayoutsInv'
  OBVIOUS
<1>1. ASSUME NEW d \in Descriptors, LayOut(d) PROVE LayoutsInv'
  BY <1>1, LayOutKeepsInv
<1>2. ASSUME NEW d \in Descriptors, RefuseDescriptor(d) PROVE LayoutsInv'
  BY <1>2 DEF RefuseDescriptor, ReadsDescriptor, LayoutsInv, LayoutsTypeOK, SideBySide
<1>3. CASE DescriptorUnreadable
  BY <1>3 DEF DescriptorUnreadable, LayoutsInv, LayoutsTypeOK, SideBySide
<1>4. CASE FinishLayouts
  BY <1>4 DEF FinishLayouts, LayoutsInv, LayoutsTypeOK, SideBySide
<1>5. CASE UNCHANGED layoutVars
  BY <1>5 DEF layoutVars, LayoutsInv, LayoutsTypeOK, SideBySide
<1>6. QED
  BY <1>1, <1>2, <1>3, <1>4, <1>5 DEF LayoutsNext

\* The invariant of the layout loop.
LEMMA LayoutsInvariant == LayoutsSpec => []LayoutsInv
BY LayoutsInvInit, LayoutsInvNext, PTL DEF LayoutsSpec

\* A layout of the table is a stretch of the store.
LEMMA LayoutIsStretch ==
  ASSUME LayoutsInv, NEW k \in 1 .. Len(laid)
  PROVE  /\ laid[k].offset \in Nat /\ laid[k].len \in Nat /\ laid[k].len >= 1
         /\ laid[k].offset + laid[k].len <= MaxMapBytes
<1>1. laid[k] \in Layout
  <2>1. laid \in Seq(Layout)
    BY DEF LayoutsInv, LayoutsTypeOK, Layout
  <2>2. QED
    BY <2>1
<1>2. laid[k].offset \in Nat /\ laid[k].len \in Nat /\ MaxMapBytes \in Nat
  BY <1>1, Widths DEF Layout
<1>3. laid[k].len >= 1 /\ laid[k].offset + laid[k].len <= total /\ total \in 0 .. MaxMapBytes
  BY DEF LayoutsInv, LayoutsTypeOK, SideBySide
<1>4. QED
  BY <1>2, <1>3

\* Two layouts of a table start in different places.
LEMMA StartsDiffer ==
  ASSUME LayoutsInv, NEW j \in 1 .. Len(laid), NEW k \in 1 .. Len(laid), j # k
  PROVE  laid[j].offset + laid[j].len <= laid[k].offset
         \/ laid[k].offset + laid[k].len <= laid[j].offset
<1>1. Len(laid) \in Nat
  BY DEF LayoutsInv, LayoutsTypeOK
<1>2. j < k \/ k < j
  BY <1>1
<1>3. QED
  BY <1>2 DEF LayoutsInv, SideBySide

-----------------------------------------------------------------------------
(* What the loop lays out, descriptor by descriptor.                       *)

\* Map k is laid out for descriptor k, right behind the map before it.
EndOf(k) == IF k = 0 THEN 0 ELSE laid[k].offset + laid[k].len

Placed(k) ==
  /\ FieldsOK(descriptors[k])
  /\ laid[k].len = MapBytesOf(descriptors[k])
  /\ laid[k].offset = EndOf(k - 1)

\* The total is where the last map ends; the descriptor that has no map is the
\* one that was refused.
InOrder ==
  /\ Len(descriptors) = Len(laid) + (IF outcome = "refused" THEN 1 ELSE 0)
  /\ \A k \in 1 .. Len(laid) : Placed(k)
  /\ total = EndOf(Len(laid))
  /\ outcome = "refused" =>
       LET d == descriptors[Len(descriptors)] IN ~(FitsAt(total, d) /\ FieldsOK(d))

\* A step that leaves the layouts alone.
LEMMA PlacedStays ==
  ASSUME LayoutsInv, InOrder, laid' = laid, NEW k \in 1 .. Len(laid),
         descriptors' = descriptors \/ \E d \in Descriptors : descriptors' = Append(descriptors, d)
  PROVE  Placed(k)'
<1>1. descriptors \in Seq(Descriptors) /\ Len(laid) \in Nat /\ k \in 1 .. Len(descriptors)
  BY DEF LayoutsInv, LayoutsTypeOK, InOrder
<1>2. descriptors'[k] = descriptors[k]
  BY <1>1
<1>3. QED
  BY <1>2 DEF InOrder, Placed, EndOf

\* The next map is placed behind the others.
LEMMA LayOutInOrder ==
  ASSUME LayoutsInv, InOrder, NEW d \in Descriptors, LayOut(d)
  PROVE  InOrder'
<1> DEFINE n == Len(laid)
           l == laid'[n + 1]
<1>1. /\ n \in Nat /\ Len(laid') = n + 1 /\ \A k \in 1 .. n : laid'[k] = laid[k]
      /\ l = [offset |-> total, len |-> MapBytesOf(d), valueSize |-> d.valueSize]
      /\ total' = total + MapBytesOf(d) /\ outcome' = "scanning" /\ outcome = "scanning"
      /\ descriptors \in Seq(Descriptors) /\ descriptors' = Append(descriptors, d)
  BY LaidNext
<1>2. Len(descriptors) = n /\ total = EndOf(n)
  BY <1>1 DEF InOrder
<1>3. /\ Len(descriptors') = n + 1 /\ descriptors'[n + 1] = d
      /\ \A k \in 1 .. n : descriptors'[k] = descriptors[k]
  BY <1>1, <1>2
<1>4. l.offset = total /\ l.len = MapBytesOf(d)
  BY <1>1
<1> HIDE DEF l
<1>5. ASSUME NEW k \in 0 .. n PROVE EndOf(k)' = EndOf(k)
  BY <1>1 DEF EndOf
<1>6. ASSUME NEW k \in 1 .. n + 1 PROVE Placed(k)'
  <2>1. CASE k = n + 1
    <3>1. EndOf(k - 1)' = EndOf(n)
      BY <1>1, <1>5, <2>1
    <3>2. FieldsOK(d)
      BY DEF LayOut
    <3>3. QED
      BY <1>2, <1>3, <1>4, <2>1, <3>1, <3>2 DEF Placed, l
  <2>2. CASE k \in 1 .. n
    <3>1. EndOf(k - 1)' = EndOf(k - 1)
      BY <1>1, <1>5, <2>2
    <3>2. Placed(k)
      BY <2>2 DEF InOrder
    <3>3. QED
      BY <1>1, <1>3, <2>2, <3>1, <3>2 DEF Placed
  <2>3. QED
    BY <1>1, <2>1, <2>2
<1>7. (total = EndOf(Len(laid)))'
  BY <1>1, <1>4 DEF EndOf, l
<1>8. QED
  BY <1>1, <1>3, <1>6, <1>7 DEF InOrder

\* Every step keeps the order.
LEMMA InOrderNext == LayoutsInv /\ InOrder /\ [LayoutsNext]_layoutVars => InOrder'
<1> SUFFICES ASSUME LayoutsInv, InOrder, [LayoutsNext]_layoutVars PROVE InOrder'
  OBVIOUS
<1>1. ASSUME NEW d \in Descriptors, LayOut(d) PROVE InOrder'
  BY <1>1, LayOutInOrder
<1>2. ASSUME NEW d \in Descriptors, RefuseDescriptor(d) PROVE InOrder'
  <2>1. /\ outcome = "scanning" /\ outcome' = "refused" /\ laid' = laid /\ total' = total
        /\ descriptors' = Append(descriptors, d) /\ ~(FitsAt(total, d) /\ FieldsOK(d))
    BY <1>2 DEF RefuseDescriptor, ReadsDescriptor
  <2>2. descriptors \in Seq(Descriptors) /\ Len(laid) \in Nat /\ Len(descriptors) = Len(laid)
    BY <2>1 DEF LayoutsInv, LayoutsTypeOK, InOrder
  <2>3. Len(descriptors') = Len(laid) + 1 /\ descriptors'[Len(descriptors')] = d
    BY <2>1, <2>2
  <2>4. \A k \in 1 .. Len(laid) : Placed(k)'
    BY <2>1, PlacedStays
  <2>5. total' = EndOf(Len(laid))'
    BY <2>1 DEF InOrder, EndOf
  <2>6. QED
    BY <2>1, <2>2, <2>3, <2>4, <2>5 DEF InOrder
<1>3. CASE DescriptorUnreadable \/ FinishLayouts \/ UNCHANGED layoutVars
  <2>1. /\ UNCHANGED <<laid, total, descriptors>>
        /\ outcome' = outcome \/ (outcome = "scanning" /\ outcome' # "refused")
    BY <1>3 DEF DescriptorUnreadable, FinishLayouts, layoutVars
  <2>2. \A k \in 1 .. Len(laid) : Placed(k)'
    BY <2>1, PlacedStays
  <2>3. total' = EndOf(Len(laid))'
    BY <2>1 DEF InOrder, EndOf
  <2>4. QED
    BY <2>1, <2>2, <2>3 DEF InOrder
<1>4. QED
  BY <1>1, <1>2, <1>3 DEF LayoutsNext

\* The maps are in the order of their descriptors.
LEMMA InOrderInvariant == LayoutsSpec => []InOrder
<1>1. LayoutsInit => InOrder
  BY DEF LayoutsInit, InOrder, EndOf
<1>2. QED
  BY <1>1, InOrderNext, LayoutsInvariant, PTL DEF LayoutsSpec

-----------------------------------------------------------------------------
(* Theorems.                                                               *)

\* The loop's state is well typed: offsets and lengths are whole in u16, and
\* the total stays within the store (map_layouts).
THEOREM LayoutsTypeCorrect == LayoutsSpec => []LayoutsTypeOK
<1>1. LayoutsInv => LayoutsTypeOK
  BY DEF LayoutsInv
<1>2. QED
  BY <1>1, LayoutsInvariant, PTL

\* Stretches of which one ends before the other starts share nothing.
LEMMA StretchesApart ==
  ASSUME NEW p \in Nat, NEW m \in Nat, NEW q \in Nat, NEW n \in Nat,
         p + m <= q \/ q + n <= p
  PROVE  Bytes(p, m) \cap Bytes(q, n) = {}
<1> SUFFICES ASSUME NEW a \in p .. p + m - 1, a \in q .. q + n - 1 PROVE FALSE
  BY DEF Bytes
<1>1. a \in Int /\ a <= p + m - 1 /\ p <= a /\ a <= q + n - 1 /\ q <= a
  OBVIOUS
<1>2. QED
  BY <1>1

\* Maps are apart, none is empty or leaves the store, and a pointer to the
\* start of a map names that map (map_layouts, bpf_map_layout).
THEOREM MapsStayApart == LayoutsSpec => []MapsAreApart
<1>1. LayoutsInv => MapsAreApart
  <2> SUFFICES ASSUME LayoutsInv, NEW j \in 1 .. Len(laid), NEW k \in 1 .. Len(laid)
               PROVE  /\ MapBytes(laid[j]) # {}
                      /\ MapBytes(laid[j]) \subseteq 0 .. MaxMapBytes - 1
                      /\ j # k => MapBytes(laid[j]) \cap MapBytes(laid[k]) = {}
                      /\ MapAt(laid, laid[k].offset) = k
    BY DEF MapsAreApart
  <2>1. /\ laid[j].offset \in Nat /\ laid[j].len \in Nat /\ laid[j].len >= 1
        /\ laid[j].offset + laid[j].len <= MaxMapBytes /\ MaxMapBytes \in Nat
        /\ laid[k].offset \in Nat /\ laid[k].len \in Nat /\ laid[k].len >= 1
    BY LayoutIsStretch, Widths
  <2>2. laid[j].offset \in MapBytes(laid[j])
    BY <2>1 DEF MapBytes, Bytes
  <2>3. MapBytes(laid[j]) \subseteq 0 .. MaxMapBytes - 1
    BY <2>1 DEF MapBytes, Bytes
  <2>4. ASSUME j # k PROVE MapBytes(laid[j]) \cap MapBytes(laid[k]) = {}
    <3>1. \/ laid[j].offset + laid[j].len <= laid[k].offset
          \/ laid[k].offset + laid[k].len <= laid[j].offset
      BY <2>4, StartsDiffer
    <3>2. QED
      BY <2>1, <3>1, StretchesApart DEF MapBytes
  <2>5. MapAt(laid, laid[k].offset) = k
    <3> DEFINE found == {i \in 1 .. Len(laid) : laid[i].offset = laid[k].offset}
    <3>1. ASSUME NEW i \in found PROVE i = k
      <4>1. i \in 1 .. Len(laid) /\ laid[i].offset = laid[k].offset
        OBVIOUS
      <4>2. SUFFICES ASSUME i # k PROVE FALSE
        OBVIOUS
      <4>3. \/ laid[i].offset + laid[i].len <= laid[k].offset
            \/ laid[k].offset + laid[k].len <= laid[i].offset
        BY <4>1, <4>2, StartsDiffer
      <4>4. laid[i].len \in Nat /\ laid[i].len >= 1
        BY <4>1, LayoutIsStretch
      <4>5. QED
        BY <2>1, <4>1, <4>3, <4>4
    <3>2. found = {k}
      BY <3>1
    <3>3. (CHOOSE i \in found : \A m \in found : i <= m) = k
      BY <3>2
    <3>4. QED
      BY <3>2, <3>3 DEF MapAt
  <2>6. QED
    BY <2>2, <2>3, <2>4, <2>5
<1>2. QED
  BY <1>1, LayoutsInvariant, PTL

\* Whatever id, offset and length a host asks for, a page that is granted lies
\* in its map (read_map, write_map).
THEOREM PagesAreInMaps == LayoutsSpec => []PagesStayInMap
<1>1. LayoutsInv => PagesStayInMap
  <2> SUFFICES ASSUME LayoutsInv,
                      NEW id \in 0 .. MaxMaps, NEW offset \in 0 .. U16Max,
                      NEW n \in 1 .. MaxReadBytes,
                      MapVerdict(outcome = "accepted", laid, id, offset, n, MaxReadBytes) = "OK"
               PROVE  /\ id < Len(laid)
                      /\ AccessBytes(laid, id, offset, n) \subseteq MapBytes(laid[id + 1])
    BY DEF PagesStayInMap
  <2>1. Len(laid) \in Nat /\ id \in Nat /\ offset \in Nat /\ n \in Nat
    BY Widths, ImageAssumption DEF LayoutsInv, LayoutsTypeOK
  <2>2. ~(id >= Len(laid)) /\ RangeInMap(laid[id + 1], offset, n)
    BY DEF MapVerdict
  <2>3. id + 1 \in 1 .. Len(laid)
    BY <2>1, <2>2
  <2>4. laid[id + 1].offset \in Nat /\ laid[id + 1].len \in Nat
    BY <2>3, LayoutIsStretch
  <2>5. offset + n <= laid[id + 1].len
    BY <2>2 DEF RangeInMap
  <2>6. AccessBytes(laid, id, offset, n) \subseteq MapBytes(laid[id + 1])
    <3> DEFINE start == laid[id + 1].offset
               len == laid[id + 1].len
    <3>1. start + offset .. start + offset + n - 1 \subseteq start .. start + len - 1
      <4> HIDE DEF start, len
      <4>1. start \in Nat /\ len \in Nat /\ offset + n <= len
        BY <2>4, <2>5 DEF start, len
      <4>2. QED
        BY <2>1, <4>1
    <3>2. QED
      BY <3>1 DEF AccessBytes, MapBytes, Bytes
  <2>7. QED
    BY <2>1, <2>2, <2>6
<1>2. QED
  BY <1>1, LayoutsInvariant, PTL

-----------------------------------------------------------------------------
(* The entries of an array.                                                *)

\* An entry ends before a later one begins.
LEMMA EntryEnds ==
  ASSUME NEW e \in Nat, NEW f \in Nat, NEW v \in Nat, e < f
  PROVE  e * v + v <= f * v
OBVIOUS

\* The entries that end within an array of m values are the first m.
LEMMA EntriesInside ==
  ASSUME NEW e \in Nat, NEW m \in Nat, NEW v \in Nat, v >= 1
  PROVE  e * v + v <= v * m <=> e < m
<1>1. e * v \in Nat /\ m * v = v * m /\ m * v \in Nat
  OBVIOUS
<1>2. CASE e < m
  BY <1>1, <1>2, EntryEnds
<1>3. CASE e = m
  BY <1>1, <1>3
<1>4. CASE m < e
  <2>1. m * v + v <= e * v
    BY <1>4, EntryEnds
  <2>2. QED
    BY <1>1, <1>4, <2>1
<1>5. QED
  BY <1>2, <1>3, <1>4

\* Every byte of an array is that of an entry.
LEMMA ByteHasEntry ==
  ASSUME NEW a \in Nat, NEW m \in Nat, NEW v \in Nat, v >= 1, a < v * m
  PROVE  \E e \in 0 .. m - 1 : e * v <= a /\ a < e * v + v
<1>1. PICK e \in Nat : e * v <= a /\ a < e * v + v
  <2>1. a \div v \in Nat /\ (a \div v) * v <= a /\ a < (a \div v) * v + v
    OBVIOUS
  <2>2. QED
    BY <2>1
<1>2. e < m
  <2>1. SUFFICES ASSUME m <= e PROVE FALSE
    OBVIOUS
  <2>2. v * m = m * v /\ m * v \in Nat /\ e * v \in Nat
    OBVIOUS
  <2>3. m * v <= e * v
    <3>1. CASE m = e
      BY <2>2, <3>1
    <3>2. CASE m < e
      BY <2>2, <3>2, EntryEnds
    <3>3. QED
      BY <2>1, <3>1, <3>2
  <2>4. QED
    BY <1>1, <2>2, <2>3
<1>3. QED
  BY <1>1, <1>2

\* The values of an array with m entries of v bytes at p are apart and make up
\* the array.
LEMMA ValuesTile ==
  ASSUME NEW p \in Nat, NEW m \in Nat, NEW v \in Nat, v >= 1
  PROVE  /\ UNION {Bytes(p + e * v, v) : e \in 0 .. m - 1} = Bytes(p, v * m)
         /\ \A e, f \in 0 .. m - 1 : e # f => Bytes(p + e * v, v) \cap Bytes(p + f * v, v) = {}
<1>1. v * m \in Nat /\ \A e \in Nat : e * v \in Nat
  OBVIOUS
<1>2. ASSUME NEW e \in 0 .. m - 1, NEW a \in Bytes(p + e * v, v)
      PROVE  a \in Bytes(p, v * m)
  <2>1. e * v + v <= v * m /\ e * v \in Nat
    BY <1>1, EntriesInside
  <2> DEFINE ev == e * v
             vm == v * m
  <2>2. ev + v <= vm /\ ev \in Nat /\ vm \in Nat /\ a \in p + ev .. p + ev + v - 1
    BY <1>1, <1>2, <2>1 DEF Bytes
  <2> HIDE DEF ev, vm
  <2>3. a \in p .. p + vm - 1
    BY <2>2
  <2>4. QED
    BY <2>3 DEF Bytes, vm
<1>3. ASSUME NEW a \in Bytes(p, v * m)
      PROVE  \E e \in 0 .. m - 1 : a \in Bytes(p + e * v, v)
  <2> DEFINE vm == v * m
             b == a - p
  <2>1. a \in p .. p + vm - 1 /\ vm \in Nat
    BY <1>1 DEF Bytes
  <2> HIDE DEF vm
  <2>2. b \in Nat /\ b < vm /\ a = p + b
    BY <2>1
  <2>3. PICK e \in 0 .. m - 1 : e * v <= b /\ b < e * v + v
    BY <2>2, ByteHasEntry DEF vm
  <2> DEFINE ev == e * v
  <2>4. ev \in Nat /\ ev <= b /\ b < ev + v
    BY <1>1, <2>3
  <2> HIDE DEF ev, b
  <2>5. a \in p + ev .. p + ev + v - 1
    BY <2>2, <2>4
  <2>6. QED
    BY <2>5 DEF Bytes, ev
<1>4. ASSUME NEW e \in 0 .. m - 1, NEW f \in 0 .. m - 1, e # f
      PROVE  Bytes(p + e * v, v) \cap Bytes(p + f * v, v) = {}
  <2> DEFINE ev == e * v
             fv == f * v
  <2>1. ev \in Nat /\ fv \in Nat
    BY <1>1
  <2>2. ev + v <= fv \/ fv + v <= ev
    BY <1>4, EntryEnds
  <2> HIDE DEF ev, fv
  <2>3. p + ev \in Nat /\ p + fv \in Nat /\ (p + ev + v <= p + fv \/ p + fv + v <= p + ev)
    BY <2>1, <2>2
  <2>4. QED
    BY <2>3, StretchesApart DEF ev, fv
<1>5. QED
  BY <1>2, <1>3, <1>4

\* The entries value_range grants are those below max_entries, their values are
\* apart and together they are the map (value_range, REQ-OPT-BPF-014).
THEOREM EntriesTileTheirMap == LayoutsSpec => []EntriesTileMap
<1>1. LayoutsInv /\ InOrder => EntriesTileMap
  <2> SUFFICES ASSUME LayoutsInv, InOrder, NEW k \in 1 .. Len(laid)
               PROVE  LET size   == descriptors[k].valueSize
                          inside == {e \in 0 .. U32Max : ValueInMap(laid[k].len, size, e)}
                      IN  /\ inside = 0 .. descriptors[k].maxEntries - 1
                          /\ UNION {ValueBytes(laid[k], size, e) : e \in inside}
                               = MapBytes(laid[k])
                          /\ \A e, f \in inside :
                               e # f => ValueBytes(laid[k], size, e)
                                          \cap ValueBytes(laid[k], size, f) = {}
    BY DEF EntriesTileMap
  <2> DEFINE v == descriptors[k].valueSize
             m == descriptors[k].maxEntries
             p == laid[k].offset
             len == laid[k].len
             inside == {e \in 0 .. U32Max : ValueInMap(len, v, e)}
  <2>1. /\ descriptors[k] \in Descriptors /\ FieldsOK(descriptors[k]) /\ len = v * m
    <3>1. descriptors \in Seq(Descriptors) /\ Len(laid) \in Nat /\ k \in 1 .. Len(descriptors)
      BY DEF LayoutsInv, LayoutsTypeOK, InOrder
    <3>2. QED
      BY <3>1 DEF InOrder, Placed, MapBytesOf
  <2>2. v \in Nat /\ m \in Nat /\ v >= 1 /\ m >= 1 /\ m <= U32Max
    <3>1. v \in FieldValues /\ m \in FieldValues /\ v # 0 /\ m # 0
      BY <2>1 DEF Descriptors, FieldsOK
    <3>2. v \in 0 .. U32Max /\ m \in 0 .. U32Max /\ U32Max \in Nat
      BY <3>1, MapLayoutsAssumption, MapAccessAssumption
    <3>3. QED
      BY <3>1, <3>2
  <2>3. p \in Nat /\ len \in Nat /\ p + len <= MaxMapBytes
    BY LayoutIsStretch
  <2>4. len <= U32Max /\ U32Max \in Nat
    BY <2>3, Widths, MapAccessAssumption
  <2>5. \A e \in Nat : e * v \in Nat
    BY <2>2
  <2> HIDE DEF v, m, p, len
  <2>6. ASSUME NEW e \in 0 .. U32Max PROVE ValueInMap(len, v, e) <=> e < m
    <3>1. e * v \in Nat /\ (e * v + v <= len <=> e < m)
      BY <2>1, <2>2, <2>5, EntriesInside
    <3> DEFINE ev == e * v
    <3>2. ev \in Nat /\ (ev + v <= len <=> e < m)
      BY <3>1
    <3> HIDE DEF ev
    <3>3. (ev <= U32Max /\ ev + v <= U32Max /\ ev + v <= len) <=> e < m
      BY <2>2, <2>3, <2>4, <3>2
    <3>4. QED
      BY <3>3 DEF ValueInMap, ev
  <2>7. inside = 0 .. m - 1
    BY <2>2, <2>4, <2>6
  <2>8. /\ UNION {Bytes(p + e * v, v) : e \in 0 .. m - 1} = Bytes(p, len)
        /\ \A e, f \in 0 .. m - 1 : e # f => Bytes(p + e * v, v) \cap Bytes(p + f * v, v) = {}
    BY <2>1, <2>2, <2>3, ValuesTile
  <2> HIDE DEF inside
  <2>9. /\ UNION {Bytes(p + e * v, v) : e \in inside} = Bytes(p, len)
        /\ \A e, f \in inside : e # f => Bytes(p + e * v, v) \cap Bytes(p + f * v, v) = {}
    BY <2>7, <2>8
  <2>10. QED
    BY <2>7, <2>9 DEF ValueBytes, MapBytes, inside, p, v, m, len
<1>2. QED
  BY <1>1, LayoutsInvariant, InOrderInvariant, PTL

-----------------------------------------------------------------------------
(* The loop and the definition of BpfImage.                                *)

\* A set of numbers has a least one.
LEMMA Least ==
  ASSUME NEW T, T \subseteq Nat, T # {}
  PROVE  \E m \in T : \A n \in T : m <= n
<1>1. PICK m \in T : \A n \in T : <<n, m>> \notin OpToRel(<, Nat)
  BY NatLessThanWellFounded, WFMin, Zenon
<1>2. ASSUME NEW n \in T PROVE m <= n
  <2>1. m \in Nat /\ n \in Nat
    OBVIOUS
  <2>2. ~(n < m)
    BY <1>1, <2>1, Zenon DEF OpToRel
  <2>3. QED
    BY <2>1, <2>2
<1>3. QED
  BY <1>1, <1>2

\* What BpfImage reads of the descriptors.
LEMMA ReadUnits ==
  ASSUME LayoutsInv, InOrder
  PROVE  /\ Len(UnitsRead) = Len(descriptors) /\ Len(descriptors) \in Nat /\ Len(laid) \in Nat
         /\ Len(laid) <= Len(descriptors)
         /\ \A k \in 1 .. Len(descriptors) :
              /\ descriptors[k] \in Descriptors
              /\ UnitsRead[k] = UnitOf(descriptors[k])
         /\ \A k \in 1 .. Len(laid) :
              UnitsRead[k] = laid[k].len /\ laid[k].len \in Nat /\ laid[k].len >= 1
              /\ laid[k].offset \in Nat /\ laid[k].offset + laid[k].len <= MaxMapBytes
<1>1. /\ descriptors \in Seq(Descriptors) /\ Len(laid) \in Nat /\ Len(descriptors) \in Nat
      /\ Len(laid) <= Len(descriptors)
  BY DEF LayoutsInv, LayoutsTypeOK, InOrder
<1>2. /\ Len(UnitsRead) = Len(descriptors)
      /\ \A k \in 1 .. Len(descriptors) : UnitsRead[k] = UnitOf(descriptors[k])
  BY <1>1 DEF UnitsRead
<1>3. ASSUME NEW k \in 1 .. Len(laid) PROVE UnitsRead[k] = laid[k].len
  <2>1. /\ k \in 1 .. Len(descriptors) /\ descriptors[k] \in Descriptors
        /\ FieldsOK(descriptors[k]) /\ laid[k].len = MapBytesOf(descriptors[k])
    BY <1>1 DEF InOrder, Placed
  <2>2. laid[k].len <= U32Max
    <3>1. /\ laid[k].len \in Nat /\ laid[k].offset \in Nat
          /\ laid[k].offset + laid[k].len <= MaxMapBytes
      BY LayoutIsStretch
    <3>2. MaxMapBytes \in Nat /\ U32Max \in Nat /\ MaxMapBytes <= U32Max
      BY Widths, MapAccessAssumption
    <3>3. QED
      BY <3>1, <3>2
  <2>3. UnitOf(descriptors[k]) = MapBytesOf(descriptors[k])
    BY <2>1, <2>2 DEF UnitOf, MapBytesOf
  <2>4. QED
    BY <1>2, <2>1, <2>3
<1>4. QED
  BY <1>1, <1>2, <1>3, LayoutIsStretch

\* A placement of the descriptors read puts the maps where the loop put them.
LEMMA PlacementIsUnique ==
  ASSUME LayoutsInv, InOrder, NEW start \in Placements(UnitsRead), NEW k \in 1 .. Len(laid)
  PROVE  start[k] = laid[k].offset
<1>1. /\ Len(UnitsRead) = Len(descriptors) /\ Len(laid) \in Nat /\ Len(descriptors) \in Nat
      /\ Len(laid) <= Len(descriptors)
      /\ \A i \in 1 .. Len(laid) : UnitsRead[i] = laid[i].len
  BY ReadUnits
<1>2. ASSUME NEW i \in 1 .. Len(descriptors)
      PROVE  start[i] = IF i = 1 THEN 0 ELSE start[i - 1] + UnitsRead[i - 1]
  BY <1>1 DEF Placements
<1> DEFINE differ == {i \in 1 .. Len(laid) : start[i] # laid[i].offset}
<1>3. SUFFICES ASSUME differ # {} PROVE FALSE
  OBVIOUS
<1>4. PICK i \in differ : \A n \in differ : i <= n
  <2>1. differ \subseteq Nat
    BY <1>1
  <2> HIDE DEF differ
  <2>2. QED
    BY <1>3, <2>1, Least
<1>5. i \in 1 .. Len(laid) /\ i \in 1 .. Len(descriptors) /\ start[i] # laid[i].offset
  BY <1>1
<1>6. laid[i].offset = EndOf(i - 1)
  BY <1>5 DEF InOrder, Placed
<1>7. CASE i = 1
  BY <1>2, <1>5, <1>6, <1>7 DEF EndOf
<1>8. CASE i # 1
  <2>1. i - 1 \in 1 .. Len(laid) /\ i - 1 # 0
    BY <1>1, <1>5, <1>8
  <2>2. i - 1 \notin differ
    BY <1>4, <1>5
  <2>3. start[i - 1] = laid[i - 1].offset
    BY <2>1, <2>2
  <2>4. EndOf(i - 1) = laid[i - 1].offset + laid[i - 1].len
    BY <2>1 DEF EndOf
  <2>5. QED
    BY <1>1, <1>2, <1>5, <1>6, <1>8, <2>1, <2>3, <2>4
<1>9. QED
  BY <1>7, <1>8

\* LayoutsOf, which the loader's model takes in one step, is what the loop
\* computes, and refuses the tables the loop refuses (map_layouts).
THEOREM LoopAgreesWithLayoutsOf == LayoutsSpec => []AgreesWithLayoutsOf
<1>1. LayoutsInv /\ InOrder => AgreesWithLayoutsOf
  <2> SUFFICES ASSUME LayoutsInv, InOrder PROVE AgreesWithLayoutsOf
    OBVIOUS
  <2>1. /\ Len(UnitsRead) = Len(descriptors) /\ Len(laid) \in Nat /\ Len(descriptors) \in Nat
        /\ \A k \in 1 .. Len(descriptors) :
             descriptors[k] \in Descriptors /\ UnitsRead[k] = UnitOf(descriptors[k])
        /\ \A k \in 1 .. Len(laid) :
             /\ UnitsRead[k] = laid[k].len /\ laid[k].len \in Nat /\ laid[k].len >= 1
             /\ laid[k].offset \in Nat /\ laid[k].offset + laid[k].len <= MaxMapBytes
    BY ReadUnits
  <2>2. \A k \in 1 .. Len(laid) : laid[k].offset = EndOf(k - 1)
    BY DEF InOrder, Placed
  <2>3. MaxMapBytes \in Nat /\ U32Max \in Nat /\ MaxMapBytes <= U32Max
    BY Widths, MapAccessAssumption
  <2>4. ASSUME outcome = "accepted"
        PROVE  LayoutsOf(UnitsRead) =
                 [k \in 1 .. Len(laid) |-> [offset |-> laid[k].offset, len |-> laid[k].len]]
    <3> DEFINE ours == [k \in 1 .. Len(laid) |-> laid[k].offset]
               start == CHOOSE placement \in Placements(UnitsRead) : TRUE
    <3>1. Len(descriptors) = Len(laid)
      BY <2>1, <2>4 DEF InOrder
    <3>2. ours \in [1 .. Len(UnitsRead) -> 0 .. MaxMapBytes]
      <4>1. ASSUME NEW k \in 1 .. Len(laid) PROVE laid[k].offset \in 0 .. MaxMapBytes
        BY <2>1, <2>3
      <4>2. QED
        BY <2>1, <3>1, <4>1
    <3>3. ASSUME NEW k \in 1 .. Len(UnitsRead)
          PROVE  /\ UnitsRead[k] # 0
                 /\ ours[k] = IF k = 1 THEN 0 ELSE ours[k - 1] + UnitsRead[k - 1]
                 /\ ours[k] + UnitsRead[k] <= MaxMapBytes
      <4>1. k \in 1 .. Len(laid) /\ ours[k] = laid[k].offset
        BY <2>1, <3>1
      <4>2. ours[k] = IF k = 1 THEN 0 ELSE ours[k - 1] + UnitsRead[k - 1]
        <5>1. CASE k = 1
          BY <2>2, <4>1, <5>1 DEF EndOf
        <5>2. CASE k # 1
          <6>1. k - 1 \in 1 .. Len(laid) /\ k - 1 # 0
            BY <2>1, <4>1, <5>2
          <6>2. laid[k].offset = laid[k - 1].offset + laid[k - 1].len
            BY <2>2, <4>1, <6>1 DEF EndOf
          <6>3. QED
            BY <2>1, <4>1, <5>2, <6>1, <6>2
        <5>3. QED
          BY <5>1, <5>2
      <4>3. UnitsRead[k] # 0 /\ ours[k] + UnitsRead[k] <= MaxMapBytes
        <5>1. UnitsRead[k] = laid[k].len /\ laid[k].len >= 1 /\ laid[k].len \in Nat
              /\ laid[k].offset + laid[k].len <= MaxMapBytes
          BY <2>1, <4>1
        <5> HIDE DEF ours
        <5>2. QED
          BY <4>1, <5>1
      <4>4. QED
        BY <4>2, <4>3
    <3>4. ours \in Placements(UnitsRead)
      <4> HIDE DEF ours
      <4>1. QED
        BY <3>2, <3>3 DEF Placements
    <3>5. Placements(UnitsRead) # {} /\ start \in Placements(UnitsRead)
      BY <3>4
    <3> HIDE DEF start
    <3>6. \A k \in 1 .. Len(laid) : start[k] = laid[k].offset
      BY <3>5, PlacementIsUnique
    <3>7. LayoutsOf(UnitsRead) =
            [k \in 1 .. Len(UnitsRead) |-> [offset |-> start[k], len |-> UnitsRead[k]]]
      BY <3>5 DEF LayoutsOf, start
    <3>8. QED
      BY <2>1, <3>1, <3>6, <3>7
  <2>5. ASSUME outcome = "refused" PROVE LayoutsOf(UnitsRead) = NoLayouts
    <3> DEFINE n == Len(descriptors)
               d == descriptors[n]
    <3>1. /\ n = Len(laid) + 1 /\ total = EndOf(Len(laid)) /\ ~(FitsAt(total, d) /\ FieldsOK(d))
      BY <2>5 DEF InOrder
    <3>2. n \in 1 .. Len(descriptors) /\ d \in Descriptors /\ UnitsRead[n] = UnitOf(d)
      BY <2>1, <3>1
    <3>3. ASSUME NEW start \in Placements(UnitsRead) PROVE FALSE
      <4>1. /\ UnitsRead[n] # 0
            /\ start[n] = IF n = 1 THEN 0 ELSE start[n - 1] + UnitsRead[n - 1]
            /\ start[n] + UnitsRead[n] <= MaxMapBytes
        BY <2>1, <3>2 DEF Placements
      <4>2. start[n] = total
        <5>1. CASE n = 1
          <6>1. Len(laid) = 0
            <7>1. n = Len(laid) + 1
              BY <3>1
            <7>2. Len(laid) \in Nat
              BY <2>1
            <7> HIDE DEF n
            <7>3. QED
              BY <7>1, <7>2, <5>1
          <6>2. start[n] = 0
            BY <4>1, <5>1
          <6>3. QED
            BY <3>1, <6>1, <6>2 DEF EndOf
        <5>2. CASE n # 1
          <6>1. n - 1 \in 1 .. Len(laid) /\ n - 1 = Len(laid) /\ Len(laid) # 0
            BY <2>1, <3>1, <5>2
          <6>2. start[n - 1] = laid[n - 1].offset
            BY <6>1, PlacementIsUnique
          <6>3. QED
            BY <2>1, <3>1, <4>1, <5>2, <6>1, <6>2 DEF EndOf
        <5>3. QED
          BY <5>1, <5>2
      <4>3. FieldsOK(d) /\ MapBytesOf(d) <= U32Max /\ UnitsRead[n] = MapBytesOf(d)
        BY <3>2, <4>1 DEF UnitOf, MapBytesOf
      <4>4. total + MapBytesOf(d) <= MaxMapBytes
        BY <4>1, <4>2, <4>3
      <4>5. total + MapBytesOf(d) <= U32Max
        <5>1. total \in Nat /\ MapBytesOf(d) \in Nat
          <6>1. total \in 0 .. MaxMapBytes
            BY DEF LayoutsInv, LayoutsTypeOK
          <6> HIDE DEF d
          <6>2. MapBytesOf(d) \in Nat
            BY <3>2, <4>3, ArraysHaveBytes
          <6>3. QED
            BY <2>3, <6>1, <6>2
        <5>2. QED
          BY <2>3, <4>4, <5>1
      <4>6. QED
        BY <3>1, <4>3, <4>4, <4>5 DEF FitsAt
    <3>4. QED
      BY <3>3 DEF LayoutsOf
  <2>6. QED
    BY <2>4, <2>5 DEF AgreesWithLayoutsOf
<1>2. QED
  BY <1>1, LayoutsInvariant, InOrderInvariant, PTL
=============================================================================
