-------------------------- MODULE CodeArenaProofs --------------------------
(***************************************************************************)
(* Proofs about CodeArena: the inductive invariant IInv, and what follows  *)
(* from it for every page size, capacity, request and number of batches.   *)
(***************************************************************************)
EXTENDS CodeArena, InductionFacts, SequenceTheorems, TLAPS

-----------------------------------------------------------------------------
(* Arithmetic of pages.                                                    *)

\* Quotient and remainder, as the runtime's page arithmetic uses them.
LEMMA DivFacts ==
  ASSUME NEW P \in Nat \ {0}, NEW a \in Nat
  PROVE  /\ a \div P \in Nat
         /\ a % P \in 0..(P - 1)
         /\ a = P * (a \div P) + (a % P)
OBVIOUS

\* Multiplication by a page size is strictly monotonic.
LEMMA TimesMonotonic ==
  ASSUME NEW P \in Nat \ {0}, NEW x \in Int, NEW y \in Int, P * x < P * y
  PROVE  x < y
<1>1. CASE x >= y
  <2>1. x - y \in Nat
    BY <1>1
  <2>2. P * (x - y) >= 0
    BY <2>1
  <2>3. P * (x - y) = P * x - P * y
    OBVIOUS
  <2> QED BY <2>2, <2>3
<1> QED BY <1>1

\* A byte below a page boundary lies on an earlier page than the boundary.
LEMMA PageBelow ==
  ASSUME NEW P \in Nat \ {0}, NEW a \in Nat, NEW b \in Nat, a < b, b % P = 0
  PROVE  a \div P < b \div P
<1>1. /\ b = P * (b \div P)
      /\ a >= P * (a \div P)
      /\ a \div P \in Nat
      /\ b \div P \in Nat
  BY DivFacts
<1> QED BY <1>1, TimesMonotonic

\* The page of a byte does not decrease with its address.
LEMMA PageMonotonic ==
  ASSUME NEW P \in Nat \ {0}, NEW a \in Nat, NEW b \in Nat, a <= b
  PROVE  a \div P <= b \div P
<1>1. /\ b < P * (b \div P) + P
      /\ a >= P * (a \div P)
      /\ a \div P \in Nat
      /\ b \div P \in Nat
  BY DivFacts
<1>2. P * (a \div P) < P * ((b \div P) + 1)
  BY <1>1
<1>3. a \div P < (b \div P) + 1
  BY <1>1, <1>2, TimesMonotonic
<1> QED BY <1>1, <1>3

\* A multiple of the page size has no remainder.
LEMMA MultipleMod ==
  ASSUME NEW P \in Nat \ {0}, NEW q \in Nat
  PROVE  (P * q) % P = 0
<1> DEFINE d == (P * q) \div P
           r == (P * q) % P
<1>1. P * q \in Nat
  OBVIOUS
<1>2. P * q = P * d + r /\ r \in 0..(P - 1) /\ d \in Nat
  BY <1>1, DivFacts
<1>3. P * (q - d) = r
  BY <1>2
<1> HIDE DEF d, r
<1>4. CASE q - d >= 1
  <2>1. P * (q - d) >= P
    BY <1>2, <1>4
  <2> QED BY <2>1, <1>3, <1>2
<1>5. CASE q - d <= -1
  <2>1. P * (q - d) <= -P
    BY <1>2, <1>5
  <2> QED BY <2>1, <1>3, <1>2
<1>6. CASE q = d
  BY <1>6, <1>3, <1>2 DEF r
<1> QED BY <1>2, <1>4, <1>5, <1>6

\* Whole pages add up to whole pages.
LEMMA SumMod ==
  ASSUME NEW P \in Nat \ {0}, NEW a \in Nat, NEW b \in Nat, a % P = 0, b % P = 0
  PROVE  (a + b) % P = 0
<1>1. a + b = P * ((a \div P) + (b \div P)) /\ (a \div P) + (b \div P) \in Nat
  BY DivFacts
<1> QED BY <1>1, MultipleMod

\* Rounding up gives a whole number of units that is at least the argument and
\* less than one unit above it.
LEMMA RoundUpFacts ==
  ASSUME NEW P \in Nat \ {0}, NEW a \in Nat
  PROVE  /\ RoundUp(a, P) \in Nat
         /\ RoundUp(a, P) % P = 0
         /\ a <= RoundUp(a, P)
         /\ RoundUp(a, P) <= a + P - 1
<1> DEFINE q == (a + P - 1) \div P
           r == (a + P - 1) % P
<1>1. a + P - 1 \in Nat
  OBVIOUS
<1>2. a + P - 1 = P * q + r /\ r \in 0..(P - 1) /\ q \in Nat
  BY <1>1, DivFacts
<1>3. RoundUp(a, P) = P * q
  BY <1>2 DEF RoundUp
<1>4. (P * q) % P = 0
  BY <1>2, MultipleMod
<1> HIDE DEF q, r
<1> QED BY <1>2, <1>3, <1>4

-----------------------------------------------------------------------------
(* The layout of a request.                                                *)

\* What the loop of slot_layout has made of the sizes so far.
LayoutState == [ok : BOOLEAN, slots : Seq(Slot), length : Nat]

Placed(layout) ==
  layout.ok =>
    /\ layout.length <= SizeMax
    /\ \A i \in DOMAIN layout.slots :
         /\ layout.slots[i].offset + layout.slots[i].size <= layout.length
         /\ layout.slots[i].offset % Align = 0
         /\ \A j \in 1..(i - 1) :
              layout.slots[j].offset + layout.slots[j].size <= layout.slots[i].offset

\* One more size is placed above the others, aligned, or the request fails.
LEMMA AddSlotFacts ==
  ASSUME NEW layout \in LayoutState, Placed(layout), NEW size \in 0..SizeMax
  PROVE  /\ AddSlot(layout, size) \in LayoutState
         /\ Placed(AddSlot(layout, size))
         /\ AddSlot(layout, size).ok =>
              AddSlot(layout, size).slots # <<>> /\ AddSlot(layout, size).length >= 1
<1> DEFINE offset == RoundUp(layout.length, Align)
           slot == [offset |-> offset, size |-> size]
           refused == \/ ~layout.ok
                      \/ size = 0
                      \/ layout.length > SizeMax - (Align - 1)
                      \/ size > SizeMax - offset
           grown == Append(layout.slots, slot)
           added == [ok |-> TRUE, slots |-> grown, length |-> offset + size]
<1>1. CASE refused
  <2>1. AddSlot(layout, size) = Failure
    BY <1>1 DEF AddSlot
  <2>2. Failure \in LayoutState
    BY EmptySeq DEF Failure, LayoutState
  <2> QED BY <2>1, <2>2 DEF Placed, Failure
<1>2. CASE ~refused
  <2>1. AddSlot(layout, size) = added
    BY <1>2 DEF AddSlot
  <2>2. layout.slots \in Seq(Slot) /\ layout.length \in Nat
    BY DEF LayoutState
  <2>3. offset \in Nat /\ offset % Align = 0 /\ layout.length <= offset
    BY <2>2, RoundUpFacts, PageAssumption
  <2>4. size \in Nat \ {0} /\ offset + size <= SizeMax
    BY <1>2, <2>3, SizeAssumption
  <2> HIDE DEF offset
  <2>5. slot \in Slot
    BY <2>3, <2>4 DEF Slot
  <2>6. /\ grown \in Seq(Slot)
        /\ grown # <<>>
        /\ Len(grown) = Len(layout.slots) + 1
        /\ \A i \in 1..Len(layout.slots) : grown[i] = layout.slots[i]
        /\ grown[Len(layout.slots) + 1] = slot
    BY <2>2, <2>5, AppendProperties
  <2>7. /\ Len(layout.slots) \in Nat
        /\ DOMAIN layout.slots = 1..Len(layout.slots)
        /\ DOMAIN grown = 1..(Len(layout.slots) + 1)
        /\ \A i \in DOMAIN layout.slots : layout.slots[i] \in Slot
    BY <2>2, <2>6, LenProperties, ElementOfSeq
  <2>8. slot.offset = offset /\ slot.size = size
    OBVIOUS
  <2> HIDE DEF slot, grown
  <2>9. \A i \in DOMAIN layout.slots :
          /\ layout.slots[i].offset \in Nat
          /\ layout.slots[i].size \in Nat
          /\ layout.slots[i].offset + layout.slots[i].size <= layout.length
          /\ layout.slots[i].offset % Align = 0
          /\ \A j \in 1..(i - 1) :
               layout.slots[j].offset + layout.slots[j].size <= layout.slots[i].offset
    BY <1>2, <2>7 DEF Placed, Slot
  <2>10. ASSUME NEW i \in DOMAIN grown
         PROVE  /\ grown[i].offset + grown[i].size <= offset + size
                /\ grown[i].offset % Align = 0
                /\ \A j \in 1..(i - 1) : grown[j].offset + grown[j].size <= grown[i].offset
    <3>1. CASE i \in DOMAIN layout.slots
      <4>1. i \in 1..Len(layout.slots) /\ \A j \in 1..(i - 1) : j \in 1..Len(layout.slots)
        BY <2>7, <3>1
      <4>2. grown[i] = layout.slots[i] /\ \A j \in 1..(i - 1) : grown[j] = layout.slots[j]
        BY <2>6, <4>1
      <4>3. /\ grown[i].offset \in Nat /\ grown[i].size \in Nat
            /\ grown[i].offset + grown[i].size <= layout.length
            /\ grown[i].offset % Align = 0
        BY <2>9, <3>1, <4>2
      <4>4. \A j \in 1..(i - 1) : grown[j].offset + grown[j].size <= grown[i].offset
        BY <2>9, <3>1, <4>2
      <4>5. grown[i].offset + grown[i].size <= offset + size
        BY <2>2, <2>3, <2>4, <4>3
      <4> QED BY <4>3, <4>4, <4>5
    <3>2. CASE i = Len(layout.slots) + 1
      <4>1. \A j \in 1..(i - 1) : j \in DOMAIN layout.slots /\ grown[j] = layout.slots[j]
        BY <2>6, <2>7, <3>2
      <4>2. ASSUME NEW j \in 1..(i - 1)
            PROVE  grown[j].offset + grown[j].size <= grown[i].offset
        BY <2>2, <2>3, <2>6, <2>8, <2>9, <3>2, <4>1, SMTT(30)
      <4> QED BY <2>3, <2>4, <2>6, <2>8, <3>2, <4>2
    <3> QED BY <2>7, <3>1, <3>2
  <2>11. Placed(added)
    BY <2>4, <2>10 DEF Placed
  <2>12. added \in LayoutState
    BY <2>3, <2>4, <2>6 DEF LayoutState
  <2> QED BY <2>1, <2>3, <2>4, <2>6, <2>11, <2>12
<1> QED BY <1>1, <1>2

\* The layout of every request that succeeds is whole pages of aligned slots, in
\* order and apart, whatever sizes were asked for (slot_layout).
THEOREM LayoutCorrect == \A sizes \in Requests : WellFormed(slot_layout(sizes))
<1> SUFFICES ASSUME NEW sizes \in Requests PROVE WellFormed(slot_layout(sizes))
  OBVIOUS
<1> DEFINE N == Len(sizes)
           S == {l \in LayoutState : Placed(l)}
           empty == [ok |-> TRUE, slots |-> <<>>, length |-> 0]
           step == [a \in (1..N) \X S |-> AddSlot(a[2], sizes[a[1]])]
           before == [n \in 1..N |-> n - 1]
           Defines(g) == g = [n \in 0..N |-> IF n = 0 THEN empty ELSE AddSlot(g[n - 1], sizes[n])]
           after == CHOOSE g : Defines(g)
<1>1. sizes \in Seq(0..SizeMax) /\ N \in Nat /\ \A n \in 1..N : sizes[n] \in 0..SizeMax
  BY SizeAssumption, LenProperties, ElementOfSeq
<1>2. empty \in S
  BY EmptySeq, SizeAssumption DEF LayoutState, Placed
<1>3. step \in [(1..N) \X S -> S]
  BY <1>1, AddSlotFacts
<1>4. PICK g \in [0..N -> S] :
        g[0] = empty /\ \A n \in 1..N : g[n] = step[<<n, g[before[n]]>>]
  <2>1. Recursion(N, S, empty, before, step)
    BY <1>1, <1>2, <1>3 DEF Recursion
  <2> HIDE DEF step, before, S, empty, N
  <2>2. PICK g : Solves(g, N, S, empty, before, step)
    BY <2>1, RecursionExists
  <2> QED BY <2>2 DEF Solves
<1>5. \A n \in 1..N : g[n] = AddSlot(g[n - 1], sizes[n])
  BY <1>1, <1>4, SMTT(30)
<1>6. Defines(g)
  BY <1>1, <1>4, <1>5
<1>7. Defines(after)
  <2> HIDE DEF Defines
  <2> QED BY <1>6
<1>8. \A n \in 0..N : after[n] = g[n]
  <2> SUFFICES ASSUME NEW n \in 0..N, after[n] # g[n] PROVE FALSE
    OBVIOUS
  <2> DEFINE Same == {k \in 0..N : after[k] = g[k]}
  <2>1. ASSUME NEW f, Defines(f)
        PROVE  f[0] = empty /\ \A k \in 1..N : f[k] = AddSlot(f[k - 1], sizes[k])
    <3>1. \A k \in 0..N : f[k] = IF k = 0 THEN empty ELSE AddSlot(f[k - 1], sizes[k])
      BY <2>1, Zenon
    <3> HIDE DEF Defines, empty
    <3> QED BY <1>1, <3>1
  <2>2. after[0] = empty /\ \A k \in 1..N : after[k] = AddSlot(after[k - 1], sizes[k])
    <3> HIDE DEF Defines, after, empty
    <3> QED BY <1>7, <2>1
  <2> HIDE DEF after, empty
  <2>3. 0 \in Same
    BY <1>1, <1>4, <2>2
  <2>4. \A k \in 0..(N - 1) : k \in Same => k + 1 \in Same
    BY <1>1, <1>5, <2>2
  <2>5. N \in Nat
    BY <1>1
  <2> HIDE DEF Same, N
  <2>6. 0..N \subseteq Same
    BY <2>3, <2>4, <2>5, CountsUp
  <2> QED BY <2>6 DEF Same
<1> DEFINE all == after[N]
<1>9. /\ slot_layout(sizes) = IF sizes = <<>> \/ ~all.ok \/ all.length > SizeMax - (Page - 1)
                              THEN Failure
                              ELSE [all EXCEPT !.length = RoundUp(all.length, Page)]
  BY DEF slot_layout
<1>10. all = g[N] /\ all \in S
  BY <1>1, <1>4, <1>8
<1> HIDE DEF after, all
<1>11. CASE sizes = <<>> \/ ~all.ok \/ all.length > SizeMax - (Page - 1)
  BY <1>9, <1>11 DEF WellFormed, Failure
<1>12. CASE ~(sizes = <<>> \/ ~all.ok \/ all.length > SizeMax - (Page - 1))
  <2>1. N # 0
    BY <1>1, <1>12, EmptySeq
  <2>2. g[N - 1] \in S /\ all = AddSlot(g[N - 1], sizes[N])
    BY <1>1, <1>4, <1>5, <1>10, <2>1
  <2>3. all.slots # <<>> /\ all.length >= 1
    BY <1>1, <1>12, <2>1, <2>2, AddSlotFacts
  <2>4. all \in LayoutState /\ Placed(all)
    BY <1>10
  <2>5. all.length \in Nat /\ all.slots \in Seq(Slot) /\ all.length <= SizeMax - (Page - 1)
    BY <1>12, <2>4, SizeAssumption, PageAssumption DEF LayoutState
  <2> DEFINE rounded == RoundUp(all.length, Page)
  <2>6. rounded \in Nat /\ rounded % Page = 0 /\ all.length <= rounded /\ rounded <= all.length + Page - 1
    BY <2>5, RoundUpFacts, PageAssumption
  <2> HIDE DEF rounded
  <2>7. rounded \in 1..SizeMax
    BY <2>3, <2>5, <2>6, SizeAssumption, PageAssumption
  <2> DEFINE result == [all EXCEPT !.length = rounded]
  <2>8. slot_layout(sizes) = result
    BY <1>9, <1>12 DEF rounded
  <2>9. result.length = rounded /\ result.slots = all.slots
    BY <2>4 DEF LayoutState
  <2>10. \A i \in DOMAIN all.slots :
           /\ all.slots[i].offset + all.slots[i].size <= all.length
           /\ all.slots[i].offset % Align = 0
           /\ \A j \in 1..(i - 1) :
                all.slots[j].offset + all.slots[j].size <= all.slots[i].offset
    BY <1>12, <2>4 DEF Placed
  <2>11. \A i \in DOMAIN all.slots : all.slots[i].offset + all.slots[i].size <= rounded
    <3>1. \A i \in DOMAIN all.slots : all.slots[i] \in Slot
      BY <2>5, LenProperties, ElementOfSeq
    <3> QED BY <2>5, <2>6, <2>10, <3>1 DEF Slot
  <2> HIDE DEF result
  <2> QED BY <2>3, <2>5, <2>6, <2>7, <2>8, <2>9, <2>10, <2>11 DEF WellFormed
<1> QED BY <1>11, <1>12

-----------------------------------------------------------------------------
(* Page ranges.                                                            *)

\* What TypeOK says of the sequence of reservations, element by element.
LEMMA BatchFacts ==
  ASSUME TypeOK
  PROVE  /\ Len(batches) \in Nat
         /\ DOMAIN batches = 1..Len(batches)
         /\ \A b \in DOMAIN batches :
              /\ b \in Batches
              /\ batches[b] \in Reservation
              /\ DOMAIN batches[b].slots \subseteq Nat \ {0}
              /\ \A i \in DOMAIN batches[b].slots : batches[b].slots[i] \in Slot
<1>1. batches \in Seq(Reservation) /\ Len(batches) <= MaxBatches
  BY DEF TypeOK
<1>2. Len(batches) \in Nat /\ DOMAIN batches = 1..Len(batches)
  BY <1>1, LenProperties
<1>3. ASSUME NEW b \in DOMAIN batches
      PROVE  batches[b] \in Reservation /\ b \in Batches
  BY <1>1, <1>2, <1>3, ElementOfSeq, SizeAssumption DEF Batches
<1>4. ASSUME NEW b \in DOMAIN batches
      PROVE  /\ DOMAIN batches[b].slots \subseteq Nat \ {0}
             /\ \A i \in DOMAIN batches[b].slots : batches[b].slots[i] \in Slot
  <2>1. batches[b].slots \in Seq(Slot)
    BY <1>3 DEF Reservation
  <2> QED BY <2>1, LenProperties, ElementOfSeq
<1> QED BY <1>2, <1>3, <1>4

\* A batch's slots are copied to pages that its publication covers, and those
\* exist.
LEMMA PageRanges ==
  ASSUME TypeOK, BatchLayout, NEW b \in DOMAIN batches
  PROVE  /\ SlotPages(b) \subseteq Publication(b)
         /\ Publication(b) \subseteq Pages
<1> DEFINE r == batches[b]
           last == r.start + r.length - 1
<1>1. /\ r \in Reservation
      /\ r.start \in Nat
      /\ r.length \in Nat \ {0}
      /\ r.region \in Regions
      /\ last \in Nat
      /\ last <= SizeMax
  BY BatchFacts, SizeAssumption DEF Reservation, BatchLayout
<1>2. ASSUME NEW i \in DOMAIN r.slots
      PROVE  Touched(r.region, r.slots[i].offset, r.slots[i].size) \subseteq Publication(b)
  <2> DEFINE o == r.slots[i].offset
             z == r.slots[i].size
             st == r.start
             ln == r.length
  <2>1. o \in Nat /\ z \in Nat \ {0} /\ st \in Nat /\ ln \in Nat \ {0}
    BY <1>1, BatchFacts DEF Slot
  <2>2. st <= o /\ o + z <= st + ln
    BY DEF BatchLayout
  <2>3. Publication(b) = Touched(r.region, st, ln)
    BY DEF Publication
  <2> HIDE DEF o, z, st, ln
  <2>4. st \div Page <= o \div Page
    BY <2>1, <2>2, PageMonotonic, PageAssumption
  <2>5. o + z - 1 \in Nat /\ st + ln - 1 \in Nat /\ o + z - 1 <= st + ln - 1
    BY <2>1, <2>2
  <2>6. (o + z - 1) \div Page <= (st + ln - 1) \div Page
    BY <2>5, PageMonotonic, PageAssumption
  <2>7. /\ st \div Page \in Nat
        /\ o \div Page \in Nat
        /\ (o + z - 1) \div Page \in Nat
        /\ (st + ln - 1) \div Page \in Nat
    BY <2>1, <2>5, DivFacts, PageAssumption
  <2>8. Touched(r.region, o, z) \subseteq Touched(r.region, st, ln)
    BY <2>4, <2>6, <2>7 DEF Touched
  <2> QED BY <2>3, <2>8 DEF o, z
<1>3. SlotPages(b) \subseteq Publication(b)
  BY <1>2 DEF SlotPages
<1>4. Publication(b) \subseteq Pages
  <2>1. r.start \div Page \in Nat /\ last \div Page \in Nat /\ SizeMax \div Page \in Nat
    BY <1>1, DivFacts, PageAssumption, SizeAssumption
  <2>2. last \div Page <= SizeMax \div Page
    BY <1>1, PageMonotonic, PageAssumption, SizeAssumption
  <2> QED BY <1>1, <2>1, <2>2 DEF Touched, Publication, Pages, PageIds
<1> QED BY <1>3, <1>4

\* One arena batch below another shares no page with it.
LEMMA BatchesApart ==
  ASSUME TypeOK, BatchLayout,
         NEW b \in DOMAIN batches, NEW c \in DOMAIN batches,
         b < c
  PROVE  Publication(b) \cap Publication(c) = {}
<1> DEFINE r == batches[b]
           s == batches[c]
           last == r.start + r.length - 1
<1>1. /\ r.start \in Nat
      /\ r.length \in Nat \ {0}
      /\ s.start \in Nat
      /\ s.length \in Nat \ {0}
      /\ b \in Nat
      /\ c \in Nat
  BY BatchFacts DEF Reservation
<1>2. CASE r.region # s.region
  BY <1>2 DEF Publication, Touched
<1>3. CASE r.region = s.region
  <2>1. r.region = 0 /\ s.region = 0
    BY <1>1, <1>3 DEF BatchLayout
  <2>2. r.start + r.length <= s.start /\ s.start % Page = 0
    BY <2>1 DEF BatchLayout
  <2>3. last \in Nat /\ last < s.start
    BY <1>1, <2>2
  <2>4. last \div Page < s.start \div Page
    BY <1>1, <2>2, <2>3, PageBelow, PageAssumption
  <2>5. last \div Page \in Nat /\ s.start \div Page \in Nat
    BY <1>1, <2>3, DivFacts, PageAssumption
  <2> QED BY <2>4, <2>5 DEF Publication, Touched
<1> QED BY <1>2, <1>3

\* Any two reservations are apart.
LEMMA Disjoint ==
  ASSUME TypeOK, BatchLayout
  PROVE  ReservationsDisjoint
<1> SUFFICES ASSUME NEW b \in DOMAIN batches, NEW c \in DOMAIN batches, b # c
             PROVE  Publication(b) \cap Publication(c) = {}
  BY DEF ReservationsDisjoint
<1>1. b \in Nat /\ c \in Nat
  BY BatchFacts
<1>2. CASE b < c
  BY <1>2, BatchesApart
<1>3. CASE c < b
  BY <1>3, BatchesApart
<1> QED BY <1>1, <1>2, <1>3


-----------------------------------------------------------------------------
(* The invariant.                                                          *)

\* The initial state: no arena, no reservation, nothing written.
LEMMA InitIInv == Init => IInv
<1> SUFFICES ASSUME Init PROVE IInv
  OBVIOUS
<1> USE DEF Init
<1>1. TypeOK
  BY SizeAssumption, PageAssumption, EmptySeq DEF TypeOK, Written, Nothing, Idle, Pages
<1>2. BatchLayout
  BY PageAssumption, MultipleMod DEF BatchLayout
<1>3. PublishProgress /\ PublishedBatches /\ HandlesOfPublished /\ FreshRegions
  BY DEF PublishProgress, PublishedBatches, HandlesOfPublished, FreshRegions
<1>4. RegionHeld
  BY DEF RegionHeld, Held
<1> QED BY <1>1, <1>2, <1>3, <1>4 DEF IInv

\* The page ranges of reservations that a step leaves alone.
LEMMA SamePages ==
  ASSUME NEW b, batches'[b].region = batches[b].region,
         batches'[b].start = batches[b].start,
         batches'[b].length = batches[b].length,
         batches'[b].slots = batches[b].slots
  PROVE  Publication(b)' = Publication(b) /\ SlotPages(b)' = SlotPages(b)
BY DEF Publication, SlotPages, Touched

\* create: a first mapping of whole pages, in a region no batch has used.
LEMMA CreateIInv ==
  ASSUME IInv, NEW request \in Capacities, Create(request)
  PROVE  IInv'
<1> USE DEF Create, IInv, memory
<1>0. request \in Nat /\ RoundUp(request, Page) \in 0..SizeMax /\ RoundUp(request, Page) % Page = 0
  BY SizeAssumption, PageAssumption, RoundUpFacts
<1>1. used = 0
  BY DEF FreshRegions
<1>2. TypeOK'
  BY <1>0, <1>1, SizeAssumption DEF TypeOK, Regions, Written, Pages
<1>3. BatchLayout'
  BY <1>0 DEF BatchLayout
<1>4. PublishProgress' /\ HandlesOfPublished'
  BY DEF PublishProgress, HandlesOfPublished
<1>5. PublishedBatches'
  BY SamePages DEF PublishedBatches
<1>6. FreshRegions' /\ RegionHeld'
  BY BatchFacts, SizeAssumption DEF FreshRegions, RegionHeld, Held, Regions
<1> QED BY <1>2, <1>3, <1>4, <1>5, <1>6

\* The steps of publish that call the provider or copy the slots change
\* pages of the batch being published only.
ProviderStep ==
  MakeWritable \/ Copy \/ MakeExecutable \/ Restore \/ Flush

\* A provider step touches only the pages of the batch it publishes.
LEMMA OnlyOwnPages ==
  ASSUME IInv, ProviderStep
  PROVE  /\ publish # Idle
         /\ publish.batch \in DOMAIN batches
         /\ batches[publish.batch].state = "open"
         /\ batches' = batches
         /\ perm' \in [Pages -> {"rw", "rx"}]
         /\ content' \in [Pages -> Written]
         /\ icache' \in [Pages -> Written]
         /\ \A p \in Pages \ Publication(publish.batch) :
              perm'[p] = perm[p] /\ content'[p] = content[p] /\ icache'[p] = icache[p]
<1>1. publish # Idle
  BY DEF ProviderStep, MakeWritable, Copy, MakeExecutable, Restore, Flush, At, Idle
<1>2. /\ publish.batch \in DOMAIN batches
      /\ batches[publish.batch].state = "open"
  BY <1>1 DEF IInv, PublishProgress
<1>3. /\ publish.batch \in Batches
      /\ publish.payload \in Payloads
  BY <1>1 DEF IInv, TypeOK
<1>4. SlotPages(publish.batch) \subseteq Publication(publish.batch)
  BY <1>2, PageRanges DEF IInv
<1>5. /\ perm \in [Pages -> {"rw", "rx"}]
      /\ content \in [Pages -> Written]
      /\ icache \in [Pages -> Written]
  BY DEF IInv, TypeOK
<1>6. <<publish.batch, publish.payload>> \in Written
  BY <1>3 DEF Written
<1>7. CASE MakeWritable
  BY <1>1, <1>2, <1>5, <1>7 DEF MakeWritable, Protect
<1>8. CASE Copy
  BY <1>1, <1>2, <1>4, <1>5, <1>6, <1>8 DEF Copy
<1>9. CASE MakeExecutable
  BY <1>1, <1>2, <1>5, <1>9 DEF MakeExecutable, Protect
<1>10. CASE Restore
  BY <1>1, <1>2, <1>5, <1>10 DEF Restore, Protect
<1>11. CASE Flush
  BY <1>1, <1>2, <1>5, <1>11 DEF Flush
<1> QED BY <1>7, <1>8, <1>9, <1>10, <1>11 DEF ProviderStep

\* Pages of a published batch are out of reach of a publication in progress.
LEMMA OthersUntouched ==
  ASSUME IInv, ProviderStep,
         NEW b \in DOMAIN batches, batches[b].state = "published"
  PROVE  /\ Publication(b)' = Publication(b)
         /\ SlotPages(b)' = SlotPages(b)
         /\ SlotPages(b) \subseteq Publication(b)
         /\ \A p \in Publication(b) :
              perm'[p] = perm[p] /\ content'[p] = content[p] /\ icache'[p] = icache[p]
<1>1. batches' = batches
  BY OnlyOwnPages
<1>2. SlotPages(b) \subseteq Publication(b) /\ Publication(b) \subseteq Pages
  BY PageRanges DEF IInv
<1>3. b # publish.batch
  BY OnlyOwnPages
<1>4. Publication(b) \cap Publication(publish.batch) = {}
  BY <1>3, Disjoint, OnlyOwnPages DEF IInv, ReservationsDisjoint
<1>5. \A p \in Publication(b) :
        perm'[p] = perm[p] /\ content'[p] = content[p] /\ icache'[p] = icache[p]
  BY <1>2, <1>4, OnlyOwnPages
<1> QED BY <1>1, <1>2, <1>5, SamePages

\* The provider steps keep the invariant: they bring their own batch one step
\* further, or return with the reservation open.
LEMMA ProviderIInv ==
  ASSUME IInv, ProviderStep
  PROVE  IInv'
<1>1. PICK b \in DOMAIN batches : b = publish.batch
  BY OnlyOwnPages
<1>2. UNCHANGED <<arena, capacity, used, batches, handles, mapped>>
  BY DEF ProviderStep, MakeWritable, Copy, MakeExecutable, Restore, Flush
<1>3. /\ publish \in [at : {"writable", "restore", "copy", "executable", "again", "flush", "done"},
                      batch : Batches, payload : Payloads]
      /\ publish # Idle
  BY OnlyOwnPages DEF IInv, TypeOK
<1>4. /\ Publication(b)' = Publication(b)
      /\ SlotPages(b)' = SlotPages(b)
      /\ SlotPages(b) \subseteq Publication(b)
      /\ Publication(b) \subseteq Pages
  BY <1>2, PageRanges, SamePages DEF IInv
<1>5. TypeOK'
  <2>1. \/ publish' = Idle
        \/ publish' \in [at : {"writable", "restore", "copy", "executable", "again", "flush", "done"},
                         batch : Batches, payload : Payloads]
    BY <1>3 DEF ProviderStep, MakeWritable, Copy, MakeExecutable, Restore, Flush, GoTo
  <2>2. /\ perm' \in [Pages -> {"rw", "rx"}]
        /\ content' \in [Pages -> Written]
        /\ icache' \in [Pages -> Written]
    BY OnlyOwnPages
  <2> QED BY <1>2, <2>1, <2>2 DEF IInv, TypeOK
<1>6. BatchLayout'
  BY <1>2 DEF IInv, BatchLayout
<1>7. PublishedBatches'
  <2> SUFFICES ASSUME NEW c \in DOMAIN batches, batches[c].state = "published"
               PROVE  /\ \A p \in Publication(c)' : perm'[p] = "rx"
                      /\ \E payload \in Payloads : \A p \in SlotPages(c)' :
                           content'[p] = <<c, payload>> /\ icache'[p] = content'[p]
    BY <1>2 DEF PublishedBatches
  <2> QED BY OthersUntouched DEF IInv, PublishedBatches
<1>8. HandlesOfPublished' /\ FreshRegions' /\ RegionHeld'
  BY <1>2 DEF IInv, HandlesOfPublished, FreshRegions, RegionHeld, Held
<1>9. PublishProgress'
  <2> DEFINE Progress ==
        /\ batches[b].state = "open"
        /\ publish.at = "copy" => \A p \in Publication(b) : perm[p] = "rw"
        /\ publish.at \in {"executable", "again", "flush", "done"} =>
             \A p \in SlotPages(b) : content[p] = <<b, publish.payload>>
        /\ publish.at \in {"flush", "done"} => \A p \in Publication(b) : perm[p] = "rx"
        /\ publish.at = "done" => \A p \in SlotPages(b) : icache[p] = content[p]
  <2>1. Progress
    BY <1>1, <1>3 DEF IInv, PublishProgress, At
  <2>2. /\ perm \in [Pages -> {"rw", "rx"}]
        /\ content \in [Pages -> Written]
        /\ icache \in [Pages -> Written]
    BY DEF IInv, TypeOK
  <2>3. (publish' # Idle => publish'.batch = b /\ Progress') => PublishProgress'
    BY <1>1, <1>2 DEF PublishProgress, At
  <2>4. CASE MakeWritable
    BY <1>1, <1>2, <1>3, <1>4, <2>1, <2>2, <2>3, <2>4 DEF MakeWritable, Protect, GoTo, At
  <2>5. CASE Copy
    BY <1>1, <1>2, <1>3, <1>4, <2>1, <2>2, <2>3, <2>5 DEF Copy, GoTo, At
  <2>6. CASE MakeExecutable
    BY <1>1, <1>2, <1>3, <1>4, <2>1, <2>2, <2>3, <2>6 DEF MakeExecutable, Protect, GoTo, At
  <2>7. CASE Restore
    BY <2>3, <2>7 DEF Restore
  <2>8. CASE Flush
    BY <1>1, <1>2, <1>3, <1>4, <2>1, <2>2, <2>3, <2>8 DEF Flush, GoTo, At
  <2> QED BY <2>4, <2>5, <2>6, <2>7, <2>8 DEF ProviderStep
<1> QED BY <1>5, <1>6, <1>7, <1>8, <1>9 DEF IInv

\* A publication starts on an open reservation and changes nothing yet.
LEMMA BeginPublishIInv ==
  ASSUME IInv, NEW b \in DOMAIN batches, NEW payload \in Payloads, BeginPublish(b, payload)
  PROVE  IInv'
<1> USE DEF BeginPublish, IInv, memory
<1>1. TypeOK'
  BY BatchFacts DEF TypeOK
<1>2. BatchLayout'
  BY DEF BatchLayout
<1>3. PublishProgress'
  BY DEF PublishProgress, At
<1>4. PublishedBatches'
  BY SamePages DEF PublishedBatches
<1>5. HandlesOfPublished' /\ FreshRegions' /\ RegionHeld'
  BY DEF HandlesOfPublished, FreshRegions, RegionHeld, Held
<1> QED BY <1>1, <1>2, <1>3, <1>4, <1>5

\* A step that only changes the state of one reservation keeps the layout.
LEMMA SetState ==
  ASSUME TypeOK, NEW b \in DOMAIN batches,
         NEW new \in {"open", "published", "abandoned"},
         batches' = [batches EXCEPT ![b].state = new]
  PROVE  /\ batches' \in Seq(Reservation)
         /\ Len(batches') = Len(batches)
         /\ DOMAIN batches' = DOMAIN batches
         /\ \A c \in DOMAIN batches :
              /\ batches'[c].region = batches[c].region
              /\ batches'[c].start = batches[c].start
              /\ batches'[c].length = batches[c].length
              /\ batches'[c].slots = batches[c].slots
              /\ batches'[c].state = IF c = b THEN new ELSE batches[c].state
<1>1. batches[b] \in Reservation /\ b \in 1..Len(batches) /\ batches \in Seq(Reservation)
  BY BatchFacts DEF TypeOK
<1>2. [batches[b] EXCEPT !.state = new] \in Reservation
  BY <1>1 DEF Reservation
<1>3. batches' = [batches EXCEPT ![b] = [batches[b] EXCEPT !.state = new]]
  OBVIOUS
<1>4. /\ batches' \in Seq(Reservation)
      /\ Len(batches') = Len(batches)
      /\ \A c \in 1..Len(batches) :
           batches'[c] = IF c = b THEN [batches[b] EXCEPT !.state = new] ELSE batches[c]
  BY <1>1, <1>2, <1>3, ExceptSeq
<1>5. DOMAIN batches' = DOMAIN batches /\ DOMAIN batches = 1..Len(batches)
  BY BatchFacts
<1>6. \A c \in DOMAIN batches : batches[c] \in Reservation
  BY BatchFacts
<1> QED BY <1>4, <1>5, <1>6 DEF Reservation

\* publish returns: the reservation is consumed and its pages are final.
LEMMA ReturnIInv ==
  ASSUME IInv, Return
  PROVE  IInv'
<1>1. publish # Idle /\ publish.at = "done"
  BY DEF Return, At, Idle
<1>2. PICK b \in DOMAIN batches : b = publish.batch
  BY <1>1 DEF IInv, PublishProgress
<1>3. UNCHANGED <<arena, capacity, used, mapped, perm, content, icache>> /\ publish' = Idle
  BY DEF Return, memory
<1>4. /\ handles' = handles \cup {<<b, i>> : i \in DOMAIN batches[b].slots}
      /\ batches' = [batches EXCEPT ![b].state = "published"]
  BY <1>2 DEF Return
<1>5. /\ batches' \in Seq(Reservation)
      /\ Len(batches') = Len(batches)
      /\ DOMAIN batches' = DOMAIN batches
      /\ \A c \in DOMAIN batches :
           /\ batches'[c].region = batches[c].region
           /\ batches'[c].start = batches[c].start
           /\ batches'[c].length = batches[c].length
           /\ batches'[c].slots = batches[c].slots
           /\ batches'[c].state = IF c = b THEN "published" ELSE batches[c].state
  BY <1>4, SetState DEF IInv
<1>6. TypeOK'
  BY <1>3, <1>4, <1>5, BatchFacts DEF IInv, TypeOK
<1>7. BatchLayout'
  BY <1>3, <1>5 DEF IInv, BatchLayout
<1>8. PublishProgress'
  BY <1>3 DEF PublishProgress
<1>9. PublishedBatches'
  <2> SUFFICES ASSUME NEW c \in DOMAIN batches, batches'[c].state = "published"
               PROVE  /\ \A p \in Publication(c)' : perm'[p] = "rx"
                      /\ \E payload \in Payloads : \A p \in SlotPages(c)' :
                           content'[p] = <<c, payload>> /\ icache'[p] = content'[p]
    BY <1>5 DEF PublishedBatches
  <2>1. Publication(c)' = Publication(c) /\ SlotPages(c)' = SlotPages(c)
    BY <1>5, SamePages
  <2>2. CASE c = b
    <3>1. publish.payload \in Payloads
      BY <1>1 DEF IInv, TypeOK
    <3>2. /\ \A p \in Publication(b) : perm[p] = "rx"
          /\ \A p \in SlotPages(b) : content[p] = <<b, publish.payload>> /\ icache[p] = content[p]
      BY <1>1, <1>2 DEF IInv, PublishProgress, At
    <3> QED BY <1>3, <2>1, <2>2, <3>1, <3>2
  <2>3. CASE c # b
    BY <1>3, <1>5, <2>1, <2>3 DEF IInv, PublishedBatches
  <2> QED BY <2>2, <2>3
<1>10. HandlesOfPublished'
  BY <1>4, <1>5 DEF IInv, HandlesOfPublished
<1>11. FreshRegions'
  BY <1>3, <1>5 DEF IInv, FreshRegions
<1>12. RegionHeld'
  <2> SUFFICES ASSUME NEW r \in Regions
               PROVE  Held(r, arena', batches', handles') <=> Held(r, arena, batches, handles)
    BY <1>3 DEF IInv, RegionHeld
  <2>1. \A h \in handles : h[1] \in DOMAIN batches
    BY DEF IInv, HandlesOfPublished
  <2>2. \E h \in handles' : h[1] = b
    <3>1. 1 \in DOMAIN batches[b].slots
      BY DEF IInv, BatchLayout
    <3>2. <<b, 1>> \in handles'
      BY <1>4, <3>1
    <3> QED BY <3>2
  <2>3. batches[b].state = "open"
    BY <1>1, <1>2 DEF IInv, PublishProgress
  <2> QED BY <1>3, <1>4, <1>5, <2>1, <2>2, <2>3 DEF Held
<1> QED BY <1>6, <1>7, <1>8, <1>9, <1>10, <1>11, <1>12 DEF IInv

\* The arena is destroyed or moved from: the regions still held stay.
LEMMA DropArenaIInv ==
  ASSUME IInv, DropArena
  PROVE  IInv'
<1> USE DEF DropArena, IInv, memory
<1>1. TypeOK'
  BY DEF TypeOK, StillMapped
<1>2. BatchLayout'
  BY DEF BatchLayout
<1>3. PublishProgress'
  BY SamePages DEF PublishProgress, At, Publication, SlotPages
<1>4. PublishedBatches'
  BY SamePages DEF PublishedBatches
<1>5. HandlesOfPublished' /\ FreshRegions'
  BY DEF HandlesOfPublished, FreshRegions, StillMapped
<1>6. RegionHeld'
  BY DEF RegionHeld, Held, StillMapped
<1> QED BY <1>1, <1>2, <1>3, <1>4, <1>5, <1>6

\* A handle is dropped.
LEMMA DropHandleIInv ==
  ASSUME IInv, NEW h \in handles, DropHandle(h)
  PROVE  IInv'
<1> USE DEF DropHandle, IInv, memory
<1>1. TypeOK'
  BY DEF TypeOK, StillMapped
<1>2. BatchLayout'
  BY DEF BatchLayout
<1>3. PublishProgress'
  BY DEF PublishProgress, At, Publication, SlotPages
<1>4. PublishedBatches'
  BY SamePages DEF PublishedBatches
<1>5. HandlesOfPublished' /\ FreshRegions'
  BY DEF HandlesOfPublished, FreshRegions, StillMapped
<1>6. RegionHeld'
  BY DEF RegionHeld, Held, StillMapped
<1> QED BY <1>1, <1>2, <1>3, <1>4, <1>5, <1>6

\* An open reservation other than the one being published is abandoned.
LEMMA AbandonIInv ==
  ASSUME IInv, NEW b \in DOMAIN batches, Abandon(b)
  PROVE  IInv'
<1>1. /\ batches[b].state = "open"
      /\ publish.batch # b
      /\ batches' = [batches EXCEPT ![b].state = "abandoned"]
      /\ mapped' = StillMapped(arena, batches', handles)
      /\ UNCHANGED <<arena, capacity, used, handles, perm, content, icache, publish>>
  BY DEF Abandon, memory
<1>2. /\ batches' \in Seq(Reservation)
      /\ Len(batches') = Len(batches)
      /\ DOMAIN batches' = DOMAIN batches
      /\ \A c \in DOMAIN batches :
           /\ batches'[c].region = batches[c].region
           /\ batches'[c].start = batches[c].start
           /\ batches'[c].length = batches[c].length
           /\ batches'[c].slots = batches[c].slots
           /\ batches'[c].state = IF c = b THEN "abandoned" ELSE batches[c].state
  BY <1>1, SetState DEF IInv
<1>3. \A c \in DOMAIN batches : Publication(c)' = Publication(c) /\ SlotPages(c)' = SlotPages(c)
  BY <1>2, SamePages
<1>4. TypeOK'
  BY <1>1, <1>2 DEF IInv, TypeOK, StillMapped
<1>5. BatchLayout'
  BY <1>1, <1>2 DEF IInv, BatchLayout
<1>6. PublishProgress'
  <2> SUFFICES ASSUME publish # Idle PROVE PublishProgress'
    BY <1>1 DEF PublishProgress
  <2>1. PICK c \in DOMAIN batches : c = publish.batch
    BY DEF IInv, PublishProgress
  <2>2. publish' = publish /\ publish'.batch = c /\ c # b
    BY <1>1, <2>1
  <2> QED BY <1>1, <1>2, <1>3, <2>1, <2>2 DEF IInv, PublishProgress, At
<1>7. PublishedBatches'
  BY <1>1, <1>2, <1>3 DEF IInv, PublishedBatches
<1>8. HandlesOfPublished' /\ FreshRegions'
  BY <1>1, <1>2 DEF IInv, HandlesOfPublished, FreshRegions, StillMapped
<1>9. RegionHeld'
  <2>1. \A h \in handles : h[1] \in DOMAIN batches
    BY DEF IInv, HandlesOfPublished
  <2> QED BY <1>1, <1>2, <2>1 DEF IInv, RegionHeld, Held, StillMapped
<1> QED BY <1>4, <1>5, <1>6, <1>7, <1>8, <1>9 DEF IInv

\* What slot_layout returns when it succeeds.
LEMMA LayoutFacts ==
  ASSUME NEW sizes \in Requests, slot_layout(sizes).ok
  PROVE  LET layout == slot_layout(sizes)
         IN  /\ layout.length \in Nat \ {0}
             /\ layout.length <= SizeMax
             /\ layout.length % Page = 0
             /\ layout.slots \in Seq(Slot)
             /\ 1 \in DOMAIN layout.slots
             /\ \A i \in DOMAIN layout.slots :
                  /\ layout.slots[i].offset \in Nat
                  /\ layout.slots[i].size \in Nat \ {0}
                  /\ layout.slots[i].offset + layout.slots[i].size <= layout.length
<1> DEFINE layout == slot_layout(sizes)
<1>1. /\ layout.length \in 1..SizeMax
      /\ layout.length % Page = 0
      /\ layout.slots \in Seq(Slot)
      /\ layout.slots # <<>>
      /\ \A i \in DOMAIN layout.slots :
           layout.slots[i].offset + layout.slots[i].size <= layout.length
  BY LayoutCorrect DEF WellFormed
<1> HIDE DEF layout
<1>2. DOMAIN layout.slots = 1..Len(layout.slots) /\ Len(layout.slots) \in Nat
  BY <1>1, LenProperties
<1>3. \A i \in DOMAIN layout.slots : layout.slots[i] \in Slot
  BY <1>1, <1>2, ElementOfSeq
<1>4. Len(layout.slots) # 0
  BY <1>1, EmptySeq
<1> QED BY <1>1, <1>2, <1>3, <1>4, SizeAssumption DEF Slot, layout

\* Adding a reservation above all others, in unused pages, keeps the invariant.
LEMMA NewBatch ==
  ASSUME IInv, publish = Idle, Len(batches) < MaxBatches,
         NEW r \in Reservation,
         batches' = Append(batches, r),
         UNCHANGED <<arena, capacity, handles, perm, content, icache, publish>>,
         used' \in used..capacity, used' % Page = 0, arena = "none" => used' = 0,
         r.state = "open",
         r.start % Page = 0, r.length % Page = 0, r.start + r.length <= SizeMax,
         1 \in DOMAIN r.slots,
         \A i \in DOMAIN r.slots :
           r.start <= r.slots[i].offset /\ r.slots[i].offset + r.slots[i].size <= r.start + r.length,
         \/ r.region = 0 /\ r.start >= used /\ r.start + r.length <= used' /\ arena = "live"
            /\ mapped' = mapped
         \/ r.region = Len(batches) + 1 /\ mapped' = mapped \cup {r.region}
  PROVE  IInv'
<1> DEFINE n == Len(batches)
<1>1. n \in Nat /\ DOMAIN batches = 1..n /\ batches \in Seq(Reservation)
  BY BatchFacts DEF IInv, TypeOK
<1>2. /\ batches' \in Seq(Reservation)
      /\ Len(batches') = n + 1
      /\ DOMAIN batches' = 1..(n + 1)
      /\ \A c \in DOMAIN batches : batches'[c] = batches[c]
      /\ batches'[n + 1] = r
  <2>1. /\ batches' \in Seq(Reservation)
        /\ Len(batches') = n + 1
        /\ \A c \in 1..n : batches'[c] = batches[c]
        /\ batches'[n + 1] = r
    BY <1>1, AppendProperties
  <2> QED BY <1>1, <2>1, LenProperties
<1>3. /\ used \in Nat /\ capacity \in Nat /\ used <= capacity
      /\ r.start \in Nat /\ r.length \in Nat \ {0} /\ r.region \in Regions
      /\ capacity <= SizeMax
  BY SizeAssumption DEF IInv, TypeOK, Reservation
<1>4. TypeOK'
  <2>1. mapped' \subseteq Regions
    BY <1>3 DEF IInv, TypeOK
  <2>2. Len(batches') <= MaxBatches
    BY <1>1, <1>2, SizeAssumption
  <2>3. used' \in 0..capacity'
    BY <1>3
  <2> QED BY <1>2, <2>1, <2>2, <2>3 DEF IInv, TypeOK
<1>5. BatchLayout'
  <2>1. \A b \in DOMAIN batches : batches[b].start \in Nat /\ batches[b].length \in Nat \ {0}
    BY BatchFacts DEF IInv, Reservation
  <2>2. \A b \in DOMAIN batches : b < n + 1 /\ b # n + 1
    BY <1>1
  <2>3. ASSUME NEW b \in DOMAIN batches'
        PROVE  LET q == batches'[b]
               IN  /\ q.start % Page = 0
                   /\ q.length % Page = 0
                   /\ q.start + q.length <= SizeMax
                   /\ 1 \in DOMAIN q.slots
                   /\ \A i \in DOMAIN q.slots :
                        q.start <= q.slots[i].offset
                          /\ q.slots[i].offset + q.slots[i].size <= q.start + q.length
                   /\ IF q.region = 0 THEN q.start + q.length <= used' ELSE q.region = b
    <3>1. CASE b \in DOMAIN batches
      BY <1>2, <1>3, <2>1, <3>1 DEF IInv, BatchLayout
    <3>2. CASE b = n + 1
      BY <1>1, <1>2, <1>3, <3>2
    <3> QED BY <1>1, <1>2, <3>1, <3>2
  <2>4. ASSUME NEW b \in DOMAIN batches', NEW c \in DOMAIN batches',
               b < c, batches'[b].region = 0, batches'[c].region = 0
        PROVE  batches'[b].start + batches'[b].length <= batches'[c].start
    <3>1. b \in DOMAIN batches
      BY <1>1, <1>2, <2>4
    <3>2. CASE c \in DOMAIN batches
      BY <1>2, <2>4, <3>1, <3>2 DEF IInv, BatchLayout
    <3>3. CASE c = n + 1
      <4>1. r.start >= used
        BY <1>1, <1>2, <2>4, <3>3
      <4>2. batches[b].start + batches[b].length <= used
        BY <1>2, <2>4, <3>1 DEF IInv, BatchLayout
      <4> QED BY <1>2, <1>3, <2>1, <3>1, <3>3, <4>1, <4>2
    <3> QED BY <1>1, <1>2, <3>2, <3>3
  <2>5. capacity' % Page = 0
    BY DEF IInv, BatchLayout
  <2> QED BY <2>3, <2>4, <2>5 DEF BatchLayout
<1>6. PublishProgress'
  BY DEF PublishProgress
<1>7. PublishedBatches'
  <2> SUFFICES ASSUME NEW c \in DOMAIN batches', batches'[c].state = "published"
               PROVE  /\ \A p \in Publication(c)' : perm'[p] = "rx"
                      /\ \E payload \in Payloads : \A p \in SlotPages(c)' :
                           content'[p] = <<c, payload>> /\ icache'[p] = content'[p]
    BY DEF PublishedBatches
  <2>1. c \in DOMAIN batches
    BY <1>1, <1>2
  <2>2. Publication(c)' = Publication(c) /\ SlotPages(c)' = SlotPages(c)
    BY <1>2, <2>1, SamePages
  <2> QED BY <1>2, <2>1, <2>2 DEF IInv, PublishedBatches
<1>8. HandlesOfPublished'
  BY <1>1, <1>2 DEF IInv, HandlesOfPublished
<1>9. FreshRegions'
  <2>1. \A q \in mapped : q \in Nat /\ q <= n
    BY SizeAssumption DEF IInv, FreshRegions, TypeOK, Regions
  <2> QED BY <1>1, <1>2, <2>1 DEF FreshRegions
<1>10. RegionHeld'
  <2>1. \A h \in handles : h[1] \in DOMAIN batches
    BY DEF IInv, HandlesOfPublished
  <2>2. \A q \in Regions : Held(q, arena', batches', handles')
                             <=> Held(q, arena, batches, handles) \/ q = r.region
    <3>1. \A q : (\E b \in DOMAIN batches' : batches'[b].region = q /\ batches'[b].state = "open")
            <=> \/ \E b \in DOMAIN batches : batches[b].region = q /\ batches[b].state = "open"
                \/ q = r.region
      BY <1>1, <1>2
    <3>2. \A h \in handles : batches'[h[1]] = batches[h[1]]
      BY <1>2, <2>1
    <3> QED BY <3>1, <3>2, ZenonT(30) DEF Held
  <2>3. r.region \in mapped'
    <3>1. CASE r.region = 0 /\ arena = "live" /\ mapped' = mapped
      <4>1. Held(0, arena, batches, handles)
        BY <3>1 DEF Held
      <4>2. 0 \in Regions
        BY SizeAssumption DEF Regions
      <4> QED BY <3>1, <4>1, <4>2 DEF IInv, RegionHeld
    <3> QED BY <3>1
  <2>4. mapped' = mapped \cup {r.region}
    BY <2>3
  <2> QED BY <2>2, <2>4 DEF IInv, RegionHeld
<1> QED BY <1>4, <1>5, <1>6, <1>7, <1>8, <1>9, <1>10 DEF IInv

\* CodeArena::reserve takes the next whole pages of the arena.
LEMMA ReserveInArenaIInv ==
  ASSUME IInv, NEW sizes \in Requests, ReserveInArena(sizes)
  PROVE  IInv'
<1> DEFINE layout == slot_layout(sizes)
           slots == [i \in DOMAIN layout.slots |->
                       [offset |-> layout.slots[i].offset + used,
                        size |-> layout.slots[i].size]]
           r == [region |-> 0, start |-> used, length |-> layout.length, state |-> "open",
                 slots |-> slots]
<1>1. /\ layout.length \in Nat \ {0}
      /\ layout.length % Page = 0
      /\ layout.slots \in Seq(Slot)
      /\ 1 \in DOMAIN layout.slots
      /\ \A i \in DOMAIN layout.slots :
           /\ layout.slots[i].offset \in Nat
           /\ layout.slots[i].size \in Nat \ {0}
           /\ layout.slots[i].offset + layout.slots[i].size <= layout.length
  BY LayoutFacts DEF ReserveInArena
<1>2. /\ arena = "live"
      /\ publish = Idle
      /\ Len(batches) < MaxBatches
      /\ layout.length <= capacity - used
      /\ batches' = Append(batches, r)
      /\ used' = used + layout.length
      /\ UNCHANGED <<arena, capacity, handles, mapped, perm, content, icache, publish>>
  BY DEF ReserveInArena, memory
<1> HIDE DEF layout
<1>3. /\ used \in Nat /\ capacity \in Nat /\ used <= capacity
      /\ capacity <= SizeMax /\ used % Page = 0
  BY SizeAssumption DEF IInv, TypeOK, BatchLayout
<1>4. slots \in Seq(Slot)
  <2>1. DOMAIN layout.slots = 1..Len(layout.slots) /\ Len(layout.slots) \in Nat
    BY <1>1, LenProperties
  <2>2. \A i \in 1..Len(layout.slots) : slots[i] \in Slot
    <3> SUFFICES ASSUME NEW i \in 1..Len(layout.slots) PROVE slots[i] \in Slot
      OBVIOUS
    <3>1. slots[i] = [offset |-> layout.slots[i].offset + used, size |-> layout.slots[i].size]
      BY <2>1
    <3>2. layout.slots[i].offset + used \in Nat /\ layout.slots[i].size \in Nat \ {0}
      BY <1>1, <1>3, <2>1
    <3> QED BY <3>1, <3>2 DEF Slot
  <2>3. slots \in [1..Len(layout.slots) -> Slot]
    BY <2>1, <2>2
  <2> HIDE DEF slots
  <2> QED BY <2>1, <2>3
<1>5. r \in Reservation
  BY <1>1, <1>3, <1>4, SizeAssumption DEF Reservation, Regions
<1>6. (used + layout.length) % Page = 0
  BY <1>1, <1>3, SumMod, PageAssumption
<1>7. \A i \in DOMAIN r.slots :
        r.start <= r.slots[i].offset /\ r.slots[i].offset + r.slots[i].size <= r.start + r.length
  BY <1>1, <1>3, SMTT(30)
<1>8. /\ r.state = "open" /\ r.region = 0 /\ r.start = used /\ r.length = layout.length
      /\ DOMAIN r.slots = DOMAIN layout.slots
  OBVIOUS
<1> HIDE DEF r
<1>9. used' \in used..capacity /\ r.start + r.length = used' /\ r.start + r.length <= SizeMax
  BY <1>1, <1>2, <1>3, <1>8, SizeAssumption
<1> QED BY <1>1, <1>2, <1>3, <1>5, <1>6, <1>7, <1>8, <1>9, NewBatch, SMTT(30)

\* CodeMemory::reserve takes a region of its own.
LEMMA ReserveMappingIInv ==
  ASSUME IInv, NEW sizes \in Requests, ReserveMapping(sizes)
  PROVE  IInv'
<1> DEFINE layout == slot_layout(sizes)
           n == Len(batches) + 1
           r == [region |-> n, start |-> 0, length |-> layout.length, state |-> "open",
                 slots |-> layout.slots]
<1>1. /\ layout.length \in Nat \ {0}
      /\ layout.length <= SizeMax
      /\ layout.length % Page = 0
      /\ layout.slots \in Seq(Slot)
      /\ 1 \in DOMAIN layout.slots
      /\ \A i \in DOMAIN layout.slots :
           /\ layout.slots[i].offset \in Nat
           /\ layout.slots[i].size \in Nat \ {0}
           /\ layout.slots[i].offset + layout.slots[i].size <= layout.length
  BY LayoutFacts DEF ReserveMapping
<1>2. /\ publish = Idle
      /\ n <= MaxBatches
      /\ batches' = Append(batches, r)
      /\ mapped' = mapped \cup {n}
      /\ UNCHANGED <<arena, capacity, used, handles, perm, content, icache, publish>>
  BY DEF ReserveMapping, memory
<1> HIDE DEF layout
<1>3. Len(batches) \in Nat /\ n \in Nat /\ n \in Regions /\ Len(batches) < MaxBatches
  BY <1>2, BatchFacts, SizeAssumption DEF IInv, Regions
<1>4. r \in Reservation
  BY <1>1, <1>3 DEF Reservation
<1>5. /\ used \in Nat /\ used \in used..capacity /\ used % Page = 0
      /\ arena = "none" => used = 0
  BY SizeAssumption DEF IInv, TypeOK, BatchLayout, FreshRegions
<1>6. 0 % Page = 0
  BY MultipleMod, PageAssumption
<1>7. /\ r.state = "open" /\ r.region = n /\ r.start = 0 /\ r.length = layout.length
      /\ r.slots = layout.slots
  OBVIOUS
<1> HIDE DEF r
<1>8. \A i \in DOMAIN r.slots :
        r.start <= r.slots[i].offset /\ r.slots[i].offset + r.slots[i].size <= r.start + r.length
  BY <1>1, <1>7
<1>9. r.start + r.length <= SizeMax
  BY <1>1, <1>7
<1> QED BY <1>1, <1>2, <1>3, <1>4, <1>5, <1>6, <1>7, <1>8, <1>9, NewBatch

\* Every step keeps the invariant.
LEMMA StepIInv == IInv /\ [Next]_vars => IInv'
<1> SUFFICES ASSUME IInv, [Next]_vars PROVE IInv'
  OBVIOUS
<1>1. CASE UNCHANGED vars
  <2>1. UNCHANGED <<arena, capacity, used, batches, handles, mapped, perm, content, icache, publish>>
    BY <1>1 DEF vars
  <2> QED BY <2>1, SMTT(30) DEF IInv, TypeOK, BatchLayout, PublishProgress, PublishedBatches,
             HandlesOfPublished, FreshRegions, RegionHeld, Held, At, Publication, SlotPages
<1>2. ASSUME NEW request \in Capacities, Create(request) PROVE IInv'
  BY <1>2, CreateIInv
<1>3. ASSUME NEW sizes \in Requests, ReserveInArena(sizes) PROVE IInv'
  BY <1>3, ReserveInArenaIInv
<1>4. ASSUME NEW sizes \in Requests, ReserveMapping(sizes) PROVE IInv'
  BY <1>4, ReserveMappingIInv
<1>5. ASSUME NEW b \in DOMAIN batches, NEW payload \in Payloads, BeginPublish(b, payload)
      PROVE  IInv'
  BY <1>5, BeginPublishIInv
<1>6. CASE ProviderStep
  BY <1>6, ProviderIInv
<1>7. CASE Return
  BY <1>7, ReturnIInv
<1>8. CASE DropArena
  BY <1>8, DropArenaIInv
<1>9. ASSUME NEW b \in DOMAIN batches, Abandon(b) PROVE IInv'
  BY <1>9, AbandonIInv
<1>10. ASSUME NEW h \in handles, DropHandle(h) PROVE IInv'
  BY <1>10, DropHandleIInv
<1> QED BY <1>1, <1>2, <1>3, <1>4, <1>5, <1>6, <1>7, <1>8, <1>9, <1>10 DEF Next, ProviderStep

-----------------------------------------------------------------------------
(* The theorems.                                                           *)

\* IInv holds in every reachable state of code memory.
THEOREM Invariance == Spec => []IInv
<1>1. Init => IInv
  BY InitIInv
<1>2. IInv /\ [Next]_vars => IInv'
  BY StepIInv
<1> QED BY <1>1, <1>2, PTL DEF Spec

\* Type correctness of code memory.
THEOREM TypeCorrect == Spec => []TypeOK
<1>1. IInv => TypeOK
  BY DEF IInv
<1> QED BY <1>1, Invariance, PTL

\* No page is ever given out by two reservations.
THEOREM NoSharedPage == Spec => []ReservationsDisjoint
<1>1. IInv => ReservationsDisjoint
  BY Disjoint DEF IInv
<1> QED BY <1>1, Invariance, PTL

\* The copy of a publication never faults.
THEOREM CopyNeverFaults == Spec => []CopyIsAllowed
<1>1. IInv => CopyIsAllowed
  <2> SUFFICES ASSUME IInv, At("copy") PROVE CopyIsAllowed
    BY DEF CopyIsAllowed
  <2>1. publish # Idle /\ publish.batch \in DOMAIN batches /\ batches[publish.batch].state = "open"
    BY DEF IInv, PublishProgress, At, Idle
  <2>2. batches[publish.batch].region \in mapped
    BY <2>1, BatchFacts DEF IInv, RegionHeld, Held, Reservation
  <2>3. SlotPages(publish.batch) \subseteq Publication(publish.batch)
    BY <2>1, PageRanges DEF IInv
  <2>4. \A p \in Publication(publish.batch) : perm[p] = "rw"
    BY <2>1 DEF IInv, PublishProgress
  <2> QED BY <2>2, <2>3, <2>4 DEF CopyIsAllowed
<1> QED BY <1>1, Invariance, PTL

\* Code behind a live handle stays mapped, executable and intact.
THEOREM CodeIntact == Spec => []PublishedIntact
<1>1. IInv => PublishedIntact
  <2> SUFFICES ASSUME IInv, NEW h \in handles
               PROVE  /\ batches[h[1]].region \in mapped
                      /\ \A p \in Publication(h[1]) : perm[p] = "rx"
                      /\ \E payload \in Payloads : \A p \in SlotPages(h[1]) :
                           content[p] = <<h[1], payload>> /\ icache[p] = content[p]
    BY DEF PublishedIntact
  <2>1. h[1] \in DOMAIN batches /\ batches[h[1]].state = "published"
    BY DEF IInv, HandlesOfPublished
  <2>2. batches[h[1]].region \in mapped
    BY <2>1, BatchFacts DEF IInv, RegionHeld, Held, Reservation
  <2> QED BY <2>1, <2>2 DEF IInv, PublishedBatches
<1> QED BY <1>1, Invariance, PTL

\* No step touches a page of a published batch.
THEOREM CodeStable == Spec => PublishedStable
<1> DEFINE Stable ==
      \A b \in DOMAIN batches : batches[b].state = "published" =>
        \A p \in Publication(b) :
          perm'[p] = perm[p] /\ content'[p] = content[p] /\ icache'[p] = icache[p]
<1>1. IInv /\ [Next]_vars => [Stable]_vars
  <2> SUFFICES ASSUME IInv, Next PROVE Stable
    OBVIOUS
  <2>1. CASE ProviderStep
    BY <2>1, OthersUntouched
  <2>2. CASE ~ProviderStep
    <3>1. UNCHANGED <<perm, content, icache>>
      BY <2>2 DEF Next, ProviderStep, Create, ReserveInArena, ReserveMapping, BeginPublish,
                  Return, DropArena, Abandon, DropHandle, memory
    <3> QED BY <3>1
  <2> QED BY <2>1, <2>2
<1>2. PublishedStable <=> [][Stable]_vars
  BY DEF PublishedStable
<1> QED BY <1>1, <1>2, Invariance, PTL DEF Spec

-----------------------------------------------------------------------------
(* The refinement: publication is atomic.                                  *)

\* A step that leaves every batch as its owners see it is a stutter.
LEMMA SameView ==
  ASSUME \A b \in Batches : /\ AbstractStatus(b)' = AbstractStatus(b)
                            /\ AbstractFetched(b)' = AbstractFetched(b)
  PROVE  UNCHANGED Promise!vars
BY DEF Promise!vars

\* A step that changes one batch as its owners see it.
LEMMA OneView ==
  ASSUME NEW b \in Batches, NEW s, NEW f,
         AbstractStatus(b)' = s, AbstractFetched(b)' = f,
         \A c \in Batches \ {b} : /\ AbstractStatus(c)' = AbstractStatus(c)
                                  /\ AbstractFetched(c)' = AbstractFetched(c)
  PROVE  /\ [c \in Batches |-> AbstractStatus(c)]'
              = [[c \in Batches |-> AbstractStatus(c)] EXCEPT ![b] = s]
         /\ [c \in Batches |-> AbstractFetched(c)]'
              = [[c \in Batches |-> AbstractFetched(c)] EXCEPT ![b] = f]
OBVIOUS

\* A batch that a step leaves alone looks the same to its owners.
LEMMA ViewKept ==
  ASSUME NEW b \in Batches,
         b \in DOMAIN batches' <=> b \in DOMAIN batches,
         b \in DOMAIN batches =>
           /\ batches'[b].state = batches[b].state
           /\ batches'[b].slots = batches[b].slots
           /\ batches'[b].region = batches[b].region
           /\ (\E h \in handles' : h[1] = b) <=> (\E h \in handles : h[1] = b)
           /\ AbstractStatus(b) = "published" => \A p \in SlotPages(b) : icache'[p] = icache[p]
  PROVE  AbstractStatus(b)' = AbstractStatus(b) /\ AbstractFetched(b)' = AbstractFetched(b)
<1>1. AbstractStatus(b)' = AbstractStatus(b)
  BY DEF AbstractStatus
<1>2. CASE AbstractStatus(b) = "published"
  <2>1. b \in DOMAIN batches
    BY <1>2 DEF AbstractStatus
  <2>2. SlotPages(b)' = SlotPages(b)
    BY <2>1 DEF SlotPages, Touched
  <2>3. {icache[p] : p \in SlotPages(b)}' = {icache[p] : p \in SlotPages(b)}
    BY <1>2, <2>1, <2>2
  <2> QED BY <1>1, <1>2, <2>3 DEF AbstractFetched
<1>3. CASE AbstractStatus(b) # "published"
  BY <1>1, <1>3 DEF AbstractFetched
<1> QED BY <1>1, <1>2, <1>3

\* A batch with a handle is a published one.
LEMMA ViewFacts ==
  ASSUME IInv, NEW b \in Batches
  PROVE  /\ AbstractStatus(b) = "published" =>
              b \in DOMAIN batches /\ batches[b].state = "published"
         /\ b \in DOMAIN batches /\ batches[b].state = "open" => AbstractStatus(b) = "reserved"
         /\ b \notin DOMAIN batches => AbstractStatus(b) = "free"
         /\ AbstractStatus(b) # "published" => AbstractFetched(b) = {}
<1>1. ASSUME AbstractStatus(b) = "published"
      PROVE  b \in DOMAIN batches /\ batches[b].state = "published"
  BY <1>1 DEF AbstractStatus, IInv, HandlesOfPublished
<1> QED BY <1>1 DEF AbstractStatus, AbstractFetched

\* Making a reservation is the abstract Reserve.
LEMMA ReserveView ==
  ASSUME IInv, NEW r, r.state = "open", Len(batches) < MaxBatches,
         batches' = Append(batches, r), UNCHANGED <<handles, icache>>
  PROVE  Promise!Next
<1>1. PICK n \in Nat : n = Len(batches) /\ DOMAIN batches = 1..n /\ batches \in Seq(Reservation)
  BY BatchFacts DEF IInv, TypeOK
<1>2. PICK b \in Batches : b = n + 1
  BY <1>1, SizeAssumption DEF Batches
<1>3. /\ DOMAIN batches' = 1..b
      /\ \A c \in DOMAIN batches : batches'[c] = batches[c]
      /\ batches'[b] = r
      /\ b \notin DOMAIN batches
      /\ \A c \in Batches \ {b} : c \in DOMAIN batches' <=> c \in DOMAIN batches
  BY <1>1, <1>2 DEF Batches
<1>4. AbstractStatus(b) = "free" /\ AbstractFetched(b) = {}
  BY <1>3, ViewFacts
<1>5. AbstractStatus(b)' = "reserved"
  <2>1. b \in DOMAIN batches' /\ batches'[b].state = "open"
    BY <1>2, <1>3 DEF Batches
  <2> QED BY <2>1 DEF AbstractStatus
<1>6. AbstractFetched(b)' = {}
  BY <1>5 DEF AbstractFetched
<1>7. \A c \in Batches \ {b} : /\ AbstractStatus(c)' = AbstractStatus(c)
                               /\ AbstractFetched(c)' = AbstractFetched(c)
  BY <1>3, ViewKept
<1>8. Promise!Reserve(b)
  BY <1>4, <1>5, <1>6, <1>7, OneView DEF Promise!Reserve
<1> QED BY <1>8 DEF Promise!Next

\* The end of a publication is the abstract Publish: until then the processor's
\* view of the batch did not count, from then on it is one payload.
LEMMA ReturnView ==
  ASSUME IInv, Return
  PROVE  Promise!Next
<1>1. publish # Idle /\ publish.at = "done" /\ publish.payload \in Payloads
  BY DEF Return, At, Idle, IInv, TypeOK
<1>2. PICK b \in Batches : b = publish.batch /\ b \in DOMAIN batches
  BY <1>1, BatchFacts DEF IInv, PublishProgress
<1>3. PICK payload \in Payloads : payload = publish.payload
  BY <1>1
<1>4. /\ batches[b].state = "open"
      /\ 1 \in DOMAIN batches[b].slots
      /\ \A p \in SlotPages(b) : icache[p] = <<b, payload>>
  BY <1>1, <1>2, <1>3 DEF IInv, BatchLayout, PublishProgress, At
<1>5. /\ handles' = handles \cup {<<b, i>> : i \in DOMAIN batches[b].slots}
      /\ batches' = [batches EXCEPT ![b].state = "published"]
      /\ icache' = icache
  BY <1>2 DEF Return, memory
<1>6. /\ DOMAIN batches' = DOMAIN batches
      /\ \A c \in DOMAIN batches :
           /\ batches'[c].region = batches[c].region
           /\ batches'[c].slots = batches[c].slots
           /\ batches'[c].state = IF c = b THEN "published" ELSE batches[c].state
  BY <1>2, <1>5, SetState DEF IInv
<1>7. AbstractStatus(b) = "reserved"
  BY <1>2, <1>4, ViewFacts
<1>8. AbstractStatus(b)' = "published"
  <2>1. <<b, 1>> \in handles'
    BY <1>4, <1>5
  <2>2. \E h \in handles' : h[1] = b
    BY <2>1
  <2> QED BY <1>2, <1>6, <2>2 DEF AbstractStatus
<1>9. AbstractFetched(b)' = {<<b, payload>>}
  <2>1. SlotPages(b)' = SlotPages(b)
    BY <1>2, <1>6 DEF SlotPages, Touched
  <2>2. PICK p : p \in SlotPages(b)
    <3>1. batches[b].slots[1] \in Slot
      BY <1>2, <1>4, BatchFacts DEF IInv
    <3>2. Touched(batches[b].region, batches[b].slots[1].offset, batches[b].slots[1].size) # {}
      <4>1. PICK start \in Nat, size \in Nat \ {0} :
              start = batches[b].slots[1].offset /\ size = batches[b].slots[1].size
        BY <3>1 DEF Slot
      <4>2. start \div Page \in (start \div Page)..((start + size - 1) \div Page)
        <5>1. start + size - 1 \in Nat /\ start <= start + size - 1
          BY <4>1
        <5>2. start \div Page <= (start + size - 1) \div Page
          BY <5>1, PageAssumption, PageMonotonic
        <5>3. start \div Page \in Nat /\ (start + size - 1) \div Page \in Nat
          BY <5>1, PageAssumption, DivFacts
        <5> QED BY <5>2, <5>3
      <4>3. <<batches[b].region, start \div Page>> \in Touched(batches[b].region, start, size)
        BY <4>2 DEF Touched
      <4> QED BY <4>1, <4>3
    <3> QED BY <1>4, <3>2 DEF SlotPages
  <2>3. {icache'[q] : q \in SlotPages(b)} = {<<b, payload>>}
    BY <1>4, <1>5, <2>2
  <2> QED BY <1>8, <2>1, <2>3 DEF AbstractFetched
<1>10. \A c \in Batches \ {b} : /\ AbstractStatus(c)' = AbstractStatus(c)
                                /\ AbstractFetched(c)' = AbstractFetched(c)
  <2> SUFFICES ASSUME NEW c \in Batches \ {b}
               PROVE  /\ AbstractStatus(c)' = AbstractStatus(c)
                      /\ AbstractFetched(c)' = AbstractFetched(c)
    OBVIOUS
  <2>1. (\E h \in handles' : h[1] = c) <=> (\E h \in handles : h[1] = c)
    BY <1>5
  <2> QED BY <1>5, <1>6, <2>1, ViewKept
<1>11. <<b, payload>> \in Written
  BY DEF Written
<1>12. Promise!Publish(b, <<b, payload>>)
  BY <1>7, <1>8, <1>9, <1>10, OneView DEF Promise!Publish
<1> QED BY <1>11, <1>12 DEF Promise!Next

\* An abandoned reservation is retired.
LEMMA AbandonView ==
  ASSUME IInv, NEW b \in DOMAIN batches, Abandon(b)
  PROVE  Promise!Next
<1>1. /\ b \in Batches
      /\ batches[b].state = "open"
      /\ batches' = [batches EXCEPT ![b].state = "abandoned"]
      /\ handles' = handles
      /\ icache' = icache
  BY BatchFacts DEF Abandon, memory, IInv
<1>2. /\ DOMAIN batches' = DOMAIN batches
      /\ \A c \in DOMAIN batches :
           /\ batches'[c].region = batches[c].region
           /\ batches'[c].slots = batches[c].slots
           /\ batches'[c].state = IF c = b THEN "abandoned" ELSE batches[c].state
  BY <1>1, SetState DEF IInv
<1>3. AbstractStatus(b) = "reserved" /\ AbstractFetched(b) = {}
  BY <1>1, ViewFacts
<1>4. AbstractStatus(b)' = "retired"
  <2>1. ~\E h \in handles' : h[1] = b
    BY <1>1 DEF IInv, HandlesOfPublished
  <2>2. b \in DOMAIN batches' /\ batches'[b].state = "abandoned"
    BY <1>2
  <2> QED BY <2>1, <2>2 DEF AbstractStatus
<1>5. AbstractFetched(b)' = {}
  BY <1>4 DEF AbstractFetched
<1>6. \A c \in Batches \ {b} : /\ AbstractStatus(c)' = AbstractStatus(c)
                               /\ AbstractFetched(c)' = AbstractFetched(c)
  BY <1>1, <1>2, ViewKept
<1>7. Promise!Retire(b)
  BY <1>1, <1>3, <1>4, <1>5, <1>6, OneView DEF Promise!Retire
<1> QED BY <1>1, <1>7 DEF Promise!Next

\* The last handle of a batch retires it, another one changes nothing.
LEMMA DropHandleView ==
  ASSUME IInv, NEW h \in handles, DropHandle(h)
  PROVE  [Promise!Next]_(Promise!vars)
<1>1. PICK b \in Batches : b = h[1] /\ b \in DOMAIN batches /\ batches[b].state = "published"
  BY BatchFacts DEF IInv, HandlesOfPublished
<1>2. handles' = handles \ {h} /\ batches' = batches /\ icache' = icache
  BY DEF DropHandle, memory
<1>3. \A c \in Batches \ {b} : /\ AbstractStatus(c)' = AbstractStatus(c)
                               /\ AbstractFetched(c)' = AbstractFetched(c)
  BY <1>1, <1>2, ViewKept
<1>4. AbstractStatus(b) = "published"
  BY <1>1 DEF AbstractStatus
<1>5. CASE \E other \in handles' : other[1] = b
  <2>1. AbstractStatus(b)' = AbstractStatus(b) /\ AbstractFetched(b)' = AbstractFetched(b)
    BY <1>1, <1>2, <1>5, ViewKept
  <2>2. UNCHANGED Promise!vars
    BY <1>3, <2>1, SameView
  <2> QED BY <2>2
<1>6. CASE ~\E other \in handles' : other[1] = b
  <2>1. AbstractStatus(b)' = "retired"
    BY <1>1, <1>2, <1>6 DEF AbstractStatus
  <2>2. AbstractFetched(b)' = {}
    BY <2>1 DEF AbstractFetched
  <2>3. Promise!Retire(b)
    BY <1>3, <1>4, <2>1, <2>2, OneView DEF Promise!Retire
  <2> QED BY <2>3 DEF Promise!Next
<1> QED BY <1>5, <1>6

\* The provider calls inside a publication are invisible to the owners of batches.
LEMMA ProviderView ==
  ASSUME IInv, ProviderStep
  PROVE  UNCHANGED Promise!vars
<1>1. batches' = batches /\ handles' = handles
  BY DEF ProviderStep, MakeWritable, Copy, MakeExecutable, Restore, Flush
<1>2. ASSUME NEW b \in Batches
      PROVE  AbstractStatus(b)' = AbstractStatus(b) /\ AbstractFetched(b)' = AbstractFetched(b)
  <2>1. ASSUME AbstractStatus(b) = "published"
        PROVE  \A p \in SlotPages(b) : icache'[p] = icache[p]
    BY <2>1, ViewFacts, OthersUntouched
  <2> QED BY <1>1, <2>1, ViewKept
<1> QED BY <1>2, SameView

\* Every step of code memory is a step of CodeBatches or invisible in it.
LEMMA StepView == IInv /\ [Next]_vars => [Promise!Next]_(Promise!vars)
<1> SUFFICES ASSUME IInv, [Next]_vars PROVE [Promise!Next]_(Promise!vars)
  OBVIOUS
<1>1. ASSUME UNCHANGED <<batches, handles, icache>>
      PROVE  UNCHANGED Promise!vars
  BY <1>1, ViewKept, SameView
<1>2. ASSUME NEW sizes \in Requests, ReserveInArena(sizes) \/ ReserveMapping(sizes)
      PROVE  Promise!Next
  <2>1. Len(batches) < MaxBatches /\ UNCHANGED <<handles, icache>>
    BY <1>2, BatchFacts, SizeAssumption DEF ReserveInArena, ReserveMapping, memory, IInv
  <2>2. PICK r : r.state = "open" /\ batches' = Append(batches, r)
    <3>1. CASE ReserveInArena(sizes)
      BY <3>1 DEF ReserveInArena
    <3>2. CASE ReserveMapping(sizes)
      BY <3>2 DEF ReserveMapping
    <3> QED BY <1>2, <3>1, <3>2
  <2> QED BY <2>1, <2>2, ReserveView
<1>3. CASE ProviderStep
  BY <1>3, ProviderView
<1>4. CASE Return
  BY <1>4, ReturnView
<1>5. ASSUME NEW b \in DOMAIN batches, Abandon(b) PROVE Promise!Next
  BY <1>5, AbandonView
<1>6. ASSUME NEW h \in handles, DropHandle(h) PROVE [Promise!Next]_(Promise!vars)
  BY <1>6, DropHandleView
<1>7. CASE UNCHANGED vars
  BY <1>1, <1>7 DEF vars
<1>8. ASSUME NEW request \in Capacities, Create(request) PROVE UNCHANGED Promise!vars
  BY <1>1, <1>8 DEF Create, memory
<1>9. ASSUME NEW b \in DOMAIN batches, NEW payload \in Payloads, BeginPublish(b, payload)
      PROVE  UNCHANGED Promise!vars
  BY <1>1, <1>9 DEF BeginPublish, memory
<1>10. CASE DropArena
  BY <1>1, <1>10 DEF DropArena, memory
<1> QED BY <1>2, <1>3, <1>4, <1>5, <1>6, <1>7, <1>8, <1>9, <1>10 DEF Next, ProviderStep

\* Publication with its failing provider calls implements the atomic promise of
\* CodeBatches.
THEOREM PromiseKept == Spec => KeepsPromise
<1>1. Init => Promise!Init
  <2> SUFFICES ASSUME Init PROVE Promise!Init
    OBVIOUS
  <2>1. \A b \in Batches : AbstractStatus(b) = "free"
    BY DEF Init, AbstractStatus
  <2>2. \A b \in Batches : AbstractFetched(b) = {}
    BY <2>1 DEF AbstractFetched
  <2> QED BY <2>1, <2>2 DEF Promise!Init
<1>2. IInv /\ [Next]_vars => [Promise!Next]_(Promise!vars)
  BY StepView
<1> QED BY <1>1, <1>2, Invariance, PTL DEF Spec, KeepsPromise, Promise!Spec

=============================================================================
