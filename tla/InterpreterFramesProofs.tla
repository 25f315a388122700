----------------------- MODULE InterpreterFramesProofs -----------------------
(***************************************************************************)
(* Proofs about InterpreterFrames: the segmented stack of a frame keeps    *)
(* its blocks and marks whatever the program asks for, the lists of        *)
(* variadic functions follow the frames, and every frame runs its own code.*)
(* A frame's log is laid out along its segments: home says in which of     *)
(* them each entry lies.                                                   *)
(***************************************************************************)
EXTENDS InterpreterFrames, InductionFacts, SequenceTheorems, FiniteSetTheorems, TLAPS

Segment == [base : Nat, size : Nat, cursor : Nat]
Entry == [kind : {"block", "mark"}, address : Nat, size : Nat]
Mark == [segments : Nat, cursor : Nat]

MarkTable == UNION {[D -> Mark] : D \in SUBSET Nat}

FrameRecord ==
  [segments : Seq(Segment),
   marks : MarkTable,
   log : Seq(Entry),
   body : Bodies,
   pc : Bodies,
   unnamed : Nat \cup {-1},
   native : BOOLEAN,
   id : Nat,
   area : Nat,
   regions : Nat,
   natives : Nat]

\* Entry b lies in segment s and is not above its cursor.
Lies(b, s) == Within(b, s) /\ b.address >= s.base + s.cursor

\* Two segments with memory between them.
Gap(s, t) == s.base + s.size < t.base \/ t.base + t.size < s.base

Apart(g) == \A j, k \in 1..Len(g) : j # k => Gap(g[j], g[k])

\* Entries follow one another down the segments, without a hole.
Homes(g, l, home) ==
  /\ home \in [1..Len(l) -> 1..Len(g)]
  /\ \A i \in 1..Len(l) : Lies(l[i], g[home[i]])
  /\ \A i, h \in 1..Len(l) : i < h =>
       /\ home[i] <= home[h]
       /\ home[i] = home[h] =>
            /\ l[h].address + RoundUp(l[h].size) <= l[i].address
            /\ l[i].kind = "mark" /\ l[h].kind = "mark" => l[h].address < l[i].address

Filled(g, l, home) ==
  /\ \A i \in 1..Len(l) :
       l[i].address + RoundUp(l[i].size)
         = IF i > 1 /\ home[i - 1] = home[i] THEN l[i - 1].address
           ELSE g[home[i]].base + g[home[i]].size
  /\ \A i \in 1..Len(l) : (i = Len(l) \/ home[i + 1] # home[i]) =>
       l[i].address = g[home[i]].base + g[home[i]].cursor
  /\ \A k \in 1..Len(g) : (\A i \in 1..Len(l) : home[i] # k) => g[k].cursor = g[k].size
  /\ \A h \in 1..Len(l) : \A k \in 2..home[h] :
       \E i \in 1..h : l[i].kind = "block" /\ home[i] = k
  /\ IF Len(l) = 0 THEN Len(g) <= 1 ELSE home[Len(l)] = Len(g)

Marked(g, l, m, home) ==
  /\ DOMAIN m = {l[i].address : i \in {n \in 1..Len(l) : l[n].kind = "mark"}}
  /\ \A i \in 1..Len(l) : l[i].kind = "mark" =>
       m[l[i].address] = [segments |-> home[i], cursor |-> l[i].address - g[home[i]].base]

Layout(g, l, m, home) == Homes(g, l, home) /\ Filled(g, l, home) /\ Marked(g, l, m, home)

Laid(g, l, m) == \E home \in [1..Len(l) -> 1..Len(g)] : Layout(g, l, m, home)

Formed(g, l) ==
  /\ \A k \in 1..Len(g) :
       g[k].base \in Memory /\ g[k].size >= SegmentSize /\ g[k].cursor <= g[k].size
  /\ \A i \in 1..Len(l) : IF l[i].kind = "mark" THEN l[i].size = 0 ELSE l[i].size > 0

Sound(f) ==
  /\ Formed(f.segments, f.log)
  /\ Laid(f.segments, f.log, f.marks)
  /\ f.pc = f.body
  /\ f.unnamed \in program.unnamed

AllApart ==
  \A i, j \in DOMAIN frames : \A k \in DOMAIN frames[i].segments : \A l \in DOMAIN frames[j].segments :
    <<i, k>> # <<j, l>> => Gap(frames[i].segments[k], frames[j].segments[l])

VariadicArea == [area : Nat, capacity : Nat \cup {-1}]
NativeList == [area : Nat]

Scalars ==
  /\ program \in Programs
  /\ list \in [origin : {"none", "area", "native"}, area : Nat, at : Nat]
  /\ steps \in 0..InstructionLimit
  /\ failing \in BOOLEAN

Typed ==
  /\ frames \in Seq(FrameRecord)
  /\ Len(frames) <= DepthLimit
  /\ variadic_areas \in Seq(VariadicArea)
  /\ native_variadics \in Seq(NativeList)

\* The lists never got shorter while the frames were called.
Steady ==
  \A i, j \in DOMAIN frames : i < j =>
    frames[i].regions <= frames[j].regions /\ frames[i].natives <= frames[j].natives

FramesInv ==
  /\ Typed
  /\ \A i \in DOMAIN frames : Sound(frames[i])
  /\ AllApart
  /\ frames # <<>> => frames[1].body \notin JumpBodies
  /\ VariadicsAlive
  /\ Steady
  /\ \A i \in DOMAIN frames : frames[i].id \in Areas \cup {0} /\ frames[i].area \in Areas \cup {0}

IInv == Scalars /\ FramesInv

-----------------------------------------------------------------------------
(* Sequences and rounding.                                                 *)

\* What a list of segments consists of.
LEMMA SegmentsTyped ==
  ASSUME NEW g \in Seq(Segment)
  PROVE  /\ Len(g) \in Nat
         /\ DOMAIN g = 1..Len(g)
         /\ \A k \in 1..Len(g) : g[k] \in Segment
BY LenProperties, ElementOfSeq

\* What a log consists of.
LEMMA LogTyped ==
  ASSUME NEW l \in Seq(Entry)
  PROVE  /\ Len(l) \in Nat
         /\ DOMAIN l = 1..Len(l)
         /\ \A i \in 1..Len(l) : l[i] \in Entry
BY LenProperties, ElementOfSeq

\* The parts of an entry are numbers and a kind.
LEMMA EntryTyped ==
  ASSUME NEW l \in Seq(Entry), NEW i \in 1..Len(l)
  PROVE  l[i].address \in Nat /\ l[i].size \in Nat /\ l[i].kind \in {"block", "mark"}
BY LogTyped DEF Entry

\* The parts of a segment are numbers.
LEMMA SegmentTyped ==
  ASSUME NEW g \in Seq(Segment), NEW k \in 1..Len(g)
  PROVE  g[k].base \in Nat /\ g[k].size \in Nat /\ g[k].cursor \in Nat
BY SegmentsTyped DEF Segment

\* The home of an entry is a segment of the frame.
LEMMA HomeTyped ==
  ASSUME NEW g \in Seq(Segment), NEW l \in Seq(Entry), NEW home, Homes(g, l, home),
         NEW i \in 1..Len(l)
  PROVE  home[i] \in 1..Len(g) /\ home[i] \in Nat
<1>1. home \in [1..Len(l) -> 1..Len(g)]
  BY DEF Homes
<1>2. home[i] \in 1..Len(g)
  BY <1>1
<1> QED BY <1>2

\* Rounding up loses nothing, and leaves nothing nothing.
LEMMA RoundUpFacts ==
  /\ \A n \in Nat : RoundUp(n) \in Nat /\ RoundUp(n) >= n
  /\ RoundUp(0) = 0
<1>1. PICK u \in Nat \ {0} : u = Unit
  BY StackAssumption
<1>2. ASSUME NEW n \in Nat
      PROVE  RoundUp(n) \in Nat /\ RoundUp(n) >= n
  <2>1. PICK a \in Nat : a = n + u - 1
    BY <1>1
  <2>2. PICK q \in Nat : q = a \div u
    BY <1>1
  <2>3. /\ a = u * (a \div u) + (a % u)
        /\ a % u \in 0..(u - 1)
    BY <1>1
  <2>4. q * u = a - (a % u)
    BY <2>2, <2>3, <1>1
  <2>5. q * u \in Nat /\ q * u >= n
    BY <2>1, <2>3, <2>4, <1>1
  <2>6. RoundUp(n) = q * u
    BY <1>1, <2>1, <2>2 DEF RoundUp
  <2> QED BY <2>5, <2>6
<1>3. RoundUp(0) = 0
  <2>1. (u - 1) \div u = 0
    BY <1>1
  <2>2. 0 + u - 1 = u - 1 /\ 0 * u = 0
    BY <1>1
  <2> QED BY <1>1, <2>1, <2>2 DEF RoundUp
<1> QED BY <1>2, <1>3

-----------------------------------------------------------------------------
(* A new entry at the bottom of the stack.                                 *)

\* Segments g2 are g with one more below, or with less left in the last one, and
\* entry b lies at their bottom, directly under what was there.
Extended(g, g2, b) ==
  /\ Len(g2) = Len(g) \/ Len(g2) = Len(g) + 1
  /\ Len(g2) >= 1
  /\ \A k \in 1..Len(g) :
       /\ g2[k].base = g[k].base /\ g2[k].size = g[k].size
       /\ k < Len(g2) => g2[k].cursor = g[k].cursor
  /\ b.address = g2[Len(g2)].base + g2[Len(g2)].cursor
  /\ b.address + RoundUp(b.size)
       = IF Len(g2) = Len(g) THEN g[Len(g)].base + g[Len(g)].cursor
         ELSE g2[Len(g2)].base + g2[Len(g2)].size
  /\ Len(g2) > 1 /\ Len(g2) # Len(g) => b.kind = "block"

\* b does not repeat the mark that is last in l.
NewMark(l, b) ==
  Len(l) > 0 /\ l[Len(l)].kind = "mark" /\ b.kind = "mark" => l[Len(l)].address # b.address

\* What l holds after b was appended.
LEMMA LogAppended ==
  ASSUME NEW l \in Seq(Entry), NEW b \in Entry
  PROVE  /\ Append(l, b) \in Seq(Entry)
         /\ Len(Append(l, b)) = Len(l) + 1
         /\ \A i \in 1..Len(l) : Append(l, b)[i] = l[i]
         /\ Append(l, b)[Len(l) + 1] = b
BY AppendProperties

\* A new entry at the bottom leaves every other one where it lies (allocate, save).
LEMMA HomesExtended ==
  ASSUME NEW g \in Seq(Segment), NEW g2 \in Seq(Segment), NEW l \in Seq(Entry), NEW b \in Entry,
         NEW home, NEW home2, NEW N \in Nat, N = Len(l),
         Homes(g, l, home), Formed(g, l), Filled(g, l, home), Extended(g, g2, b), NewMark(l, b),
         Formed(g2, Append(l, b)),
         home2 = [i \in 1..(N + 1) |-> IF i = N + 1 THEN Len(g2) ELSE home[i]]
  PROVE  Homes(g2, Append(l, b), home2)
<1> DEFINE l2 == Append(l, b)
<1>1. Len(l2) = N + 1 /\ (\A i \in 1..N : l2[i] = l[i]) /\ l2[N + 1] = b
  BY LogAppended
<1>2. /\ Len(g) \in Nat /\ Len(g2) \in Nat
      /\ \A k \in 1..Len(g) : g[k] \in Segment
      /\ \A k \in 1..Len(g2) : g2[k] \in Segment
      /\ \A i \in 1..N : l[i] \in Entry
  BY SegmentsTyped, LogTyped
<1>3. home \in [1..N -> 1..Len(g)]
  BY DEF Homes
<1>4. home2 \in [1..(N + 1) -> 1..Len(g2)]
  BY <1>2, <1>3 DEF Extended
<1>5. home2[N + 1] = Len(g2) /\ \A i \in 1..N : home2[i] = home[i] /\ home[i] \in 1..Len(g)
  BY <1>3
<1> HIDE DEF l2
<1>6. /\ \A k \in 1..Len(g) : g[k].base \in Nat /\ g[k].size \in Nat /\ g[k].cursor \in Nat
      /\ \A k \in 1..Len(g2) : g2[k].base \in Nat /\ g2[k].size \in Nat /\ g2[k].cursor \in Nat
      /\ b.address \in Nat /\ b.size \in Nat
      /\ \A i \in 1..N : l[i].address \in Nat /\ l[i].size \in Nat
  BY <1>2 DEF Segment, Entry
<1>7. RoundUp(b.size) \in Nat /\ RoundUp(b.size) >= b.size
  BY <1>6, RoundUpFacts
<1>8. ASSUME NEW i \in 1..N
      PROVE  /\ Lies(l[i], g[home[i]])
             /\ g2[home[i]].base = g[home[i]].base
             /\ g2[home[i]].size = g[home[i]].size
             /\ home[i] < Len(g2) => g2[home[i]].cursor = g[home[i]].cursor
  BY <1>5 DEF Homes, Extended
<1>9. \A i \in 1..N : home[i] = Len(g2) =>
        /\ Len(g2) = Len(g)
        /\ l[i].address >= b.address + RoundUp(b.size)
  BY <1>2, <1>5, <1>6, <1>8 DEF Extended, Lies
<1>10. \A i \in 1..(N + 1) : Lies(l2[i], g2[home2[i]])
  <2>1. ASSUME NEW i \in 1..N
        PROVE  Lies(l[i], g2[home[i]])
    <3>1. CASE home[i] = Len(g2)
      <4>1. l[i].address >= b.address + RoundUp(b.size) /\ home[i] \in 1..Len(g) /\ Len(g2) = Len(g)
        BY <1>5, <1>9, <3>1
      <4>2. b.address = g2[home[i]].base + g2[home[i]].cursor
        BY <3>1 DEF Extended
      <4>3. g2[home[i]].base + g2[home[i]].cursor <= l[i].address
        <5>1. l[i].address \in Nat /\ b.address \in Nat
          BY <1>6
        <5> QED BY <1>7, <4>1, <4>2, <5>1
      <4>4. Within(l[i], g2[home[i]])
        BY <1>8 DEF Lies, Within
      <4>5. l[i].address \in Nat /\ g2[home[i]].base \in Nat /\ g2[home[i]].cursor \in Nat
        BY <1>6, <4>1
      <4> QED BY <4>3, <4>4, <4>5 DEF Lies
    <3>2. CASE home[i] # Len(g2)
      <4>1. home[i] < Len(g2)
        <5>1. Len(g) <= Len(g2) /\ home[i] \in 1..Len(g)
          BY <1>2, <1>5 DEF Extended
        <5> QED BY <1>2, <3>2, <5>1
      <4> QED BY <1>8, <4>1 DEF Lies, Within
    <3> QED BY <3>1, <3>2
  <2>2. Lies(b, g2[Len(g2)])
    <3>1. Len(g2) \in 1..Len(g2) /\ (Len(g2) = Len(g) => Len(g) \in 1..Len(g))
      BY <1>2 DEF Extended
    <3>2. b.address + RoundUp(b.size) <= g2[Len(g2)].base + g2[Len(g2)].size
      <4>1. CASE Len(g2) = Len(g)
        <5>1. g[Len(g)].cursor <= g[Len(g)].size
          BY <3>1, <4>1 DEF Formed
        <5> QED BY <1>6, <3>1, <4>1, <5>1 DEF Extended
      <4>2. CASE Len(g2) # Len(g)
        BY <1>6, <1>7, <3>1, <4>2 DEF Extended
      <4> QED BY <4>1, <4>2
    <3>3. /\ b.address = g2[Len(g2)].base + g2[Len(g2)].cursor
          /\ g2[Len(g2)].base \in Nat /\ g2[Len(g2)].size \in Nat /\ g2[Len(g2)].cursor \in Nat
      BY <1>6, <3>1 DEF Extended
    <3>4. b.address \in Nat /\ b.size \in Nat
      BY <1>6
    <3> DEFINE t == g2[Len(g2)]
    <3>5. t.base <= b.address /\ b.address >= t.base + t.cursor
      BY <3>3
    <3>6. b.address + b.size <= t.base + t.size
      <4>1. PICK r \in Nat : r = RoundUp(b.size) /\ r >= b.size
        BY <1>7
      <4>2. PICK e \in Nat : e = t.base + t.size
        BY <3>3
      <4>3. b.address + r <= e
        BY <3>2, <4>1, <4>2
      <4> QED BY <3>4, <4>1, <4>2, <4>3
    <3> QED BY <3>5, <3>6 DEF Lies, Within
  <2>3. \A i \in 1..(N + 1) : i = N + 1 \/ i \in 1..N
    OBVIOUS
  <2> QED BY <1>1, <1>5, <2>1, <2>2, <2>3
<1>11. ASSUME NEW i \in 1..N, home[i] = Len(g2), l[i].kind = "mark", b.kind = "mark"
       PROVE  b.address < l[i].address
  <2>1. N \in 1..N /\ home[N] = Len(g2) /\ N > 0
    BY <1>9, <1>11 DEF Filled
  <2>2. l[N].address >= b.address
    BY <1>6, <1>7, <1>9, <2>1
  <2>3. CASE i = N
    BY <1>6, <1>11, <2>1, <2>2, <2>3 DEF NewMark
  <2>4. CASE i < N
    <3>1. /\ l[N].address + RoundUp(l[N].size) <= l[i].address
          /\ l[N].kind = "mark" => l[N].address < l[i].address
      BY <1>11, <2>1, <2>4 DEF Homes
    <3>2. l[N].kind = "mark" \/ RoundUp(l[N].size) > 0
      <4>1. l[N].kind = "mark" \/ l[N].size > 0
        BY <2>1 DEF Formed
      <4>2. RoundUp(l[N].size) \in Nat /\ RoundUp(l[N].size) >= l[N].size /\ l[N].size \in Nat
        BY <1>6, <2>1, RoundUpFacts
      <4> QED BY <4>1, <4>2
    <3>3. RoundUp(l[N].size) \in Nat
      BY <1>6, <2>1, RoundUpFacts
    <3> QED BY <1>6, <2>1, <2>2, <3>1, <3>2, <3>3
  <2> QED BY <2>3, <2>4
<1>12. ASSUME NEW i \in 1..(N + 1), NEW h \in 1..(N + 1), i < h
       PROVE  /\ home2[i] <= home2[h]
              /\ home2[i] = home2[h] =>
                   /\ l2[h].address + RoundUp(l2[h].size) <= l2[i].address
                   /\ l2[i].kind = "mark" /\ l2[h].kind = "mark" => l2[h].address < l2[i].address
  <2>1. i \in 1..N
    BY <1>12
  <2>2. CASE h = N + 1
    <3>1. home[i] <= Len(g2)
      BY <1>2, <1>5, <2>1 DEF Extended
    <3>2. home[i] = Len(g2) => b.address + RoundUp(b.size) <= l[i].address
      BY <1>6, <1>7, <1>9, <2>1
    <3> QED BY <1>1, <1>5, <1>11, <2>1, <2>2, <3>1, <3>2
  <2>3. CASE h \in 1..N
    BY <1>1, <1>5, <1>12, <2>1, <2>3 DEF Homes
  <2> QED BY <2>2, <2>3
<1> QED BY <1>1, <1>4, <1>10, <1>12 DEF Homes, l2

\* A new entry directly under the last one leaves no hole.
LEMMA FilledExtended ==
  ASSUME NEW g \in Seq(Segment), NEW g2 \in Seq(Segment), NEW l \in Seq(Entry), NEW b \in Entry,
         NEW home, NEW home2, NEW N \in Nat, N = Len(l),
         Homes(g, l, home), Filled(g, l, home), Extended(g, g2, b),
         home2 = [i \in 1..(N + 1) |-> IF i = N + 1 THEN Len(g2) ELSE home[i]]
  PROVE  Filled(g2, Append(l, b), home2)
<1> DEFINE l2 == Append(l, b)
           n == Len(g)
           n2 == Len(g2)
<1>1. Len(l2) = N + 1 /\ (\A i \in 1..N : l2[i] = l[i]) /\ l2[N + 1] = b
  BY LogAppended
<1>2. n \in Nat /\ n2 \in Nat /\ (n2 = n \/ n2 = n + 1) /\ n2 >= 1
  BY SegmentsTyped DEF Extended
<1>3. home \in [1..N -> 1..n]
  BY DEF Homes
<1>4. home2[N + 1] = n2 /\ \A i \in 1..N : home2[i] = home[i] /\ home[i] \in 1..n
  BY <1>3
<1>5. \A k \in 1..n : /\ g2[k].base = g[k].base /\ g2[k].size = g[k].size
                      /\ k < n2 => g2[k].cursor = g[k].cursor
  BY DEF Extended
<1>6. IF N = 0 THEN n <= 1 ELSE home[N] = n
  BY DEF Filled
<1>7. /\ b.address = g2[n2].base + g2[n2].cursor
      /\ b.address + RoundUp(b.size)
           = IF n2 = n THEN g[n].base + g[n].cursor ELSE g2[n2].base + g2[n2].size
      /\ n2 > 1 /\ n2 # n => b.kind = "block"
  BY DEF Extended
<1> HIDE DEF l2, n, n2
<1>8. ASSUME NEW i \in 1..(N + 1)
      PROVE  l2[i].address + RoundUp(l2[i].size)
               = IF i > 1 /\ home2[i - 1] = home2[i] THEN l2[i - 1].address
                 ELSE g2[home2[i]].base + g2[home2[i]].size
  <2>1. CASE i \in 1..N
    <3>1. i > 1 => i - 1 \in 1..N
      BY <2>1
    <3>2. l[i].address + RoundUp(l[i].size)
            = IF i > 1 /\ home[i - 1] = home[i] THEN l[i - 1].address
              ELSE g[home[i]].base + g[home[i]].size
      BY <2>1 DEF Filled
    <3>3. l2[i] = l[i] /\ home2[i] = home[i]
      BY <1>1, <1>4, <2>1
    <3>4. i > 1 => l2[i - 1] = l[i - 1] /\ home2[i - 1] = home[i - 1]
      BY <1>1, <1>4, <3>1
    <3>5. g2[home[i]].base = g[home[i]].base /\ g2[home[i]].size = g[home[i]].size
      BY <1>4, <1>5, <2>1
    <3> QED BY <3>2, <3>3, <3>4, <3>5
  <2>2. CASE i = N + 1 /\ N > 0
    <3>1. i - 1 = N /\ i > 1 /\ N \in 1..N /\ home[N] = n
      BY <1>6, <2>2
    <3>2. l[N].address = g[n].base + g[n].cursor
      BY <3>1 DEF Filled
    <3>3. home2[i - 1] = n /\ home2[i] = n2 /\ l2[i] = b /\ l2[i - 1] = l[N]
      BY <1>1, <1>4, <2>2, <3>1
    <3> QED BY <1>7, <3>1, <3>2, <3>3
  <2>3. CASE i = N + 1 /\ N = 0
    <3>1. n2 = n => n = 1
      BY <1>2, <1>6, <2>3
    <3>2. n2 = n => g[1].cursor = g[1].size
      BY <1>2, <2>3, <3>1 DEF Filled, n
    <3>3. n2 = n => g2[n].base = g[n].base /\ g2[n].size = g[n].size
      BY <1>5, <3>1
    <3> QED BY <1>1, <1>4, <1>7, <2>3, <3>1, <3>2, <3>3
  <2> QED BY <2>1, <2>2, <2>3
<1>9. ASSUME NEW i \in 1..(N + 1), i = N + 1 \/ home2[i + 1] # home2[i]
      PROVE  l2[i].address = g2[home2[i]].base + g2[home2[i]].cursor
  <2>1. CASE i = N + 1
    BY <1>1, <1>4, <1>7, <2>1
  <2>2. CASE i \in 1..N
    <3>1. home2[i + 1] # home[i]
      BY <1>4, <1>9, <2>2
    <3>2. home[i] < n2 /\ (i = N \/ home[i + 1] # home[i])
      <4>1. CASE i = N
        BY <1>2, <1>4, <2>2, <3>1, <4>1
      <4>2. CASE i < N
        <5>1. i + 1 \in 1..N /\ home[i] <= home[i + 1] /\ home[i + 1] \in 1..n /\ home[i] \in 1..n
          BY <1>4, <2>2, <4>2 DEF Homes
        <5> QED BY <1>2, <1>4, <3>1, <5>1
      <4> QED BY <2>2, <4>1, <4>2
    <3>3. l[i].address = g[home[i]].base + g[home[i]].cursor
      BY <2>2, <3>2 DEF Filled
    <3> QED BY <1>1, <1>4, <1>5, <2>2, <3>2, <3>3
  <2> QED BY <2>1, <2>2
<1>10. ASSUME NEW k \in 1..n2, \A i \in 1..(N + 1) : home2[i] # k
       PROVE  g2[k].cursor = g2[k].size
  <2>1. k # n2 /\ \A i \in 1..N : home[i] # k
    BY <1>4, <1>10
  <2>2. k \in 1..n /\ k < n2
    BY <1>2, <2>1
  <2>3. g[k].cursor = g[k].size
    BY <2>1, <2>2 DEF Filled, n
  <2> QED BY <1>5, <2>2, <2>3
<1>11. ASSUME NEW h \in 1..(N + 1), NEW k \in 2..home2[h]
       PROVE  \E i \in 1..h : l2[i].kind = "block" /\ home2[i] = k
  <2>1. ASSUME NEW d \in 1..N, d <= h, k \in 2..home[d]
        PROVE  \E i \in 1..h : l2[i].kind = "block" /\ home2[i] = k
    <3>1. PICK i \in 1..d : l[i].kind = "block" /\ home[i] = k
      BY <2>1 DEF Filled
    <3>2. i \in 1..N /\ i \in 1..h
      BY <2>1
    <3> QED BY <1>1, <1>4, <3>1, <3>2
  <2>2. CASE h \in 1..N
    BY <1>4, <2>1, <2>2
  <2>3. CASE h = N + 1 /\ k <= n
    <3>1. N # 0 /\ home[N] = n
      BY <1>2, <1>6, <2>3
    <3> QED BY <1>2, <2>1, <2>3, <3>1
  <2>4. CASE h = N + 1 /\ ~(k <= n)
    <3>1. k = n2 /\ n2 > 1 /\ n2 # n
      BY <1>2, <1>4, <2>4
    <3> QED BY <1>1, <1>4, <1>7, <2>4, <3>1
  <2> QED BY <2>2, <2>3, <2>4
<1>12. Len(l2) # 0 /\ home2[Len(l2)] = n2
  BY <1>1, <1>4
<1> QED BY <1>1, <1>8, <1>9, <1>10, <1>11, <1>12 DEF Filled, l2, n2

\* An address belongs to one segment only.
LEMMA OneSegment ==
  ASSUME NEW g \in Seq(Segment), Apart(g), NEW b \in Entry, NEW c \in Entry,
         NEW j \in 1..Len(g), NEW k \in 1..Len(g), Within(b, g[j]), Within(c, g[k]),
         b.address = c.address
  PROVE  j = k
<1>1. g[j] \in Segment /\ g[k] \in Segment
  BY SegmentsTyped
<1> SUFFICES ASSUME j # k PROVE FALSE
  OBVIOUS
<1>2. Gap(g[j], g[k])
  BY DEF Apart
<1>3. /\ g[j].base \in Nat /\ g[j].size \in Nat /\ g[k].base \in Nat /\ g[k].size \in Nat
      /\ b.address \in Nat /\ b.size \in Nat /\ c.size \in Nat
  BY <1>1 DEF Segment, Entry
<1>4. /\ g[j].base <= b.address /\ b.address + b.size <= g[j].base + g[j].size
      /\ g[k].base <= b.address /\ b.address + c.size <= g[k].base + g[k].size
  BY DEF Within
<1>5. ASSUME NEW x \in Nat, NEW y \in Nat, NEW u \in Nat, NEW v \in Nat, NEW p \in Nat,
             NEW q \in Nat, NEW r \in Nat,
             x <= p, p + q <= x + y, u <= p, p + r <= u + v
      PROVE  ~(x + y < u) /\ ~(u + v < x)
  BY <1>5
<1>6. ~(g[j].base + g[j].size < g[k].base) /\ ~(g[k].base + g[k].size < g[j].base)
  BY <1>3, <1>4, <1>5
<1> QED BY <1>2, <1>6 DEF Gap

\* No two marks of a log are at the same address.
LEMMA MarksDistinct ==
  ASSUME NEW g \in Seq(Segment), Apart(g), NEW l \in Seq(Entry), NEW home, Homes(g, l, home),
         NEW i \in 1..Len(l), NEW h \in 1..Len(l), l[i].kind = "mark", l[h].kind = "mark",
         l[i].address = l[h].address
  PROVE  i = h
<1>1. l[i] \in Entry /\ l[h] \in Entry /\ home[i] \in 1..Len(g) /\ home[h] \in 1..Len(g)
  BY LogTyped DEF Homes
<1>2. home[i] = home[h]
  BY <1>1, OneSegment DEF Homes, Lies
<1>3. ~(i < h) /\ ~(h < i)
  BY <1>1, <1>2 DEF Homes, Entry
<1> QED BY <1>3

\* The marks after entry b was appended.
MarksAfter(m, m2, g2, b) ==
  IF b.kind = "block" THEN m2 = m
  ELSE /\ DOMAIN m2 = DOMAIN m \cup {b.address}
       /\ \A a \in DOMAIN m : a # b.address => m2[a] = m[a]
       /\ m2[b.address] = [segments |-> Len(g2), cursor |-> g2[Len(g2)].cursor]

\* A new entry at the bottom has a mark of its own, or changes none.
LEMMA MarkedExtended ==
  ASSUME NEW g \in Seq(Segment), NEW g2 \in Seq(Segment), NEW l \in Seq(Entry), NEW b \in Entry,
         NEW home, NEW home2, NEW N \in Nat, N = Len(l), NEW m, NEW m2,
         Homes(g, l, home), Marked(g, l, m, home), Extended(g, g2, b), MarksAfter(m, m2, g2, b),
         Apart(g2), Homes(g2, Append(l, b), home2),
         home2 = [i \in 1..(N + 1) |-> IF i = N + 1 THEN Len(g2) ELSE home[i]]
  PROVE  Marked(g2, Append(l, b), m2, home2)
<1> DEFINE l2 == Append(l, b)
<1>1. l2 \in Seq(Entry) /\ Len(l2) = N + 1 /\ (\A i \in 1..N : l2[i] = l[i]) /\ l2[N + 1] = b
  BY LogAppended
<1>2. home \in [1..N -> 1..Len(g)]
  BY DEF Homes
<1>3. home2[N + 1] = Len(g2) /\ \A i \in 1..N : home2[i] = home[i] /\ home[i] \in 1..Len(g)
  BY <1>2
<1>4. b.kind \in {"block", "mark"}
  BY DEF Entry
<1>5. ASSUME NEW i \in 1..N, l[i].kind = "mark", b.kind = "mark"
      PROVE  l[i].address # b.address
  <2>1. Homes(g2, l2, home2)
    OBVIOUS
  <2>2. i \in 1..Len(l2) /\ N + 1 \in 1..Len(l2) /\ i # N + 1
    BY <1>1
  <2> HIDE DEF l2
  <2> QED BY <1>1, <1>5, <2>1, <2>2, MarksDistinct
<1> HIDE DEF l2
<1>6. DOMAIN m2 = {l2[i].address : i \in {n \in 1..(N + 1) : l2[n].kind = "mark"}}
  <2>1. DOMAIN m = {l[i].address : i \in {n \in 1..N : l[n].kind = "mark"}}
    BY DEF Marked
  <2>2. {n \in 1..(N + 1) : l2[n].kind = "mark"}
          = {n \in 1..N : l[n].kind = "mark"} \cup (IF b.kind = "mark" THEN {N + 1} ELSE {})
    BY <1>1
  <2> DEFINE old == {n \in 1..N : l[n].kind = "mark"}
  <2>3. \A i \in old : l2[i].address = l[i].address
    BY <1>1
  <2> HIDE DEF old
  <2>4. CASE b.kind = "block"
    <3>1. {n \in 1..(N + 1) : l2[n].kind = "mark"} = old
      BY <2>2, <2>4 DEF old
    <3>2. m2 = m
      BY <2>4 DEF MarksAfter
    <3>3. DOMAIN m = {l[i].address : i \in old}
      BY <2>1 DEF old
    <3> QED BY <2>3, <3>1, <3>2, <3>3
  <2>5. CASE b.kind = "mark"
    <3>1. {n \in 1..(N + 1) : l2[n].kind = "mark"} = old \cup {N + 1}
      BY <2>2, <2>5 DEF old
    <3>2. DOMAIN m2 = DOMAIN m \cup {b.address}
      BY <2>5 DEF MarksAfter
    <3>3. DOMAIN m = {l[i].address : i \in old}
      BY <2>1 DEF old
    <3>4. l2[N + 1].address = b.address
      BY <1>1
    <3>5. {l2[i].address : i \in old \cup {N + 1}} = {l2[i].address : i \in old} \cup {l2[N + 1].address}
      OBVIOUS
    <3>6. {l2[i].address : i \in old} = {l[i].address : i \in old}
      BY <2>3
    <3> QED BY <3>1, <3>2, <3>3, <3>4, <3>5, <3>6
  <2> QED BY <1>4, <2>4, <2>5
<1>7. ASSUME NEW i \in 1..(N + 1), l2[i].kind = "mark"
      PROVE  m2[l2[i].address]
               = [segments |-> home2[i], cursor |-> l2[i].address - g2[home2[i]].base]
  <2>1. CASE i \in 1..N
    <3>1. /\ l2[i] = l[i] /\ home2[i] = home[i] /\ l[i].kind = "mark"
          /\ g2[home[i]].base = g[home[i]].base
      BY <1>1, <1>3, <1>7, <2>1 DEF Extended
    <3>2. m[l[i].address] = [segments |-> home[i], cursor |-> l[i].address - g[home[i]].base]
      BY <2>1, <3>1 DEF Marked
    <3>3. l[i].address \in DOMAIN m
      BY <2>1, <3>1 DEF Marked
    <3>4. m2[l[i].address] = m[l[i].address]
      BY <1>4, <1>5, <2>1, <3>1, <3>3 DEF MarksAfter
    <3> QED BY <3>1, <3>2, <3>4
  <2>2. CASE i = N + 1
    <3>1. l2[i] = b /\ home2[i] = Len(g2) /\ b.kind = "mark"
      BY <1>1, <1>3, <1>7, <2>2
    <3>2. m2[b.address] = [segments |-> Len(g2), cursor |-> g2[Len(g2)].cursor]
      BY <3>1 DEF MarksAfter
    <3>3. g2[Len(g2)].cursor = b.address - g2[Len(g2)].base
      <4>1. Len(g2) \in 1..Len(g2)
        BY SegmentsTyped DEF Extended
      <4>2. g2[Len(g2)] \in Segment
        BY <4>1, SegmentsTyped
      <4>3. b.address = g2[Len(g2)].base + g2[Len(g2)].cursor
        BY DEF Extended
      <4> QED BY <4>2, <4>3 DEF Segment
    <3> QED BY <3>1, <3>2, <3>3
  <2> QED BY <2>1, <2>2
<1> QED BY <1>1, <1>6, <1>7 DEF Marked, l2

\* A new entry keeps the stack laid out.
LEMMA LaidExtended ==
  ASSUME NEW g \in Seq(Segment), NEW g2 \in Seq(Segment), NEW l \in Seq(Entry), NEW b \in Entry,
         NEW m, NEW m2, Formed(g, l), Laid(g, l, m), Formed(g2, Append(l, b)), Apart(g2),
         Extended(g, g2, b), NewMark(l, b), MarksAfter(m, m2, g2, b)
  PROVE  Laid(g2, Append(l, b), m2)
<1>1. PICK N \in Nat : N = Len(l)
  BY LogTyped
<1>2. PICK home : Layout(g, l, m, home)
  BY DEF Laid
<1>3. Homes(g, l, home) /\ Filled(g, l, home) /\ Marked(g, l, m, home)
  BY <1>2 DEF Layout
<1>4. PICK home2 : home2 = [i \in 1..(N + 1) |-> IF i = N + 1 THEN Len(g2) ELSE home[i]]
  OBVIOUS
<1>5. Homes(g2, Append(l, b), home2)
  BY <1>1, <1>3, <1>4, HomesExtended
<1>6. Filled(g2, Append(l, b), home2)
  BY <1>1, <1>3, <1>4, FilledExtended
<1>7. Marked(g2, Append(l, b), m2, home2)
  BY <1>1, <1>3, <1>4, <1>5, MarkedExtended
<1>8. home2 \in [1..Len(Append(l, b)) -> 1..Len(g2)]
  BY <1>5 DEF Homes
<1> QED BY <1>5, <1>6, <1>7, <1>8 DEF Layout, Laid

-----------------------------------------------------------------------------
(* The stack is cut where a mark was made.                                 *)

\* Segments g2 are those of g up to segment k, which has its cursor at c.
Cut(g, g2, k, c) ==
  /\ Len(g2) = k
  /\ \A j \in 1..k :
       /\ g2[j].base = g[j].base /\ g2[j].size = g[j].size
       /\ j < k => g2[j].cursor = g[j].cursor
  /\ g2[k].cursor = c

\* Entry p is a mark in segment k with its cursor at c.
MarkAt(g, l, home, p, k, c) ==
  home[p] = k /\ l[p].address = g[k].base + c /\ l[p].kind = "mark" /\ c \in Nat

\* home2 is home up to entry p.
Until(home, home2, p) == home2 = [i \in 1..p |-> home[i]]

\* l2 is l up to entry p.
Prefix(l, l2, p) == Len(l2) = p /\ \A i \in 1..p : l2[i] = l[i]

\* Entries above a mark keep their place when what is below it goes (restore).
LEMMA HomesCut ==
  ASSUME NEW g \in Seq(Segment), NEW g2 \in Seq(Segment), NEW l \in Seq(Entry), NEW l2 \in Seq(Entry),
         NEW home, NEW home2, NEW p \in 1..Len(l), NEW k, NEW c,
         Homes(g, l, home), MarkAt(g, l, home, p, k, c), Cut(g, g2, k, c), Prefix(l, l2, p),
         Until(home, home2, p)
  PROVE  Homes(g2, l2, home2)
<1> USE DEF MarkAt, Until
<1>1. Len(l) \in Nat /\ Len(g) \in Nat /\ p \in Nat /\ k \in 1..Len(g)
  BY SegmentsTyped, LogTyped DEF Homes
<1>2. \A i \in 1..p : i \in 1..Len(l) /\ home2[i] = home[i] /\ home[i] \in 1..Len(g)
  <2>1. \A i \in 1..p : i \in 1..Len(l)
    BY <1>1
  <2>2. home \in [1..Len(l) -> 1..Len(g)]
    BY DEF Homes
  <2> QED BY <2>1, <2>2
<1>3. \A i \in 1..p : home[i] \in 1..k
  <2>1. \A i \in 1..p : i < p => home[i] <= home[p]
    BY <1>2 DEF Homes
  <2> QED BY <1>1, <1>2, <2>1
<1>4. home2 \in [1..p -> 1..k]
  BY <1>3
<1>5. ASSUME NEW i \in 1..p
      PROVE  Lies(l2[i], g2[home2[i]])
  <2>1. Lies(l[i], g[home[i]]) /\ l2[i] = l[i] /\ home2[i] = home[i] /\ home[i] \in 1..k
    BY <1>2, <1>3 DEF Homes, Prefix
  <2>2. g2[home[i]].base = g[home[i]].base /\ g2[home[i]].size = g[home[i]].size
    BY <2>1 DEF Cut
  <2>3. CASE home[i] < k
    BY <2>1, <2>2, <2>3 DEF Cut, Lies, Within
  <2>4. CASE home[i] = k
    <3>1. l[i].address >= l[p].address
      <4>1. CASE i = p
        <5>1. l[p].address \in Nat
          BY LogTyped DEF Entry
        <5> QED BY <4>1, <5>1
      <4>2. CASE i < p
        <5>1. l[p].address + RoundUp(l[p].size) <= l[i].address
          BY <1>2, <2>4, <4>2 DEF Homes
        <5>2. l[p] \in Entry /\ l[i] \in Entry
          BY <1>2, LogTyped
        <5>3. l[p].address \in Nat /\ l[i].address \in Nat /\ RoundUp(l[p].size) \in Nat
          BY <5>2, RoundUpFacts DEF Entry
        <5> QED BY <5>1, <5>3, SMTT(30)
      <4> QED BY <1>1, <4>1, <4>2
    <3>2. g2[home[i]].base + g2[home[i]].cursor = l[p].address
      BY <2>2, <2>4 DEF Cut
    <3> QED BY <2>1, <2>2, <3>1, <3>2 DEF Lies, Within
  <2> QED BY <1>1, <2>1, <2>3, <2>4
<1>6. ASSUME NEW i \in 1..p, NEW h \in 1..p, i < h
      PROVE  /\ home2[i] <= home2[h]
             /\ home2[i] = home2[h] =>
                  /\ l2[h].address + RoundUp(l2[h].size) <= l2[i].address
                  /\ l2[i].kind = "mark" /\ l2[h].kind = "mark" => l2[h].address < l2[i].address
  <2>1. l2[i] = l[i] /\ l2[h] = l[h]
    BY DEF Prefix
  <2> QED BY <1>2, <1>6, <2>1 DEF Homes
<1>7. Len(l2) = p /\ Len(g2) = k
  BY DEF Prefix, Cut
<1> QED BY <1>4, <1>5, <1>6, <1>7 DEF Homes

\* What is left above a mark has no hole.
LEMMA FilledCut ==
  ASSUME NEW g \in Seq(Segment), NEW g2 \in Seq(Segment), NEW l \in Seq(Entry), NEW l2 \in Seq(Entry),
         NEW home, NEW home2, NEW p \in 1..Len(l), NEW k, NEW c,
         Homes(g, l, home), Filled(g, l, home), MarkAt(g, l, home, p, k, c),
         Cut(g, g2, k, c), Prefix(l, l2, p),
         home2 = [i \in 1..p |-> home[i]]
  PROVE  Filled(g2, l2, home2)
<1> USE DEF MarkAt
<1>1. Len(l) \in Nat /\ Len(g) \in Nat /\ p \in Nat /\ p >= 1 /\ k \in 1..Len(g)
  BY SegmentsTyped, LogTyped DEF Homes
<1>2. home2 \in [1..p -> 1..k]
  <2>1. \A i \in 1..p : i \in 1..Len(l)
    BY <1>1
  <2>2. home \in [1..Len(l) -> 1..Len(g)]
    BY DEF Homes
  <2>3. \A i \in 1..p : i < p => home[i] <= home[p]
    BY <2>1 DEF Homes
  <2>4. ASSUME NEW i \in 1..p
        PROVE  home[i] \in 1..k
    <3>1. i \in 1..Len(l) /\ (i = p \/ i < p)
      BY <1>1, <2>1
    <3>2. home[i] \in 1..Len(g)
      BY <2>2, <3>1
    <3>3. home[i] <= k
      BY <1>1, <2>3, <3>1
    <3> QED BY <1>1, <3>2, <3>3
  <2> QED BY <2>4
<1>3. \A i \in 1..p : i \in 1..Len(l) /\ home2[i] = home[i] /\ home[i] \in 1..k /\ l2[i] = l[i]
  BY <1>1, <1>2 DEF Prefix
<1>4. \A j \in 1..k : /\ g2[j].base = g[j].base /\ g2[j].size = g[j].size
                      /\ j < k => g2[j].cursor = g[j].cursor
  BY DEF Cut
<1>5. Len(l2) = p /\ Len(g2) = k /\ g2[k].cursor = c
  BY DEF Prefix, Cut
<1>6. ASSUME NEW i \in 1..p
      PROVE  l2[i].address + RoundUp(l2[i].size)
               = IF i > 1 /\ home2[i - 1] = home2[i] THEN l2[i - 1].address
                 ELSE g2[home2[i]].base + g2[home2[i]].size
  <2>1. i > 1 => i - 1 \in 1..p
    OBVIOUS
  <2>2. l[i].address + RoundUp(l[i].size)
          = IF i > 1 /\ home[i - 1] = home[i] THEN l[i - 1].address
            ELSE g[home[i]].base + g[home[i]].size
    BY <1>3 DEF Filled
  <2>3. l2[i] = l[i] /\ home2[i] = home[i] /\ home[i] \in 1..k
    BY <1>3
  <2>4. i > 1 => l2[i - 1] = l[i - 1] /\ home2[i - 1] = home[i - 1]
    BY <1>3, <2>1
  <2>5. g2[home[i]].base = g[home[i]].base /\ g2[home[i]].size = g[home[i]].size
    BY <1>4, <2>3
  <2> QED BY <2>2, <2>3, <2>4, <2>5
<1>7. ASSUME NEW i \in 1..p, i = p \/ home2[i + 1] # home2[i]
      PROVE  l2[i].address = g2[home2[i]].base + g2[home2[i]].cursor
  <2>1. CASE i = p
    <3>1. k \in 1..k /\ g2[k].base = g[k].base
      BY <1>1, <1>4
    <3> QED BY <1>3, <1>5, <2>1, <3>1
  <2>2. CASE i < p
    <3>1. i + 1 \in 1..p
      BY <1>1, <2>2
    <3>2. home[i + 1] # home[i] /\ home[i] \in 1..k /\ home[i + 1] \in 1..k
      BY <1>3, <1>7, <2>2, <3>1
    <3>3. home[i] <= home[i + 1]
      <4>1. i \in 1..Len(l) /\ i + 1 \in 1..Len(l) /\ i < i + 1
        BY <1>3, <3>1
      <4> QED BY <4>1 DEF Homes
    <3>4. home[i] < k
      BY <1>1, <3>2, <3>3
    <3>5. l[i].address = g[home[i]].base + g[home[i]].cursor
      BY <1>3, <3>2 DEF Filled
    <3> QED BY <1>3, <1>4, <3>2, <3>4, <3>5
  <2> QED BY <1>1, <2>1, <2>2
<1>8. ASSUME NEW j \in 1..k, \A i \in 1..p : home2[i] # j
      PROVE  g2[j].cursor = g2[j].size
  <2>1. j # k
    BY <1>1, <1>3, <1>8
  <2>2. \A i \in 1..Len(l) : home[i] # j
    <3>1. \A i \in 1..Len(l) : i \in 1..p \/ p < i
      BY <1>1
    <3>2. \A i \in 1..Len(l) : p < i => home[p] <= home[i] /\ home[i] \in 1..Len(g)
      BY DEF Homes
    <3> QED BY <1>1, <1>3, <1>8, <2>1, <3>1, <3>2
  <2>3. g[j].cursor = g[j].size
    <3>1. j \in 1..Len(g)
      BY <1>1
    <3> QED BY <2>2, <3>1 DEF Filled
  <2>4. j < k
    BY <1>1, <2>1
  <2> QED BY <1>4, <2>3, <2>4
<1>9. ASSUME NEW h \in 1..p, NEW j \in 2..home2[h]
      PROVE  \E i \in 1..h : l2[i].kind = "block" /\ home2[i] = j
  <2>1. h \in 1..Len(l) /\ j \in 2..home[h]
    BY <1>3
  <2>2. PICK i \in 1..h : l[i].kind = "block" /\ home[i] = j
    BY <2>1 DEF Filled
  <2>3. i \in 1..p
    BY <1>1
  <2> QED BY <1>3, <2>2, <2>3
<1>10. p # 0 /\ home2[p] = k
  BY <1>1, <1>3
<1>11. Len(l2) # 0 /\ home2[Len(l2)] = Len(g2)
  BY <1>5, <1>10
<1>12. \A i \in 1..Len(l2) : (i = Len(l2) \/ home2[i + 1] # home2[i]) =>
         l2[i].address = g2[home2[i]].base + g2[home2[i]].cursor
  BY <1>5, <1>7
<1>13. \A j \in 1..Len(g2) : (\A i \in 1..Len(l2) : home2[i] # j) => g2[j].cursor = g2[j].size
  BY <1>5, <1>8
<1>14. \A h \in 1..Len(l2) : \A j \in 2..home2[h] :
         \E i \in 1..h : l2[i].kind = "block" /\ home2[i] = j
  BY <1>5, <1>9
<1> QED BY <1>5, <1>6, <1>11, <1>12, <1>13, <1>14 DEF Filled

\* The marks that a restore keeps are those made no later than its own.
LEMMA MarksOlder ==
  ASSUME NEW g \in Seq(Segment), NEW l \in Seq(Entry), NEW m, NEW home,
         Homes(g, l, home), Marked(g, l, m, home),
         NEW p \in 1..Len(l), l[p].kind = "mark", NEW i \in 1..Len(l), l[i].kind = "mark"
  PROVE  Older(m[l[i].address], m[l[p].address]) <=> i <= p
<1>1. /\ l[i].address \in Nat /\ l[p].address \in Nat
      /\ home[i] \in 1..Len(g) /\ home[p] \in 1..Len(g)
      /\ i \in Nat /\ p \in Nat
  BY EntryTyped, HomeTyped
<1>2. home[i] \in Nat /\ home[p] \in Nat /\ g[home[i]].base \in Nat /\ g[home[p]].base \in Nat
  BY <1>1, SegmentTyped, HomeTyped
<1>3. /\ m[l[i].address] = [segments |-> home[i], cursor |-> l[i].address - g[home[i]].base]
      /\ m[l[p].address] = [segments |-> home[p], cursor |-> l[p].address - g[home[p]].base]
  BY DEF Marked
<1>4. Older(m[l[i].address], m[l[p].address])
        <=> ~(home[i] > home[p] \/ (home[i] = home[p] /\ l[i].address < l[p].address))
  <2>1. PICK a, b, x, y : /\ a = m[l[i].address] /\ b = m[l[p].address]
                          /\ x = l[i].address - g[home[i]].base
                          /\ y = l[p].address - g[home[p]].base
    OBVIOUS
  <2>2. a.segments = home[i] /\ a.cursor = x /\ b.segments = home[p] /\ b.cursor = y
    BY <1>3, <2>1
  <2>3. home[i] = home[p] => (x < y <=> l[i].address < l[p].address)
    BY <1>1, <1>2, <2>1
  <2> QED BY <2>1, <2>2, <2>3 DEF Older
<1>5. /\ i < p => home[i] <= home[p] /\ (home[i] = home[p] => l[p].address < l[i].address)
      /\ p < i => home[p] <= home[i] /\ (home[i] = home[p] => l[i].address < l[p].address)
  BY DEF Homes
<1> QED BY <1>1, <1>2, <1>4, <1>5

\* Exactly the marks of the entries that are left survive a restore.
LEMMA MarkedCut ==
  ASSUME NEW g \in Seq(Segment), NEW g2 \in Seq(Segment), NEW l \in Seq(Entry), NEW l2 \in Seq(Entry),
         NEW home, NEW home2, NEW p \in 1..Len(l), NEW k, NEW c, NEW m, NEW m2,
         Homes(g, l, home), Marked(g, l, m, home), l[p].kind = "mark",
         \A i \in 1..p : home[i] \in 1..k, Cut(g, g2, k, c), Prefix(l, l2, p),
         home2 = [i \in 1..p |-> home[i]],
         m2 = [a \in {x \in DOMAIN m : Older(m[x], m[l[p].address])} |-> m[a]]
  PROVE  Marked(g2, l2, m2, home2)
<1>1. Len(l) \in Nat /\ p \in Nat
  BY LogTyped
<1>2. Len(l2) = p /\ \A i \in 1..p : i \in 1..Len(l) /\ l2[i] = l[i] /\ home2[i] = home[i]
  BY <1>1 DEF Prefix
<1> DEFINE old == {n \in 1..Len(l) : l[n].kind = "mark"}
           kept == {n \in 1..Len(l2) : l2[n].kind = "mark"}
<1>3. kept = {n \in old : n <= p}
  BY <1>1, <1>2
<1>4. \A n \in old : Older(m[l[n].address], m[l[p].address]) <=> n <= p
  BY MarksOlder
<1>5. DOMAIN m = {l[i].address : i \in old}
  BY DEF Marked
<1>6. DOMAIN m2 = {x \in DOMAIN m : Older(m[x], m[l[p].address])}
  OBVIOUS
<1>7. \A n \in kept : n \in 1..p
  BY <1>2
<1> HIDE DEF old, kept
<1>8. DOMAIN m2 = {l2[i].address : i \in kept}
  <2>1. \A i \in kept : l2[i].address = l[i].address
    BY <1>2, <1>7
  <2>2. {l2[i].address : i \in kept} = {l[i].address : i \in kept}
    BY <2>1
  <2>3. ASSUME NEW x \in DOMAIN m, Older(m[x], m[l[p].address])
        PROVE  x \in {l[i].address : i \in kept}
    <3>1. PICK i \in old : x = l[i].address
      BY <1>5
    <3>2. i \in kept
      BY <1>3, <1>4, <2>3, <3>1
    <3> QED BY <3>1, <3>2
  <2>4. ASSUME NEW i \in kept
        PROVE  l[i].address \in DOMAIN m /\ Older(m[l[i].address], m[l[p].address])
    BY <1>3, <1>4, <1>5
  <2>5. {x \in DOMAIN m : Older(m[x], m[l[p].address])} = {l[i].address : i \in kept}
    BY <2>3, <2>4
  <2> QED BY <1>6, <2>2, <2>5
<1>9. ASSUME NEW i \in 1..Len(l2), l2[i].kind = "mark"
      PROVE  m2[l2[i].address]
               = [segments |-> home2[i], cursor |-> l2[i].address - g2[home2[i]].base]
  <2>1. i \in 1..p /\ i \in kept
    BY <1>2, <1>9 DEF kept
  <2>2. l2[i].address \in DOMAIN m2
    BY <1>8, <2>1
  <2>3. m2[l2[i].address] = m[l2[i].address]
    BY <1>6, <2>2
  <2>4. l2[i] = l[i] /\ home2[i] = home[i] /\ i \in 1..Len(l) /\ home[i] \in 1..k
    BY <1>2, <2>1
  <2>5. m[l[i].address] = [segments |-> home[i], cursor |-> l[i].address - g[home[i]].base]
    BY <1>9, <2>4 DEF Marked
  <2>6. g2[home[i]].base = g[home[i]].base
    BY <2>4 DEF Cut
  <2> QED BY <2>3, <2>4, <2>5, <2>6
<1> QED BY <1>8, <1>9 DEF Marked, kept

\* An address in the table of marks is that of one mark of the log.
LEMMA MarkFound ==
  ASSUME NEW g \in Seq(Segment), Apart(g), NEW l \in Seq(Entry), NEW m, Laid(g, l, m),
         NEW address \in DOMAIN m
  PROVE  \E p \in 1..Len(l) :
           /\ l[p].kind = "mark" /\ l[p].address = address
           /\ \A i \in 1..Len(l) : l[i].kind = "mark" /\ l[i].address = address => i = p
<1>1. PICK home : Homes(g, l, home) /\ Marked(g, l, m, home)
  BY DEF Laid, Layout
<1>2. PICK p \in 1..Len(l) : l[p].kind = "mark" /\ l[p].address = address
  BY <1>1 DEF Marked
<1>3. \A i \in 1..Len(l) : l[i].kind = "mark" /\ l[i].address = address => i = p
  BY <1>1, <1>2, MarksDistinct
<1> QED BY <1>2, <1>3

\* m2 holds the marks of m that survive the restoration of mark.
Keeps(m, m2, mark) == m2 = [a \in {x \in DOMAIN m : Older(m[x], mark)} |-> m[a]]

\* Restoring a mark leaves what was there when it was made.
LEMMA LaidCut ==
  ASSUME NEW g \in Seq(Segment), NEW g2 \in Seq(Segment), NEW l \in Seq(Entry), NEW l2 \in Seq(Entry),
         NEW m, NEW m2, NEW p \in 1..Len(l), l[p].kind = "mark", Laid(g, l, m),
         Cut(g, g2, m[l[p].address].segments, m[l[p].address].cursor), Prefix(l, l2, p),
         Keeps(m, m2, m[l[p].address])
  PROVE  Laid(g2, l2, m2)
<1>1. PICK home : Homes(g, l, home) /\ Filled(g, l, home) /\ Marked(g, l, m, home)
  BY DEF Laid, Layout
<1>2. PICK k, c : k = m[l[p].address].segments /\ c = m[l[p].address].cursor
  OBVIOUS
<1>3. m[l[p].address] = [segments |-> home[p], cursor |-> l[p].address - g[home[p]].base]
  BY <1>1 DEF Marked
<1>4. home[p] = k /\ c = l[p].address - g[k].base
  BY <1>2, <1>3
<1>5. k \in 1..Len(g) /\ Lies(l[p], g[k]) /\ l[p] \in Entry /\ g[k] \in Segment
  BY <1>1, <1>4, LogTyped, SegmentsTyped DEF Homes
<1>6. c \in Nat /\ l[p].address = g[k].base + c
  <2>1. l[p].address \in Nat /\ g[k].base \in Nat
    BY <1>5, EntryTyped, SegmentTyped
  <2>2. g[k].base <= l[p].address
    BY <1>5 DEF Lies, Within
  <2> QED BY <1>4, <2>1, <2>2
<1>7. PICK home2 : home2 = [i \in 1..p |-> home[i]]
  OBVIOUS
<1>8. Cut(g, g2, k, c) /\ MarkAt(g, l, home, p, k, c)
  BY <1>2, <1>4, <1>6 DEF MarkAt
<1>9. Homes(g2, l2, home2)
  <2>1. Homes(g, l, home) /\ MarkAt(g, l, home, p, k, c) /\ Cut(g, g2, k, c) /\ Until(home, home2, p)
    BY <1>1, <1>7, <1>8 DEF Until
  <2> QED BY <2>1, HomesCut
<1>10. Filled(g2, l2, home2)
  BY <1>1, <1>7, <1>8, FilledCut
<1>11. Len(l2) = p /\ Len(g2) = k
  BY <1>8 DEF Prefix, Cut
<1>12. home2 \in [1..p -> 1..k]
  BY <1>9, <1>11 DEF Homes
<1>13. \A i \in 1..p : home[i] \in 1..k
  BY <1>7, <1>12
<1>14. Marked(g2, l2, m2, home2)
  BY <1>1, <1>7, <1>8, <1>13, MarkedCut DEF Keeps
<1> QED BY <1>9, <1>10, <1>14, <1>11, <1>12 DEF Laid, Layout

-----------------------------------------------------------------------------
(* The first segment of a stack.                                           *)

\* A frame begins with an empty stack.
LEMMA LaidEmpty == Laid(<<>>, <<>>, <<>>)
<1>1. Len(<<>>) = 0 /\ 1..0 = {}
  OBVIOUS
<1>2. <<>> \in [1..0 -> 1..0]
  OBVIOUS
<1>3. DOMAIN <<>> = {}
  OBVIOUS
<1>4. Homes(<<>>, <<>>, <<>>)
  BY <1>1, <1>2 DEF Homes
<1>5. Filled(<<>>, <<>>, <<>>)
  BY <1>1 DEF Filled
<1>6. Marked(<<>>, <<>>, <<>>, <<>>)
  BY <1>1, <1>3 DEF Marked
<1> QED BY <1>1, <1>2, <1>4, <1>5, <1>6 DEF Laid, Layout

\* The first segment changes nothing for a stack that is empty.
LEMMA LaidOpened ==
  ASSUME NEW g \in Seq(Segment), NEW l \in Seq(Entry), NEW m, NEW g2 \in Seq(Segment),
         Len(g) = 0, Laid(g, l, m), Len(g2) = 1, g2[1].cursor = g2[1].size
  PROVE  Len(l) = 0 /\ Laid(g2, l, m)
<1>1. PICK home : Homes(g, l, home) /\ Filled(g, l, home) /\ Marked(g, l, m, home)
  BY DEF Laid, Layout
<1>2. Len(l) = 0
  <2>1. home \in [1..Len(l) -> {}]
    BY <1>1 DEF Homes
  <2>2. Len(l) \in Nat
    BY LogTyped
  <2>3. ~(1 \in 1..Len(l))
    BY <2>1
  <2> QED BY <2>2, <2>3
<1>3. 1..Len(l) = {} /\ home \in [1..Len(l) -> 1..Len(g2)]
  BY <1>1, <1>2 DEF Homes
<1>4. Homes(g2, l, home)
  BY <1>3 DEF Homes
<1>5. Filled(g2, l, home)
  <2>1. \A k \in 1..Len(g2) : k = 1
    OBVIOUS
  <2> QED BY <1>2, <1>3, <2>1 DEF Filled
<1>6. Marked(g2, l, m, home)
  BY <1>1, <1>3 DEF Marked
<1> QED BY <1>2, <1>3, <1>4, <1>5, <1>6 DEF Laid, Layout

-----------------------------------------------------------------------------
(* Frames.                                                                 *)

\* Frame f2 is f with another stack.
Reworked(f, f2, g2, m2, l2) ==
  /\ f2 \in FrameRecord
  /\ f2.segments = g2 /\ f2.marks = m2 /\ f2.log = l2
  /\ f2.body = f.body /\ f2.pc = f.pc
  /\ f2.unnamed = f.unnamed /\ f2.native = f.native
  /\ f2.id = f.id /\ f2.area = f.area
  /\ f2.regions = f.regions /\ f2.natives = f.natives

Stacked(f) == f \in FrameRecord /\ Sound(f) /\ Apart(f.segments)

SamePlace(s, t) == s.base = t.base /\ s.size = t.size

\* Segment s is clear of the stacks of all frames.
Clear(s) == \A t \in LiveSegments : Gap(s, t)

\* The segments of g2 are those of g, but for a new last one.
Follows(g, g2) ==
  \A k \in 1..Len(g2) :
    \/ k \in 1..Len(g) /\ SamePlace(g2[k], g[k])
    \/ k = Len(g) + 1 /\ Clear(g2[k])

\* What the steps of a frame on its stack have in common.
Restacked(f, f2) ==
  /\ Stacked(f2)
  /\ Follows(f.segments, f2.segments)
  /\ Reworked(f, f2, f2.segments, f2.marks, f2.log)

\* What a frame consists of.
LEMMA FrameTyped ==
  ASSUME NEW f \in FrameRecord
  PROVE  /\ f.segments \in Seq(Segment) /\ f.marks \in MarkTable /\ f.log \in Seq(Entry)
         /\ f.body \in Bodies /\ f.pc \in Bodies /\ f.unnamed \in Nat \cup {-1}
         /\ f.native \in BOOLEAN /\ f.id \in Nat /\ f.area \in Nat
         /\ f.regions \in Nat /\ f.natives \in Nat
BY DEF FrameRecord

\* An update of the stack leaves the rest of the frame alone.
LEMMA FrameReworked ==
  ASSUME NEW f \in FrameRecord, NEW g2 \in Seq(Segment), NEW m2 \in MarkTable, NEW l2 \in Seq(Entry)
  PROVE  Reworked(f, [f EXCEPT !.segments = g2, !.marks = m2, !.log = l2], g2, m2, l2)
BY DEF Reworked, FrameRecord

\* What each program offers.
LEMMA ProgramTyped ==
  ASSUME program \in Programs
  PROVE  /\ Memory \subseteq Nat /\ Sizes \subseteq Nat
         /\ program.arguments \subseteq Sizes \cup {-1}
         /\ program.unnamed \subseteq Nat \cup {-1}
         /\ InstructionLimit \in Nat \ {0} /\ DepthLimit \in Nat \ {0}
BY StackAssumption DEF Memory, Sizes, InstructionLimit, DepthLimit

\* A new segment is large enough for what it is opened for.
LEMMA SegmentForFacts ==
  ASSUME NEW r \in Nat
  PROVE  SegmentFor(r) \in Nat /\ SegmentFor(r) >= r /\ SegmentFor(r) >= SegmentSize /\ SegmentSize \in Nat
BY StackAssumption DEF SegmentFor

\* A segment opened at one of the places is clear.
LEMMA PlacedClear ==
  ASSUME NEW n \in Nat, NEW base \in Places(n), NEW s, s.base = base, s.size = n
  PROVE  base \in Memory /\ Clear(s)
BY DEF Places, Clear, Gap

\* h is g with a new segment of size n at base.
Grown(g, h, n, base) ==
  /\ Len(h) = Len(g) + 1
  /\ \A k \in 1..Len(g) : h[k] = g[k]
  /\ h[Len(h)] = [base |-> base, size |-> n, cursor |-> n]

\* g2 is h with r bytes less above the cursor of its last segment.
Lowered(h, g2, r) ==
  /\ Len(g2) = Len(h)
  /\ \A k \in 1..Len(h) :
       /\ SamePlace(g2[k], h[k])
       /\ k < Len(h) => g2[k] = h[k]
  /\ g2[Len(h)].cursor = h[Len(h)].cursor - r

\* Opening a segment adds it at the end.
LEMMA SegmentsGrown ==
  ASSUME NEW g \in Seq(Segment), NEW n \in Nat, NEW base \in Nat
  PROVE  LET h == Append(g, [base |-> base, size |-> n, cursor |-> n])
         IN  h \in Seq(Segment) /\ Grown(g, h, n, base)
<1>1. [base |-> base, size |-> n, cursor |-> n] \in Segment
  BY DEF Segment
<1> QED BY <1>1, AppendProperties DEF Grown

\* Lowering the cursor changes the last segment only.
LEMMA SegmentsLowered ==
  ASSUME NEW h \in Seq(Segment), Len(h) > 0, NEW r \in Nat, r <= h[Len(h)].cursor
  PROVE  LET g2 == [h EXCEPT ![Len(h)].cursor = @ - r]
         IN  g2 \in Seq(Segment) /\ Lowered(h, g2, r)
<1>1. Len(h) \in 1..Len(h) /\ DOMAIN h = 1..Len(h) /\ Len(h) \in Nat
  BY SegmentsTyped
<1>2. h[Len(h)] \in Segment
  BY <1>1, SegmentsTyped
<1> DEFINE last == [h[Len(h)] EXCEPT !.cursor = @ - r]
           g2 == [h EXCEPT ![Len(h)] = last]
<1>3. h[Len(h)].cursor - r \in Nat
  BY <1>2 DEF Segment
<1>4. /\ last \in Segment /\ SamePlace(last, h[Len(h)])
      /\ last.cursor = h[Len(h)].cursor - r
  BY <1>2, <1>3 DEF Segment, SamePlace
<1> HIDE DEF last
<1>5. g2 \in Seq(Segment) /\ Len(g2) = Len(h)
  BY <1>1, <1>4, ExceptSeq
<1>6. \A k \in 1..Len(h) : g2[k] = IF k = Len(h) THEN last ELSE h[k]
  BY <1>1
<1> HIDE DEF g2
<1>7. Lowered(h, g2, r)
  <2>1. ASSUME NEW k \in 1..Len(h), k < Len(h)
        PROVE  g2[k] = h[k]
    <3>1. k # Len(h)
      <4>1. PICK n \in Nat : n = Len(h)
        BY <1>1
      <4>2. k < n
        BY <2>1, <4>1
      <4>3. k \in Nat
        BY <1>1
      <4> QED BY <4>1, <4>2, <4>3
    <3> QED BY <1>6, <3>1
  <2>2. g2[Len(h)] = last
    BY <1>1, <1>6
  <2>3. \A k \in 1..Len(h) : SamePlace(g2[k], h[k])
    BY <1>1, <1>4, <1>6 DEF SamePlace
  <2> QED BY <1>4, <1>5, <2>1, <2>2, <2>3 DEF Lowered
<1> QED BY <1>5, <1>7 DEF last, g2

Shaped(g) ==
  \A k \in 1..Len(g) :
    g[k].base \in Memory /\ g[k].size >= SegmentSize /\ g[k].cursor <= g[k].size

\* Segments stay apart from each other when the last one changes or a free one is added.
LEMMA ApartFollows ==
  ASSUME NEW g \in Seq(Segment), NEW g2 \in Seq(Segment), Apart(g), Follows(g, g2),
         \A k \in 1..Len(g) : g[k] \in LiveSegments
  PROVE  Apart(g2)
<1>1. ASSUME NEW j \in 1..Len(g2), NEW k \in 1..Len(g2), j # k,
             j \in 1..Len(g) /\ SamePlace(g2[j], g[j])
      PROVE  Gap(g2[j], g2[k])
  <2>1. CASE k \in 1..Len(g) /\ SamePlace(g2[k], g[k])
    <3>1. Gap(g[j], g[k])
      BY <1>1, <2>1 DEF Apart
    <3> QED BY <1>1, <2>1, <3>1 DEF Gap, SamePlace
  <2>2. CASE Clear(g2[k])
    <3>1. Gap(g2[k], g[j])
      BY <1>1, <2>2 DEF Clear
    <3> QED BY <1>1, <3>1 DEF Gap, SamePlace
  <2> QED BY <2>1, <2>2 DEF Follows
<1>2. ASSUME NEW j \in 1..Len(g2), NEW k \in 1..Len(g2), j # k
      PROVE  Gap(g2[j], g2[k])
  <2>1. CASE j \in 1..Len(g) /\ SamePlace(g2[j], g[j])
    BY <1>1, <1>2, <2>1
  <2>2. CASE k \in 1..Len(g) /\ SamePlace(g2[k], g[k])
    <3>1. Gap(g2[k], g2[j])
      BY <1>1, <1>2, <2>2
    <3> QED BY <3>1 DEF Gap
  <2> QED BY <1>2, <2>1, <2>2 DEF Follows
<1> QED BY <1>2 DEF Apart

\* A frame gets a new entry at the bottom of its stack.
LEMMA FrameExtended ==
  ASSUME NEW f, NEW f2, NEW g2, NEW m2, NEW b \in Entry, Stacked(f),
         Reworked(f, f2, g2, m2, Append(f.log, b)), Shaped(g2), Follows(f.segments, g2),
         \A k \in 1..Len(f.segments) : f.segments[k] \in LiveSegments,
         Extended(f.segments, g2, b), NewMark(f.log, b), MarksAfter(f.marks, m2, g2, b),
         IF b.kind = "mark" THEN b.size = 0 ELSE b.size > 0
  PROVE  Restacked(f, f2)
<1>1. PICK g, l, m :
        g = f.segments /\ l = f.log /\ m = f.marks /\ g \in Seq(Segment) /\ l \in Seq(Entry)
  BY FrameTyped DEF Stacked
<1>2. g2 \in Seq(Segment)
  BY FrameTyped DEF Reworked
<1>3. Formed(g, l) /\ Laid(g, l, m) /\ Apart(g)
  BY <1>1 DEF Stacked, Sound
<1>4. Apart(g2)
  BY <1>1, <1>2, <1>3, ApartFollows
<1>5. Formed(g2, Append(l, b))
  <2>1. ASSUME NEW i \in 1..Len(Append(l, b))
        PROVE  IF Append(l, b)[i].kind = "mark" THEN Append(l, b)[i].size = 0
               ELSE Append(l, b)[i].size > 0
    <3>1. i = Len(l) + 1 \/ i \in 1..Len(l)
      BY LogAppended, LogTyped
    <3>2. CASE i \in 1..Len(l)
      <4>1. Append(l, b)[i] = l[i]
        BY <3>2, LogAppended
      <4> QED BY <1>3, <3>2, <4>1 DEF Formed
    <3>3. CASE i = Len(l) + 1
      BY <3>3, LogAppended
    <3> QED BY <3>1, <3>2, <3>3
  <2> QED BY <2>1 DEF Formed, Shaped
<1>6. Laid(g2, Append(l, b), m2)
  BY <1>1, <1>2, <1>3, <1>4, <1>5, LaidExtended
<1>7. Sound(f2)
  BY <1>1, <1>5, <1>6 DEF Sound, Reworked, Stacked
<1> QED BY <1>4, <1>7 DEF Restacked, Stacked, Reworked

\* A cursor that moved takes no new memory.
LEMMA FollowsItself ==
  ASSUME NEW g, NEW g2, Len(g2) = Len(g), \A k \in 1..Len(g) : SamePlace(g2[k], g[k])
  PROVE  Follows(g, g2)
BY DEF Follows

\* A segment opened at a free place is clear of the others.
LEMMA GrownFollows ==
  ASSUME NEW g \in Seq(Segment), NEW h \in Seq(Segment), NEW g2 \in Seq(Segment),
         NEW n \in Nat, NEW base \in Places(n), NEW r \in Nat, r <= n, n >= SegmentSize,
         Shaped(g), Grown(g, h, n, base), Lowered(h, g2, r)
  PROVE  Follows(g, g2) /\ Shaped(g2)
<1>1. Len(g) \in Nat /\ Len(h) = Len(g) + 1 /\ Len(g2) = Len(h)
  BY SegmentsTyped DEF Grown, Lowered
<1>2. PICK N \in Nat : N = Len(g)
  BY <1>1
<1>3. /\ g2[N + 1].base = base /\ g2[N + 1].size = n /\ g2[N + 1].cursor = n - r
  <2>1. h[N + 1] = [base |-> base, size |-> n, cursor |-> n]
    BY <1>1, <1>2 DEF Grown
  <2>2. SamePlace(g2[N + 1], h[N + 1]) /\ g2[N + 1].cursor = h[N + 1].cursor - r
    BY <1>1, <1>2 DEF Lowered
  <2> QED BY <2>1, <2>2 DEF SamePlace
<1>4. base \in Memory /\ Clear(g2[N + 1])
  BY <1>3, PlacedClear
<1>5. ASSUME NEW k \in 1..N
      PROVE  g2[k] = g[k]
  <2>1. k \in 1..Len(h) /\ k < Len(h) /\ k \in 1..Len(g)
    BY <1>1, <1>2
  <2> QED BY <2>1 DEF Grown, Lowered
<1>6. \A k \in 1..Len(g2) : k = N + 1 \/ k \in 1..N
  BY <1>1, <1>2
<1>7. Follows(g, g2)
  BY <1>2, <1>4, <1>5, <1>6 DEF Follows, SamePlace
<1>8. Shaped(g2)
  <2>1. n - r <= n
    OBVIOUS
  <2> QED BY <1>2, <1>3, <1>4, <1>5, <1>6, <2>1 DEF Shaped
<1> QED BY <1>7, <1>8

\* Entry b is at the bottom of g2.
AtBottom(g2, b) == b.address = g2[Len(g2)].base + g2[Len(g2)].cursor

\* An entry that fits in the last segment lies directly under what was there.
LEMMA LoweredExtended ==
  ASSUME NEW g \in Seq(Segment), NEW g2 \in Seq(Segment), NEW r \in Nat, NEW b \in Entry,
         Len(g) > 0, Lowered(g, g2, r), AtBottom(g2, b), RoundUp(b.size) = r
  PROVE  Extended(g, g2, b)
<1>1. PICK n \in Nat : n = Len(g) /\ n > 0 /\ n = Len(g2)
  BY SegmentsTyped DEF Lowered
<1>2. SamePlace(g2[n], g[n]) /\ g2[n].cursor = g[n].cursor - r
  BY <1>1 DEF Lowered
<1>3. g[n].base \in Nat /\ g[n].cursor \in Nat /\ g2[n].cursor \in Nat /\ b.address \in Nat
  <2>1. n \in 1..Len(g) /\ n \in 1..Len(g2)
    BY <1>1
  <2>2. g[n].base \in Nat /\ g[n].cursor \in Nat /\ g2[n].cursor \in Nat
    BY <2>1, SegmentTyped
  <2> QED BY <2>2 DEF Entry
<1>4. b.address + r = g[n].base + g[n].cursor
  <2>1. b.address = g[n].base + (g[n].cursor - r)
    BY <1>1, <1>2 DEF AtBottom, SamePlace
  <2> QED BY <1>3, <2>1, SMTT(30)
<1>5. \A k \in 1..n : /\ g2[k].base = g[k].base /\ g2[k].size = g[k].size
                      /\ k < n => g2[k].cursor = g[k].cursor
  BY <1>1 DEF Lowered, SamePlace
<1> QED BY <1>1, <1>4, <1>5 DEF Extended, AtBottom

\* An entry in a new segment lies at its upper end.
LEMMA GrownExtended ==
  ASSUME NEW g \in Seq(Segment), NEW h \in Seq(Segment), NEW g2 \in Seq(Segment),
         NEW n \in Nat, NEW base \in Nat, NEW r \in Nat, NEW b \in Entry,
         Grown(g, h, n, base), Lowered(h, g2, r), AtBottom(g2, b), RoundUp(b.size) = r,
         b.kind = "block" \/ Len(g) = 0
  PROVE  Extended(g, g2, b)
<1>1. PICK N \in Nat : N = Len(g) /\ Len(h) = N + 1 /\ Len(g2) = N + 1
  BY SegmentsTyped DEF Grown, Lowered
<1>2. g2[N + 1].base = base /\ g2[N + 1].size = n /\ g2[N + 1].cursor = n - r
  <2>1. h[N + 1] = [base |-> base, size |-> n, cursor |-> n]
    BY <1>1 DEF Grown
  <2>2. SamePlace(g2[N + 1], h[N + 1]) /\ g2[N + 1].cursor = h[N + 1].cursor - r
    BY <1>1 DEF Lowered
  <2> QED BY <2>1, <2>2 DEF SamePlace
<1>3. g2[N + 1].cursor \in Nat
  BY <1>1, SegmentTyped
<1>4. b.address + r = base + n
  <2>1. b.address = base + (n - r)
    BY <1>1, <1>2 DEF AtBottom
  <2> QED BY <2>1
<1>5. ASSUME NEW k \in 1..N
      PROVE  g2[k] = g[k]
  <2>1. k \in 1..Len(h) /\ k < Len(h) /\ k \in 1..Len(g)
    BY <1>1
  <2> QED BY <2>1 DEF Grown, Lowered
<1>6. N + 1 > 1 => b.kind = "block"
  BY <1>1
<1> QED BY <1>1, <1>2, <1>4, <1>5, <1>6 DEF Extended, AtBottom

\* A frame whose stack got its first segment, or nothing.
LEMMA FrameSettled ==
  ASSUME NEW f, NEW f2, NEW g2, Stacked(f), Reworked(f, f2, g2, f.marks, f.log),
         Shaped(g2), Follows(f.segments, g2),
         \A k \in 1..Len(f.segments) : f.segments[k] \in LiveSegments,
         \/ g2 = f.segments
         \/ Len(f.segments) = 0 /\ Len(g2) = 1 /\ g2[1].cursor = g2[1].size
  PROVE  Restacked(f, f2)
<1>1. PICK g, l, m :
        g = f.segments /\ l = f.log /\ m = f.marks /\ g \in Seq(Segment) /\ l \in Seq(Entry)
  BY FrameTyped DEF Stacked
<1>2. g2 \in Seq(Segment)
  BY FrameTyped DEF Reworked
<1>3. Formed(g, l) /\ Laid(g, l, m) /\ Apart(g)
  BY <1>1 DEF Stacked, Sound
<1>4. Apart(g2)
  BY <1>1, <1>2, <1>3, ApartFollows
<1>5. Laid(g2, l, m)
  BY <1>1, <1>2, <1>3, LaidOpened
<1>6. Formed(g2, l)
  BY <1>3 DEF Formed, Shaped
<1>7. Sound(f2)
  BY <1>1, <1>5, <1>6 DEF Sound, Reworked, Stacked
<1> QED BY <1>4, <1>7 DEF Restacked, Stacked, Reworked

\* What allocate does to the segments.
Taken(g, g2, size, base) ==
  LET r == RoundUp(size)
  IN  IF Len(g) = 0 \/ g[Len(g)].cursor < r
      THEN \E h \in Seq(Segment) :
             Grown(g, h, SegmentFor(r), base) /\ Lowered(h, g2, r)
      ELSE Lowered(g, g2, r)

\* No segments: the length is 0.
LEMMA EmptySegments ==
  ASSUME NEW g \in Seq(Segment)
  PROVE  g = <<>> <=> Len(g) = 0
BY EmptySeq

\* Frame f2 is f after an allocation.
Allocates(f, f2, size, base) ==
  \E g2 \in Seq(Segment), l2 \in Seq(Entry) :
    /\ f2 = [f EXCEPT !.segments = g2, !.log = l2]
    /\ Taken(f.segments, g2, size, base)
    /\ IF size = 0 THEN l2 = f.log
       ELSE \E b \in Entry : /\ AtBottom(g2, b) /\ b.kind = "block" /\ b.size = size
                             /\ l2 = Append(f.log, b)

\* allocate changes the segments and the log, as Allocates says.
LEMMA AllocateForm ==
  ASSUME NEW f \in FrameRecord, NEW size \in Nat, NEW base \in Nat
  PROVE  Allocates(f, allocate(f, size, base), size, base)
<1> DEFINE r == RoundUp(size)
           n == SegmentFor(r)
           ready == IF NeedsSegment(f, r) THEN Opened(f, n, base) ELSE f
           moved == [ready EXCEPT !.segments[Len(ready.segments)].cursor = @ - r]
<1>1. r \in Nat /\ n \in Nat /\ n >= r
  BY RoundUpFacts, SegmentForFacts
<1>2. PICK g : g = f.segments /\ g \in Seq(Segment)
  BY FrameTyped
<1>3. NeedsSegment(f, r) <=> Len(g) = 0 \/ g[Len(g)].cursor < r
  BY <1>2, EmptySegments DEF NeedsSegment
<1>4. PICK h \in Seq(Segment) :
        /\ ready = [f EXCEPT !.segments = h]
        /\ IF NeedsSegment(f, r) THEN Grown(g, h, n, base) ELSE h = g
  <2>1. CASE NeedsSegment(f, r)
    <3>1. ready = [f EXCEPT !.segments = Append(g, [base |-> base, size |-> n, cursor |-> n])]
      BY <1>2, <2>1 DEF Opened
    <3> QED BY <1>1, <1>2, <2>1, <3>1, SegmentsGrown
  <2>2. CASE ~NeedsSegment(f, r)
    <3>1. ready = [f EXCEPT !.segments = g]
      BY <1>2, <2>2 DEF FrameRecord
    <3> QED BY <1>2, <2>2, <3>1
  <2> QED BY <2>1, <2>2
<1>5. Len(h) > 0 /\ r <= h[Len(h)].cursor
  <2>1. CASE NeedsSegment(f, r)
    <3>1. Len(h) = Len(g) + 1 /\ h[Len(h)] = [base |-> base, size |-> n, cursor |-> n]
      BY <1>4, <2>1 DEF Grown
    <3> QED BY <1>1, <1>2, <3>1, SegmentsTyped
  <2>2. CASE ~NeedsSegment(f, r)
    <3>1. h = g /\ Len(g) # 0 /\ ~(g[Len(g)].cursor < r) /\ Len(g) \in Nat
      BY <1>2, <1>3, <1>4, <2>2, SegmentsTyped
    <3>2. g[Len(g)].cursor \in Nat
      BY <1>2, <3>1, SegmentTyped
    <3> QED BY <1>1, <3>1, <3>2
  <2> QED BY <2>1, <2>2
<1>6. PICK g2 \in Seq(Segment) : g2 = [h EXCEPT ![Len(h)].cursor = @ - r] /\ Lowered(h, g2, r)
  BY <1>1, <1>4, <1>5, SegmentsLowered
<1> HIDE DEF r, n, ready
<1>7. moved = [f EXCEPT !.segments = g2]
  BY <1>4, <1>6 DEF FrameRecord
<1>8. moved.segments = g2 /\ moved.log = f.log
  BY <1>7 DEF FrameRecord
<1>9. Taken(g, g2, size, base)
  BY <1>3, <1>4, <1>6 DEF Taken, r, n
<1> DEFINE b == [kind |-> "block", address |-> Cursor(moved), size |-> size]
<1>10. b \in Entry /\ AtBottom(g2, b) /\ b.kind = "block" /\ b.size = size
  <2>1. Len(g2) \in 1..Len(g2)
    BY <1>5, <1>6, SegmentsTyped DEF Lowered
  <2>2. g2[Len(g2)].base + g2[Len(g2)].cursor \in Nat
    BY <2>1, SegmentTyped
  <2>3. Cursor(moved) = g2[Len(g2)].base + g2[Len(g2)].cursor
    BY <1>8 DEF Cursor
  <2> QED BY <2>2, <2>3 DEF Entry, AtBottom
<1>11. allocate(f, size, base)
         = IF size = 0 THEN moved ELSE [moved EXCEPT !.log = Append(@, b)]
  BY DEF allocate, r, n, ready
<1> HIDE DEF b, moved
<1>12. f.log \in Seq(Entry) /\ Append(f.log, b) \in Seq(Entry)
  BY <1>10, FrameTyped, LogAppended
<1>13. CASE size = 0
  <2>1. allocate(f, size, base) = [f EXCEPT !.segments = g2, !.log = f.log]
    BY <1>7, <1>11, <1>13 DEF FrameRecord
  <2> QED BY <1>2, <1>9, <1>12, <1>13, <2>1 DEF Allocates
<1>14. CASE size # 0
  <2>1. allocate(f, size, base) = [f EXCEPT !.segments = g2, !.log = Append(f.log, b)]
    BY <1>7, <1>8, <1>11, <1>14 DEF FrameRecord
  <2> QED BY <1>2, <1>9, <1>10, <1>12, <1>14, <2>1 DEF Allocates
<1> QED BY <1>13, <1>14

\* The places offered to an allocation: the guard of the actions that call it.
Room(f, n) == IF NeedsSegment(f, n) THEN Places(SegmentFor(n)) ELSE {0}

\* The allocator hands out addresses.
LEMMA RoomTyped ==
  ASSUME program \in Programs, NEW f, NEW n \in Nat, NEW base \in Room(f, n)
  PROVE  base \in Nat
BY ProgramTyped DEF Room, Places

\* Segments from which memory was taken.
LEMMA TakenShaped ==
  ASSUME program \in Programs, NEW f, NEW size \in Nat, NEW base \in Room(f, RoundUp(size)),
         NEW g \in Seq(Segment), NEW g2 \in Seq(Segment), g = f.segments,
         Shaped(g), Taken(g, g2, size, base)
  PROVE  Follows(g, g2) /\ Shaped(g2)
<1>1. PICK r \in Nat : r = RoundUp(size)
  BY RoundUpFacts
<1>2. PICK n \in Nat : n = SegmentFor(r) /\ n >= r /\ n >= SegmentSize
  BY SegmentForFacts
<1>3. NeedsSegment(f, r) <=> Len(g) = 0 \/ g[Len(g)].cursor < r
  BY EmptySegments DEF NeedsSegment
<1>4. CASE NeedsSegment(f, r)
  <2>1. PICK h \in Seq(Segment) : Grown(g, h, n, base) /\ Lowered(h, g2, r)
    BY <1>1, <1>2, <1>3, <1>4 DEF Taken
  <2>2. base \in Places(n)
    BY <1>1, <1>2, <1>4 DEF Room
  <2> QED BY <1>2, <2>1, <2>2, GrownFollows
<1>5. CASE ~NeedsSegment(f, r)
  <2>1. Lowered(g, g2, r)
    BY <1>1, <1>3, <1>5 DEF Taken
  <2>2. Follows(g, g2)
    BY <2>1, FollowsItself DEF Lowered
  <2>3. PICK N \in Nat : N = Len(g) /\ N = Len(g2)
    BY <2>1, SegmentsTyped DEF Lowered
  <2>4. ASSUME NEW k \in 1..N
        PROVE  /\ g2[k].base = g[k].base /\ g2[k].size = g[k].size
               /\ g2[k].cursor <= g[k].cursor
    <3>1. SamePlace(g2[k], g[k])
      BY <2>1, <2>3 DEF Lowered
    <3>2. g2[k].cursor <= g[k].cursor
      <4>1. g[k].cursor \in Nat
        BY <2>3, SegmentTyped
      <4>2. CASE k < N
        BY <2>1, <2>3, <4>1, <4>2 DEF Lowered
      <4>3. CASE k = N
        <5>1. g2[N].cursor = g[N].cursor - r
          BY <2>1, <2>3 DEF Lowered
        <5> QED BY <4>1, <4>3, <5>1
      <4> QED BY <4>2, <4>3
    <3> QED BY <3>1, <3>2 DEF SamePlace
  <2>5. ASSUME NEW k \in 1..N
        PROVE  g2[k].cursor <= g2[k].size
    <3>1. g[k].cursor <= g[k].size
      BY <2>3 DEF Shaped
    <3>2. g[k].cursor \in Nat /\ g[k].size \in Nat /\ g2[k].cursor \in Nat
      BY <2>3, SegmentTyped
    <3> QED BY <2>4, <3>1, <3>2
  <2> QED BY <2>2, <2>3, <2>4, <2>5 DEF Shaped
<1> QED BY <1>4, <1>5

\* What allocate takes is directly under what was there.
LEMMA TakenExtended ==
  ASSUME program \in Programs, NEW size \in Nat, NEW base \in Nat,
         NEW g \in Seq(Segment), NEW g2 \in Seq(Segment), NEW b \in Entry,
         Taken(g, g2, size, base), AtBottom(g2, b), b.kind = "block", b.size = size
  PROVE  Extended(g, g2, b)
<1>1. PICK r \in Nat : r = RoundUp(size)
  BY RoundUpFacts
<1>2. PICK n \in Nat : n = SegmentFor(r) /\ n >= r
  BY SegmentForFacts
<1>3. CASE Len(g) = 0 \/ g[Len(g)].cursor < r
  <2>1. PICK h \in Seq(Segment) : Grown(g, h, n, base) /\ Lowered(h, g2, r)
    BY <1>1, <1>2, <1>3 DEF Taken
  <2> QED BY <1>1, <2>1, GrownExtended
<1>4. CASE ~(Len(g) = 0 \/ g[Len(g)].cursor < r)
  <2>1. Lowered(g, g2, r)
    BY <1>1, <1>4 DEF Taken
  <2>2. Len(g) > 0
    BY <1>4, SegmentsTyped
  <2> QED BY <1>1, <2>1, <2>2, LoweredExtended
<1> QED BY <1>3, <1>4

\* An allocation of nothing opens the first segment at most.
LEMMA TakenNothing ==
  ASSUME NEW g \in Seq(Segment), NEW g2 \in Seq(Segment), NEW base \in Nat, Taken(g, g2, 0, base)
  PROVE  g2 = g \/ (Len(g) = 0 /\ Len(g2) = 1 /\ g2[1].cursor = g2[1].size)
<1>1. RoundUp(0) = 0
  BY RoundUpFacts
<1>2. CASE Len(g) = 0
  <2>1. PICK h \in Seq(Segment) : Grown(g, h, SegmentFor(0), base) /\ Lowered(h, g2, 0)
    BY <1>1, <1>2 DEF Taken
  <2>2. Len(h) = 1 /\ h[1] = [base |-> base, size |-> SegmentFor(0), cursor |-> SegmentFor(0)]
    BY <1>2, <2>1 DEF Grown
  <2>3. Len(g2) = 1 /\ g2[1].size = SegmentFor(0) /\ g2[1].cursor = SegmentFor(0) - 0
    BY <2>1, <2>2 DEF Lowered, SamePlace
  <2> QED BY <1>2, <2>3, SegmentForFacts
<1>3. CASE Len(g) # 0
  <2>1. PICK N \in Nat : N = Len(g) /\ N > 0
    BY <1>3, SegmentsTyped
  <2>2. g[N].cursor \in Nat
    BY <2>1, SegmentTyped
  <2>3. Lowered(g, g2, 0)
    BY <1>1, <1>3, <2>1, <2>2 DEF Taken
  <2>4. ASSUME NEW k \in 1..N
        PROVE  g2[k] = g[k]
    <3>1. CASE k < N
      BY <2>1, <2>3, <3>1 DEF Lowered
    <3>2. CASE k = N
      <4>1. SamePlace(g2[N], g[N]) /\ g2[N].cursor = g[N].cursor
        BY <2>1, <2>2, <2>3 DEF Lowered
      <4>2. g2[N] \in Segment /\ g[N] \in Segment
        BY <2>1, <2>3, SegmentsTyped DEF Lowered
      <4>3. ASSUME NEW s \in Segment
            PROVE  s = [base |-> s.base, size |-> s.size, cursor |-> s.cursor]
        BY DEF Segment
      <4>4. g2[N] = [base |-> g2[N].base, size |-> g2[N].size, cursor |-> g2[N].cursor]
        BY <4>2, <4>3
      <4>5. g[N] = [base |-> g[N].base, size |-> g[N].size, cursor |-> g[N].cursor]
        BY <4>2, <4>3
      <4> QED BY <3>2, <4>1, <4>4, <4>5 DEF SamePlace
    <3> QED BY <2>1, <3>1, <3>2
  <2> QED BY <2>1, <2>3, <2>4, SeqEqual DEF Lowered
<1> QED BY <1>2, <1>3

\* allocate.
LEMMA Allocated ==
  ASSUME program \in Programs, NEW f, Stacked(f),
         \A k \in 1..Len(f.segments) : f.segments[k] \in LiveSegments,
         NEW size \in Nat, NEW base \in Room(f, RoundUp(size))
  PROVE  Restacked(f, allocate(f, size, base))
<1>1. f \in FrameRecord /\ base \in Nat /\ Shaped(f.segments)
  BY RoomTyped, RoundUpFacts DEF Stacked, Sound, Formed, Shaped
<1>2. PICK g2 \in Seq(Segment), l2 \in Seq(Entry) :
           /\ allocate(f, size, base) = [f EXCEPT !.segments = g2, !.log = l2]
           /\ Taken(f.segments, g2, size, base)
           /\ IF size = 0 THEN l2 = f.log
              ELSE \E b \in Entry : /\ AtBottom(g2, b) /\ b.kind = "block" /\ b.size = size
                                    /\ l2 = Append(f.log, b)
  <2>1. Allocates(f, allocate(f, size, base), size, base)
    BY <1>1, AllocateForm
  <2> QED BY <2>1 DEF Allocates
<1>3. PICK f2 : f2 = allocate(f, size, base)
  OBVIOUS
<1>4. Reworked(f, f2, g2, f.marks, l2)
  <2>1. f2 = [f EXCEPT !.segments = g2, !.marks = f.marks, !.log = l2]
    BY <1>1, <1>2, <1>3 DEF FrameRecord
  <2> QED BY <1>1, <2>1, FrameTyped, FrameReworked
<1>5. Follows(f.segments, g2) /\ Shaped(g2)
  BY <1>1, <1>2, FrameTyped, TakenShaped
<1>6. CASE size = 0
  <2>1. \/ g2 = f.segments
        \/ Len(f.segments) = 0 /\ Len(g2) = 1 /\ g2[1].cursor = g2[1].size
    BY <1>1, <1>2, <1>6, FrameTyped, TakenNothing
  <2>2. Reworked(f, f2, g2, f.marks, f.log)
    BY <1>2, <1>4, <1>6
  <2> QED BY <1>3, <1>5, <2>1, <2>2, FrameSettled
<1>7. CASE size # 0
  <2>1. PICK b \in Entry : /\ AtBottom(g2, b) /\ b.kind = "block" /\ b.size = size
                           /\ l2 = Append(f.log, b)
    BY <1>2, <1>7
  <2>2. Extended(f.segments, g2, b)
    BY <1>1, <1>2, <2>1, FrameTyped, TakenExtended
  <2>3. NewMark(f.log, b) /\ MarksAfter(f.marks, f.marks, g2, b)
    BY <2>1 DEF NewMark, MarksAfter
  <2>4. IF b.kind = "mark" THEN b.size = 0 ELSE b.size > 0
    BY <1>7, <2>1
  <2>5. Reworked(f, f2, g2, f.marks, Append(f.log, b))
    BY <1>4, <2>1
  <2> QED BY <1>3, <1>5, <2>2, <2>3, <2>4, <2>5, FrameExtended
<1> QED BY <1>6, <1>7

\* A cursor that does not move.
LEMMA LoweredByNothing ==
  ASSUME NEW g \in Seq(Segment), Len(g) > 0
  PROVE  Lowered(g, g, 0)
<1>1. Len(g) \in 1..Len(g)
  BY SegmentsTyped
<1>2. g[Len(g)].cursor = g[Len(g)].cursor - 0
  BY <1>1, SegmentTyped
<1> QED BY <1>2 DEF Lowered, SamePlace

\* Equal mark tables lay out the same stack.
LEMMA LaidSame ==
  ASSUME NEW g, NEW l, NEW m, NEW m2, Laid(g, l, m), DOMAIN m2 = DOMAIN m,
         \A a \in DOMAIN m : m2[a] = m[a]
  PROVE  Laid(g, l, m2)
<1>1. PICK home \in [1..Len(l) -> 1..Len(g)] : Layout(g, l, m, home)
  BY DEF Laid
<1>2. Marked(g, l, m2, home)
  <2>1. Marked(g, l, m, home)
    BY <1>1 DEF Layout
  <2>2. \A i \in 1..Len(l) : l[i].kind = "mark" => l[i].address \in DOMAIN m
    BY <2>1 DEF Marked
  <2> QED BY <2>1, <2>2 DEF Marked
<1> QED BY <1>1, <1>2 DEF Laid, Layout

\* A mark made again says what it said before.
LEMMA MarkAgain ==
  ASSUME NEW g \in Seq(Segment), NEW l \in Seq(Entry), NEW m, Laid(g, l, m),
         Len(l) > 0, l[Len(l)].kind = "mark"
  PROVE  /\ Len(g) > 0
         /\ l[Len(l)].address \in DOMAIN m
         /\ m[l[Len(l)].address] = [segments |-> Len(g), cursor |-> g[Len(g)].cursor]
<1>1. PICK home : Homes(g, l, home) /\ Filled(g, l, home) /\ Marked(g, l, m, home)
  BY DEF Laid, Layout
<1>2. PICK N \in Nat : N = Len(l) /\ N \in 1..Len(l)
  BY LogTyped
<1>3. home[N] = Len(g) /\ home[N] \in 1..Len(g) /\ Len(g) \in Nat
  <2>1. home[N] = Len(g)
    BY <1>1, <1>2 DEF Filled
  <2> QED BY <1>1, <1>2, <2>1, HomeTyped
<1>4. m[l[N].address] = [segments |-> home[N], cursor |-> l[N].address - g[home[N]].base]
  BY <1>1, <1>2 DEF Marked
<1>5. l[N].address \in DOMAIN m
  BY <1>1, <1>2 DEF Marked
<1>6. l[N].address = g[home[N]].base + g[home[N]].cursor
  BY <1>1, <1>2 DEF Filled
<1>7. g[home[N]].base \in Nat /\ g[home[N]].cursor \in Nat
  BY <1>3, SegmentTyped
<1>8. l[N].address - g[home[N]].base = g[home[N]].cursor
  BY <1>6, <1>7
<1> QED BY <1>2, <1>3, <1>4, <1>5, <1>8

\* m2 is m with a mark at address.
WithMark(m, m2, address, mark) ==
  m2 = [a \in DOMAIN m \cup {address} |-> IF a = address THEN mark ELSE m[a]]

\* m2 says what m says, and has mark at address.
Remarked(m, m2, address, mark) ==
  /\ DOMAIN m2 = DOMAIN m \cup {address}
  /\ \A a \in DOMAIN m : a # address => m2[a] = m[a]
  /\ m2[address] = mark

\* save sets one mark and keeps the others.
LEMMA WithMarkFacts ==
  ASSUME NEW m \in MarkTable, NEW m2, NEW address \in Nat, NEW mark \in Mark,
         WithMark(m, m2, address, mark)
  PROVE  m2 \in MarkTable /\ Remarked(m, m2, address, mark)
<1>1. PICK D \in SUBSET Nat : m \in [D -> Mark]
  BY DEF MarkTable
<1>2. m2 \in [D \cup {address} -> Mark]
  BY <1>1 DEF WithMark
<1>3. D \cup {address} \in SUBSET Nat
  BY <1>1
<1> QED BY <1>1, <1>2, <1>3 DEF MarkTable, WithMark, Remarked

\* Frame f2 is f with mark b.
SavesMark(f, f2, base, g2, m2, l2, b) ==
  /\ f2 = [f EXCEPT !.segments = g2, !.marks = m2, !.log = l2]
  /\ Len(g2) > 0
  /\ IF Len(f.segments) = 0 THEN Grown(f.segments, g2, SegmentSize, base) ELSE g2 = f.segments
  /\ b.kind = "mark" /\ b.size = 0 /\ AtBottom(g2, b)
  /\ WithMark(f.marks, m2, b.address, [segments |-> Len(g2), cursor |-> g2[Len(g2)].cursor])
  /\ IF Len(f.log) > 0 /\ f.log[Len(f.log)].kind = "mark" /\ f.log[Len(f.log)].address = b.address
     THEN l2 = f.log
     ELSE l2 = Append(f.log, b)

Saves(f, f2, base) ==
  \E g2 \in Seq(Segment), m2 \in MarkTable, l2 \in Seq(Entry), b \in Entry :
    SavesMark(f, f2, base, g2, m2, l2, b)

\* save changes the segments, the marks and the log, as Saves says.
LEMMA SaveForm ==
  ASSUME NEW f \in FrameRecord, NEW base \in Nat
  PROVE  Saves(f, save(f, base), base)
<1> DEFINE ready == IF f.segments = <<>> THEN Opened(f, SegmentSize, base) ELSE f
           mark == [segments |-> Len(ready.segments),
                    cursor |-> ready.segments[Len(ready.segments)].cursor]
           address == Cursor(ready)
           b == [kind |-> "mark", address |-> address, size |-> 0]
<1>1. PICK g, l, m : /\ g = f.segments /\ l = f.log /\ m = f.marks
                     /\ g \in Seq(Segment) /\ l \in Seq(Entry) /\ m \in MarkTable
  BY FrameTyped
<1>2. PICK g2 \in Seq(Segment) :
        /\ ready = [f EXCEPT !.segments = g2]
        /\ Len(g2) > 0
        /\ IF Len(g) = 0 THEN Grown(g, g2, SegmentSize, base) ELSE g2 = g
  <2>1. CASE Len(g) = 0
    <3>1. ready = [f EXCEPT !.segments = Append(g, [base |-> base, size |-> SegmentSize, cursor |-> SegmentSize])]
      BY <1>1, <2>1, EmptySegments DEF Opened
    <3>2. SegmentSize \in Nat
      BY StackAssumption
    <3>3. PICK h \in Seq(Segment) :
            /\ h = Append(g, [base |-> base, size |-> SegmentSize, cursor |-> SegmentSize])
            /\ Grown(g, h, SegmentSize, base)
      BY <1>1, <3>2, SegmentsGrown
    <3>4. Len(h) > 0
      BY <2>1, <3>3 DEF Grown
    <3> QED BY <2>1, <3>1, <3>3, <3>4
  <2>2. CASE Len(g) # 0
    <3>1. ready = f
      BY <1>1, <2>2, EmptySegments
    <3>2. f = [f EXCEPT !.segments = g]
      BY <1>1 DEF FrameRecord
    <3>3. Len(g) > 0
      BY <1>1, <2>2, SegmentsTyped
    <3> QED BY <1>1, <2>2, <3>1, <3>2, <3>3
  <2> QED BY <2>1, <2>2
<1> HIDE DEF ready
<1>3. ready.segments = g2 /\ ready.marks = m /\ ready.log = l
  BY <1>1, <1>2 DEF FrameRecord
<1>4. mark = [segments |-> Len(g2), cursor |-> g2[Len(g2)].cursor]
  BY <1>3
<1>5. address = g2[Len(g2)].base + g2[Len(g2)].cursor
  BY <1>3 DEF Cursor
<1>6. mark \in Mark /\ address \in Nat
  <2>1. Len(g2) \in 1..Len(g2) /\ Len(g2) \in Nat
    BY <1>2, SegmentsTyped
  <2>2. g2[Len(g2)].base \in Nat /\ g2[Len(g2)].cursor \in Nat
    BY <2>1, SegmentTyped
  <2> QED BY <1>4, <1>5, <2>1, <2>2 DEF Mark
<1>7. b \in Entry /\ b.kind = "mark" /\ b.size = 0 /\ b.address = address /\ AtBottom(g2, b)
  BY <1>5, <1>6 DEF Entry, AtBottom
<1> DEFINE m2 == [a \in DOMAIN m \cup {address} |-> IF a = address THEN mark ELSE m[a]]
           l2 == IF Len(l) \in Marks(l, address) THEN l ELSE Append(l, b)
<1>8. save(f, base) = [ready EXCEPT !.marks = m2, !.log = l2]
  BY <1>3 DEF save, ready
<1> HIDE DEF mark, address, b, m2, l2
<1>9. WithMark(m, m2, address, mark) /\ m2 \in MarkTable
  <2>1. WithMark(m, m2, address, mark)
    BY DEF WithMark, m2
  <2> QED BY <1>1, <1>6, <2>1, WithMarkFacts
<1>10. Len(l) \in Marks(l, address)
         <=> Len(l) > 0 /\ l[Len(l)].kind = "mark" /\ l[Len(l)].address = address
  BY <1>1, LogTyped DEF Marks
<1>11. l2 \in Seq(Entry)
  BY <1>1, <1>7, LogAppended DEF l2
<1>12. save(f, base) = [f EXCEPT !.segments = g2, !.marks = m2, !.log = l2]
  BY <1>2, <1>8 DEF FrameRecord
<1>13. IF Len(l) > 0 /\ l[Len(l)].kind = "mark" /\ l[Len(l)].address = address
       THEN l2 = l ELSE l2 = Append(l, b)
  BY <1>10 DEF l2
<1>14. SavesMark(f, save(f, base), base, g2, m2, l2, b)
  BY <1>1, <1>2, <1>4, <1>7, <1>9, <1>12, <1>13 DEF SavesMark
<1> QED BY <1>7, <1>9, <1>11, <1>14 DEF Saves

\* save.
LEMMA Saved ==
  ASSUME program \in Programs, NEW f, Stacked(f),
         \A k \in 1..Len(f.segments) : f.segments[k] \in LiveSegments,
         NEW base, base \in IF f.segments = <<>> THEN Places(SegmentSize) ELSE {0}
  PROVE  Restacked(f, save(f, base))
<1>1. /\ f \in FrameRecord /\ Shaped(f.segments)
      /\ f.segments \in Seq(Segment) /\ f.log \in Seq(Entry) /\ f.marks \in MarkTable
  BY FrameTyped DEF Stacked, Sound, Formed, Shaped
<1>2. base \in Nat
  BY ProgramTyped DEF Places
<1>3. PICK f2 : f2 = save(f, base)
  OBVIOUS
<1>4. PICK g2 \in Seq(Segment), m2 \in MarkTable, l2 \in Seq(Entry), b \in Entry :
        SavesMark(f, f2, base, g2, m2, l2, b)
  <2>1. Saves(f, f2, base)
    BY <1>1, <1>2, <1>3, SaveForm
  <2> QED BY <2>1 DEF Saves
<1>5. Reworked(f, f2, g2, m2, l2)
  BY <1>1, <1>4, FrameReworked DEF SavesMark
<1>6. Follows(f.segments, g2) /\ Shaped(g2) /\ Extended(f.segments, g2, b)
  <2>1. RoundUp(b.size) = 0
    BY <1>4, RoundUpFacts DEF SavesMark
  <2>2. Len(g2) > 0 /\ AtBottom(g2, b) /\ Lowered(g2, g2, 0)
    BY <1>4, LoweredByNothing DEF SavesMark
  <2>3. CASE Len(f.segments) = 0
    <3>1. Grown(f.segments, g2, SegmentSize, base)
      BY <1>4, <2>3 DEF SavesMark
    <3>2. base \in Places(SegmentSize) /\ SegmentSize \in Nat
      BY <1>1, <2>3, EmptySegments, StackAssumption
    <3>3. Follows(f.segments, g2) /\ Shaped(g2)
      BY <1>1, <2>2, <3>1, <3>2, GrownFollows
    <3>4. Extended(f.segments, g2, b)
      BY <1>1, <1>2, <2>1, <2>2, <2>3, <3>1, <3>2, GrownExtended
    <3> QED BY <3>3, <3>4
  <2>4. CASE Len(f.segments) # 0
    <3>1. g2 = f.segments
      BY <1>4, <2>4 DEF SavesMark
    <3>2. Follows(f.segments, g2)
      BY <3>1, FollowsItself DEF SamePlace
    <3>3. Extended(f.segments, g2, b)
      BY <1>1, <2>1, <2>2, <3>1, LoweredExtended
    <3> QED BY <1>1, <3>1, <3>2, <3>3
  <2> QED BY <2>3, <2>4
<1>7. PICK mark : mark = [segments |-> Len(g2), cursor |-> g2[Len(g2)].cursor]
  OBVIOUS
<1>8. mark \in Mark /\ b.address \in Nat
  <2>1. Len(g2) \in Nat /\ Len(g2) \in 1..Len(g2)
    BY <1>4, SegmentsTyped DEF SavesMark
  <2>2. g2[Len(g2)].cursor \in Nat
    BY <2>1, SegmentTyped
  <2> QED BY <1>7, <2>1, <2>2 DEF Mark, Entry
<1>9. /\ DOMAIN m2 = DOMAIN f.marks \cup {b.address}
      /\ \A a \in DOMAIN f.marks : a # b.address => m2[a] = f.marks[a]
      /\ m2[b.address] = mark
  <2>1. WithMark(f.marks, m2, b.address, mark)
    BY <1>4, <1>7 DEF SavesMark
  <2>2. PICK m \in MarkTable, a \in Nat : m = f.marks /\ a = b.address
    BY <1>1, <1>8
  <2>3. WithMark(m, m2, a, mark)
    BY <2>1, <2>2
  <2>4. Remarked(m, m2, a, mark)
    BY <1>8, <2>3, WithMarkFacts
  <2> QED BY <2>2, <2>4 DEF Remarked
<1>10. CASE Len(f.log) > 0 /\ f.log[Len(f.log)].kind = "mark" /\ f.log[Len(f.log)].address = b.address
  <2>1. l2 = f.log
    BY <1>4, <1>10 DEF SavesMark
  <2>2. Laid(f.segments, f.log, f.marks)
    BY DEF Stacked, Sound
  <2>3. /\ Len(f.segments) > 0 /\ b.address \in DOMAIN f.marks
        /\ f.marks[b.address] = [segments |-> Len(f.segments), cursor |-> f.segments[Len(f.segments)].cursor]
    BY <1>1, <1>10, <2>2, MarkAgain
  <2>4. g2 = f.segments
    BY <1>4, <2>3 DEF SavesMark
  <2>5. f.marks[b.address] = mark
    BY <1>7, <2>3, <2>4
  <2>6. Laid(g2, f.log, m2)
    <3>1. PICK m : m = f.marks
      OBVIOUS
    <3>2. DOMAIN m2 = DOMAIN m
      BY <1>9, <2>3, <3>1
    <3>3. \A a \in DOMAIN m : m2[a] = m[a]
      BY <1>9, <2>5, <3>1
    <3>4. Laid(g2, f.log, m)
      BY <2>2, <2>4, <3>1
    <3> QED BY <3>2, <3>3, <3>4, LaidSame
  <2>7. Sound(f2)
    BY <1>5, <2>1, <2>4, <2>6 DEF Sound, Stacked, Reworked
  <2> QED BY <1>3, <1>5, <1>6, <2>4, <2>7 DEF Restacked, Stacked, Reworked
<1>11. CASE ~(Len(f.log) > 0 /\ f.log[Len(f.log)].kind = "mark" /\ f.log[Len(f.log)].address = b.address)
  <2>1. l2 = Append(f.log, b)
    BY <1>4, <1>11 DEF SavesMark
  <2>2. NewMark(f.log, b)
    BY <1>11 DEF NewMark
  <2>3. b.kind = "mark" /\ b.size = 0
    BY <1>4 DEF SavesMark
  <2>4. MarksAfter(f.marks, m2, g2, b)
    BY <1>7, <1>9, <2>3 DEF MarksAfter
  <2>5. Reworked(f, f2, g2, m2, Append(f.log, b))
    BY <1>5, <2>1
  <2>6. Restacked(f, f2)
    BY <1>6, <2>2, <2>3, <2>4, <2>5, FrameExtended
  <2> QED BY <1>3, <2>6
<1> QED BY <1>10, <1>11

\* A mark points into a segment.
LEMMA MarkInside ==
  ASSUME NEW g \in Seq(Segment), NEW l \in Seq(Entry), NEW m, Laid(g, l, m),
         NEW p \in 1..Len(l), l[p].kind = "mark"
  PROVE  /\ m[l[p].address].segments \in 1..Len(g)
         /\ m[l[p].address].cursor \in Nat
         /\ m[l[p].address].cursor <= g[m[l[p].address].segments].size
<1>1. PICK home : Homes(g, l, home) /\ Marked(g, l, m, home)
  BY DEF Laid, Layout
<1>2. m[l[p].address] = [segments |-> home[p], cursor |-> l[p].address - g[home[p]].base]
  BY <1>1 DEF Marked
<1>3. PICK k \in 1..Len(g) : k = home[p]
  BY <1>1, HomeTyped
<1>4. Within(l[p], g[k])
  BY <1>1, <1>3 DEF Homes, Lies
<1>5. /\ g[k].base \in Nat /\ g[k].size \in Nat
      /\ l[p].address \in Nat /\ l[p].size \in Nat
  BY SegmentTyped, EntryTyped
<1>6. g[k].base <= l[p].address /\ l[p].address + l[p].size <= g[k].base + g[k].size
  BY <1>4 DEF Within
<1>7. l[p].address - g[k].base \in Nat /\ l[p].address - g[k].base <= g[k].size
  BY <1>5, <1>6, SMTT(30)
<1> QED BY <1>2, <1>3, <1>7

\* restore drops the segments after the mark's and sets its cursor.
LEMMA SegmentsCut ==
  ASSUME NEW g \in Seq(Segment), NEW k \in 1..Len(g), NEW c \in Nat
  PROVE  LET g2 == [SubSeq(g, 1, k) EXCEPT ![k].cursor = c]
         IN  g2 \in Seq(Segment) /\ Cut(g, g2, k, c)
<1>1. Len(g) \in Nat /\ k \in Nat /\ 1 <= k /\ k <= Len(g)
  BY SegmentsTyped
<1>2. PICK h : h = SubSeq(g, 1, k)
  OBVIOUS
<1>3. h \in Seq(Segment) /\ Len(h) = k /\ \A j \in 1..k : h[j] = g[j]
  BY <1>1, <1>2, SubSeqProperties
<1>4. k \in 1..Len(h) /\ DOMAIN h = 1..k /\ h[k] \in Segment
  BY <1>1, <1>3, SegmentsTyped
<1> DEFINE last == [h[k] EXCEPT !.cursor = c]
           g2 == [h EXCEPT ![k] = last]
<1>5. last \in Segment /\ SamePlace(last, h[k]) /\ last.cursor = c
  BY <1>4 DEF Segment, SamePlace
<1> HIDE DEF last
<1>6. g2 \in Seq(Segment) /\ Len(g2) = k /\ \A j \in 1..k : g2[j] = IF j = k THEN last ELSE h[j]
  BY <1>3, <1>4, <1>5, ExceptSeq
<1> HIDE DEF g2
<1>7. ASSUME NEW j \in 1..k
      PROVE  /\ g2[j].base = g[j].base /\ g2[j].size = g[j].size
             /\ j < k => g2[j].cursor = g[j].cursor
  <2>1. CASE j = k
    <3>1. ~(j < k)
      BY <1>1, <2>1
    <3> QED BY <1>3, <1>5, <1>6, <2>1, <3>1 DEF SamePlace
  <2>2. CASE j # k
    BY <1>3, <1>6, <2>2
  <2> QED BY <2>1, <2>2
<1>8. g2[k].cursor = c
  BY <1>1, <1>5, <1>6
<1>9. Cut(g, g2, k, c)
  BY <1>6, <1>7, <1>8 DEF Cut
<1> QED BY <1>2, <1>6, <1>9 DEF g2, last

\* The log that a restore leaves ends with the mark.
LEMMA SinceMark ==
  ASSUME NEW l \in Seq(Entry), NEW address, NEW p \in 1..Len(l),
         l[p].kind = "mark", l[p].address = address,
         \A i \in 1..Len(l) : l[i].kind = "mark" /\ l[i].address = address => i = p
  PROVE  Since(l, address) \in Seq(Entry) /\ Prefix(l, Since(l, address), p)
<1>1. Marks(l, address) = {p}
  BY LogTyped DEF Marks
<1>2. Since(l, address) = SubSeq(l, 1, p)
  <2>1. p <= p
    BY LogTyped
  <2>2. (CHOOSE i \in Marks(l, address) : \A j \in Marks(l, address) : j <= i) = p
    BY <1>1, <2>1
  <2> QED BY <2>2 DEF Since
<1>3. Len(l) \in Nat /\ p \in Nat /\ 1 <= p /\ p <= Len(l)
  BY LogTyped
<1>4. SubSeq(l, 1, p) \in Seq(Entry) /\ Len(SubSeq(l, 1, p)) = p /\ \A i \in 1..p : SubSeq(l, 1, p)[i] = l[i]
  BY <1>3, SubSeqProperties
<1> QED BY <1>2, <1>4 DEF Prefix

\* restore.
LEMMA Restored ==
  ASSUME NEW f, Stacked(f), NEW address \in DOMAIN f.marks,
         \A k \in 1..Len(f.segments) : f.segments[k] \in LiveSegments
  PROVE  Restacked(f, restore(f, address))
<1>1. PICK g, l, m : /\ g = f.segments /\ l = f.log /\ m = f.marks
                     /\ g \in Seq(Segment) /\ l \in Seq(Entry) /\ m \in MarkTable
  BY FrameTyped DEF Stacked
<1>2. Formed(g, l) /\ Laid(g, l, m) /\ Apart(g)
  BY <1>1 DEF Stacked, Sound
<1>3. PICK p \in 1..Len(l) :
        /\ l[p].kind = "mark" /\ l[p].address = address
        /\ \A i \in 1..Len(l) : l[i].kind = "mark" /\ l[i].address = address => i = p
  BY <1>1, <1>2, MarkFound
<1>4. PICK k, c : k = m[address].segments /\ c = m[address].cursor
  OBVIOUS
<1>5. k \in 1..Len(g) /\ c \in Nat /\ c <= g[k].size
  BY <1>1, <1>2, <1>3, <1>4, MarkInside
<1>6. PICK g2 : g2 = [SubSeq(g, 1, k) EXCEPT ![k].cursor = c] /\ g2 \in Seq(Segment) /\ Cut(g, g2, k, c)
  BY <1>1, <1>5, SegmentsCut
<1>7. PICK l2 : l2 = Since(l, address) /\ l2 \in Seq(Entry) /\ Prefix(l, l2, p)
  BY <1>1, <1>3, SinceMark
<1>8. PICK m2 : m2 = [a \in {x \in DOMAIN m : Older(m[x], m[address])} |-> m[a]]
  OBVIOUS
<1>9. m2 \in MarkTable
  <2>1. PICK D \in SUBSET Nat : m \in [D -> Mark]
    BY <1>1 DEF MarkTable
  <2>2. PICK K \in SUBSET Nat : K = {x \in DOMAIN m : Older(m[x], m[address])} /\ K \subseteq D
    BY <2>1
  <2>3. m2 = [a \in K |-> m[a]]
    BY <1>8, <2>2
  <2>4. m2 \in [K -> Mark]
    BY <2>1, <2>2, <2>3
  <2> QED BY <2>2, <2>4 DEF MarkTable
<1>10. PICK f2 : f2 = restore(f, address)
  OBVIOUS
<1>11. f2 = [f EXCEPT !.segments = g2, !.marks = m2, !.log = l2]
  <2>1. f \in FrameRecord
    BY DEF Stacked
  <2>2. f2 = [f EXCEPT !.marks = m2, !.segments = g2, !.log = l2]
    BY <1>1, <1>4, <1>6, <1>7, <1>8, <1>10, <2>1, SMTT(30) DEF restore, FrameRecord
  <2> QED BY <2>1, <2>2 DEF FrameRecord
<1>12. Reworked(f, f2, g2, m2, l2)
  BY <1>6, <1>7, <1>9, <1>11, FrameReworked DEF Stacked
<1>13. Laid(g2, l2, m2)
  <2>1. m[l[p].address] = m[address]
    BY <1>3
  <2>2. Cut(g, g2, m[l[p].address].segments, m[l[p].address].cursor)
    BY <1>4, <1>6, <2>1
  <2>3. Keeps(m, m2, m[l[p].address])
    BY <1>8, <2>1 DEF Keeps
  <2> QED BY <1>1, <1>2, <1>3, <1>6, <1>7, <2>2, <2>3, LaidCut, ZenonT(30)
<1>14. Len(g2) = k /\ \A j \in 1..k : j \in 1..Len(g) /\ SamePlace(g2[j], g[j])
  <2>1. \A j \in 1..k : j \in 1..Len(g)
    BY <1>1, <1>5, SegmentsTyped
  <2> QED BY <1>6, <2>1 DEF Cut, SamePlace
<1>15. Follows(g, g2)
  BY <1>14 DEF Follows
<1>16. Apart(g2)
  BY <1>1, <1>2, <1>6, <1>15, ApartFollows
<1>17. Formed(g2, l2)
  <2>1. ASSUME NEW j \in 1..Len(g2)
        PROVE  g2[j].base \in Memory /\ g2[j].size >= SegmentSize /\ g2[j].cursor <= g2[j].size
    <3>1. j \in 1..k /\ j \in 1..Len(g) /\ SamePlace(g2[j], g[j])
      BY <1>14
    <3>2. g[j].base \in Memory /\ g[j].size >= SegmentSize /\ g[j].cursor <= g[j].size
      BY <1>2, <3>1 DEF Formed
    <3>3. g2[j].cursor <= g[j].size
      <4>1. CASE j < k
        BY <1>6, <3>1, <3>2, <4>1 DEF Cut
      <4>2. CASE j = k
        BY <1>5, <1>6, <4>2 DEF Cut
      <4> QED BY <1>5, <3>1, <4>1, <4>2
    <3> QED BY <3>1, <3>2, <3>3 DEF SamePlace
  <2>2. \A i \in 1..Len(l2) : i \in 1..Len(l) /\ l2[i] = l[i]
    <3>1. Len(l2) = p /\ \A i \in 1..p : l2[i] = l[i]
      BY <1>7 DEF Prefix
    <3>2. \A i \in 1..p : i \in 1..Len(l)
      BY <1>1, LogTyped
    <3> QED BY <3>1, <3>2
  <2> QED BY <1>2, <2>1, <2>2 DEF Formed
<1>18. Sound(f2)
  BY <1>12, <1>13, <1>17 DEF Sound, Stacked, Reworked
<1> QED BY <1>1, <1>10, <1>12, <1>15, <1>16, <1>18 DEF Restacked, Stacked, Reworked

-----------------------------------------------------------------------------
(* The lists of variadic functions.                                        *)

Ordered(F, n) == \A i, j \in 1..n : i < j => F[i] <= F[j]

\* F2 and E2 are F and E without frame n.
Without(F, E, F2, E2, n) ==
  /\ DOMAIN F2 = 1..(n - 1)
  /\ \A i \in 1..(n - 1) : F2[i] = F[i]
  /\ DOMAIN E2 = DOMAIN E \ {n}
  /\ \A i \in DOMAIN E2 : E2[i] = E[i]

\* E2 is E with entry e of frame n.
WithEntry(E, E2, n, e) ==
  /\ n \notin DOMAIN E
  /\ DOMAIN E2 = DOMAIN E \cup {n}
  /\ \A i \in DOMAIN E : E2[i] = E[i]
  /\ E2[n] = e

\* Frame n ends and takes its entries with it.
LEMMA RegisteredWithout ==
  ASSUME NEW S, NEW R \in Seq(S), NEW n \in Nat \ {0}, NEW F, NEW E, NEW F2, NEW E2, NEW R2,
         DOMAIN F = 1..n, DOMAIN E \subseteq 1..n, Ordered(F, n), Registered(R, F, E),
         Without(F, E, F2, E2, n), R2 = SubSeq(R, 1, F[n])
  PROVE  R2 \in Seq(S) /\ Registered(R2, F2, E2)
<1>1. PICK len \in Nat : len = Len(R) /\ DOMAIN R = 1..len
  BY LenProperties
<1>2. \A i \in 1..n : F[i] \in 0..len
  BY <1>1 DEF Registered
<1>3. PICK top \in 0..len : top = F[n]
  BY <1>2
<1>4. R2 \in Seq(S) /\ Len(R2) = top /\ \A k \in 1..top : R2[k] = R[k]
  <2>1. top \in Nat /\ top <= len
    BY <1>3
  <2>2. SubSeq(R, 1, top) \in Seq(S) /\ Len(SubSeq(R, 1, top)) = top
        /\ \A k \in 1..top : SubSeq(R, 1, top)[k] = R[k]
    BY <1>1, <2>1, SubSeqProperties
  <2> QED BY <1>3, <2>2
<1>5. DOMAIN R2 = 1..top
  BY <1>4, LenProperties
<1>6. ASSUME NEW i \in DOMAIN F2
      PROVE  F2[i] \in 0..top
  <2>1. i \in 1..n /\ i < n /\ F2[i] = F[i] /\ n \in 1..n
    BY DEF Without
  <2>2. F[i] <= F[n] /\ F[i] \in 0..len
    BY <1>2, <2>1 DEF Ordered
  <2> QED BY <1>3, <2>1, <2>2
<1>7. ASSUME NEW i \in DOMAIN E2
      PROVE  F2[i] + 1 \in DOMAIN R2 /\ R2[F2[i] + 1] = E2[i]
  <2>1. i \in DOMAIN E /\ i \in 1..n /\ i # n /\ E2[i] = E[i]
    BY DEF Without
  <2>2. i < n /\ n \in DOMAIN F /\ i \in 1..(n - 1)
    BY <2>1
  <2>3. F[i] < F[n] /\ F2[i] = F[i] /\ R[F[i] + 1] = E[i]
    BY <2>1, <2>2 DEF Registered, Without
  <2>4. F[i] \in 0..len
    BY <1>2, <2>1
  <2>5. F[i] + 1 \in 1..top
    BY <1>3, <2>3, <2>4
  <2> QED BY <1>4, <1>5, <2>1, <2>3, <2>5
<1>8. ASSUME NEW k \in DOMAIN R2
      PROVE  \E i \in DOMAIN E2 : k = F2[i] + 1
  <2>1. k \in 1..top /\ k \in DOMAIN R
    BY <1>1, <1>3, <1>5
  <2>2. PICK i \in DOMAIN E : k = F[i] + 1
    BY <2>1 DEF Registered
  <2>3. i # n
    BY <1>3, <2>1, <2>2
  <2>4. i \in DOMAIN E2 /\ i \in 1..(n - 1)
    BY <2>3 DEF Without
  <2> QED BY <2>2, <2>4 DEF Without
<1>9. ASSUME NEW i \in DOMAIN E2, NEW j \in DOMAIN F2, i < j
      PROVE  F2[i] < F2[j]
  <2>1. i \in DOMAIN E /\ j \in DOMAIN F /\ i # n /\ i \in 1..n
    BY DEF Without
  <2>2. i \in 1..(n - 1) /\ j \in 1..(n - 1)
    BY <2>1 DEF Without
  <2> QED BY <1>9, <2>1, <2>2 DEF Registered, Without
<1>10. DOMAIN F2 = 1..(n - 1) /\ Len(R2) = top
  BY <1>4 DEF Without
<1> QED BY <1>4, <1>6, <1>7, <1>8, <1>9, <1>10 DEF Registered

\* Frame n + 1 begins.
LEMMA RegisteredWith ==
  ASSUME NEW S, NEW R \in Seq(S), NEW n \in Nat, NEW F, NEW E, NEW F2,
         DOMAIN F = 1..n, DOMAIN E \subseteq 1..n, Ordered(F, n), Registered(R, F, E),
         DOMAIN F2 = 1..(n + 1), \A i \in 1..n : F2[i] = F[i], F2[n + 1] = Len(R)
  PROVE  Registered(R, F2, E) /\ Ordered(F2, n + 1)
<1>1. PICK len \in Nat : len = Len(R) /\ DOMAIN R = 1..len
  BY LenProperties
<1>2. \A i \in 1..n : F[i] \in 0..len /\ F2[i] = F[i]
  BY <1>1 DEF Registered
<1>3. \A i \in 1..(n + 1) : i \in 1..n \/ i = n + 1
  OBVIOUS
<1>4. \A i \in DOMAIN F2 : F2[i] \in 0..Len(R)
  BY <1>1, <1>2, <1>3
<1>5. \A i \in DOMAIN E : F2[i] = F[i] /\ i \in 1..n /\ F[i] + 1 \in DOMAIN R /\ R[F[i] + 1] = E[i]
  BY <1>2 DEF Registered
<1>6. \A k \in DOMAIN R : \E i \in DOMAIN E : k = F2[i] + 1
  BY <1>5 DEF Registered
<1>7. ASSUME NEW i \in DOMAIN E, NEW j \in DOMAIN F2, i < j
      PROVE  F2[i] < F2[j]
  <2>1. CASE j \in 1..n
    BY <1>2, <1>5, <1>7, <2>1 DEF Registered
  <2>2. CASE j = n + 1
    BY <1>1, <1>2, <1>5, <2>2
  <2> QED BY <1>3, <2>1, <2>2
<1>8. ASSUME NEW i \in 1..(n + 1), NEW j \in 1..(n + 1), i < j
      PROVE  F2[i] <= F2[j]
  <2>1. i \in 1..n
    BY <1>8
  <2>2. CASE j \in 1..n
    BY <1>2, <1>8, <2>1, <2>2 DEF Ordered
  <2>3. CASE j = n + 1
    BY <1>1, <1>2, <2>1, <2>3
  <2> QED BY <1>3, <2>2, <2>3
<1> QED BY <1>4, <1>5, <1>6, <1>7, <1>8 DEF Registered, Ordered

\* The last frame gets an entry.
LEMMA RegisteredEntry ==
  ASSUME NEW S, NEW R \in Seq(S), NEW n \in Nat \ {0}, NEW F, NEW E, NEW E2, NEW e \in S, NEW R2,
         DOMAIN F = 1..n, DOMAIN E \subseteq 1..n, Registered(R, F, E), WithEntry(E, E2, n, e),
         R2 = Append(R, e)
  PROVE  R2 \in Seq(S) /\ Registered(R2, F, E2)
<1>1. PICK len \in Nat : len = Len(R) /\ DOMAIN R = 1..len
  BY LenProperties
<1>2. \A i \in 1..n : F[i] \in 0..len
  BY <1>1 DEF Registered
<1>3. R2 \in Seq(S) /\ Len(R2) = len + 1 /\ R2[len + 1] = e /\ \A k \in 1..len : R2[k] = R[k]
  BY <1>1, AppendProperties
<1>4. DOMAIN R2 = 1..(len + 1)
  BY <1>3, LenProperties
<1>5. F[n] = len
  <2>1. SUFFICES ASSUME F[n] + 1 \in 1..len PROVE FALSE
    BY <1>2
  <2>2. PICK i \in DOMAIN E : F[n] + 1 = F[i] + 1
    BY <1>1, <2>1 DEF Registered
  <2>3. i # n /\ i \in 1..n /\ n \in DOMAIN F
    BY DEF WithEntry
  <2>4. F[i] < F[n]
    BY <2>3 DEF Registered
  <2> QED BY <1>2, <2>2, <2>3, <2>4
<1>6. ASSUME NEW i \in DOMAIN E2
      PROVE  F[i] + 1 \in DOMAIN R2 /\ R2[F[i] + 1] = E2[i]
  <2>1. CASE i = n
    BY <1>3, <1>4, <1>5, <2>1 DEF WithEntry
  <2>2. CASE i \in DOMAIN E
    <3>1. F[i] + 1 \in 1..len /\ R[F[i] + 1] = E[i] /\ E2[i] = E[i]
      BY <1>1, <2>2 DEF Registered, WithEntry
    <3> QED BY <1>3, <1>4, <3>1
  <2> QED BY <2>1, <2>2 DEF WithEntry
<1>7. ASSUME NEW k \in DOMAIN R2
      PROVE  \E i \in DOMAIN E2 : k = F[i] + 1
  <2>1. CASE k \in 1..len
    <3>1. PICK i \in DOMAIN E : k = F[i] + 1
      BY <1>1, <2>1 DEF Registered
    <3> QED BY <3>1 DEF WithEntry
  <2>2. CASE k = len + 1
    BY <1>5, <2>2 DEF WithEntry
  <2> QED BY <1>4, <2>1, <2>2
<1>8. ASSUME NEW i \in DOMAIN E2, NEW j \in DOMAIN F, i < j
      PROVE  F[i] < F[j]
  <2>1. i # n
    BY <1>8
  <2>2. i \in DOMAIN E
    BY <2>1 DEF WithEntry
  <2> QED BY <1>8, <2>2 DEF Registered
<1>9. \A i \in DOMAIN F : F[i] \in 0..Len(R2)
  BY <1>2, <1>3
<1> QED BY <1>3, <1>6, <1>7, <1>8, <1>9 DEF Registered

-----------------------------------------------------------------------------
(* The list of frames.                                                     *)

FirstAreas == [i \in DOMAIN frames |-> frames[i].regions]
FirstNatives == [i \in DOMAIN frames |-> frames[i].natives]
AreaEntries ==
  [i \in {n \in DOMAIN frames : frames[n].area # 0} |->
     [area |-> frames[i].area, capacity |-> frames[i].unnamed]]
NativeEntries == [i \in {n \in DOMAIN frames : frames[n].native} |-> [area |-> frames[i].id]]

\* VariadicsAlive, with the two lists by name.
LEMMA VariadicsListed ==
  VariadicsAlive <=> /\ Registered(variadic_areas, FirstAreas, AreaEntries)
                     /\ Registered(native_variadics, FirstNatives, NativeEntries)
BY DEF VariadicsAlive, FirstAreas, FirstNatives, AreaEntries, NativeEntries

\* What the list of frames consists of.
LEMMA FramesTyped ==
  ASSUME frames \in Seq(FrameRecord)
  PROVE  /\ Len(frames) \in Nat /\ DOMAIN frames = 1..Len(frames)
         /\ frames = <<>> <=> Len(frames) = 0
         /\ \A i \in 1..Len(frames) : frames[i] \in FrameRecord
BY LenProperties, ElementOfSeq, EmptySeq

\* The segments of a frame are live.
LEMMA OwnLive ==
  ASSUME frames \in Seq(FrameRecord), NEW i \in DOMAIN frames
  PROVE  \A k \in 1..Len(frames[i].segments) : frames[i].segments[k] \in LiveSegments
<1>1. frames[i] \in FrameRecord
  BY FramesTyped
<1>2. DOMAIN frames[i].segments = 1..Len(frames[i].segments)
  BY <1>1, FrameTyped, SegmentsTyped
<1> QED BY <1>2 DEF LiveSegments

\* The stack of every frame is laid out.
LEMMA FramesStacked ==
  ASSUME FramesInv, NEW i \in DOMAIN frames
  PROVE  Stacked(frames[i])
<1>1. frames[i] \in FrameRecord /\ Sound(frames[i])
  BY FramesTyped DEF FramesInv, Typed
<1>2. DOMAIN frames[i].segments = 1..Len(frames[i].segments)
  BY <1>1, FrameTyped, SegmentsTyped
<1>3. Apart(frames[i].segments)
  BY <1>2 DEF FramesInv, AllApart, Apart
<1> QED BY <1>1, <1>3 DEF Stacked

\* A frame's stack changed, or a frame was added, in memory that was clear.
LEMMA AllApartKept ==
  ASSUME frames \in Seq(FrameRecord), frames' \in Seq(FrameRecord), AllApart, NEW n,
         \A i \in DOMAIN frames' : i # n =>
           i \in DOMAIN frames /\ frames'[i].segments = frames[i].segments,
         n \in DOMAIN frames' =>
           \E g \in Seq(Segment) :
             /\ Follows(g, frames'[n].segments)
             /\ Apart(frames'[n].segments)
             /\ Len(g) = 0 \/ (n \in DOMAIN frames /\ g = frames[n].segments)
  PROVE  AllApart'
<1>1. \A i \in DOMAIN frames : DOMAIN frames[i].segments = 1..Len(frames[i].segments)
  BY FramesTyped, FrameTyped, SegmentsTyped
<1>2. \A i \in DOMAIN frames' : /\ DOMAIN frames'[i].segments = 1..Len(frames'[i].segments)
                                /\ frames'[i].segments \in Seq(Segment)
  <2>1. \A i \in DOMAIN frames' : frames'[i] \in FrameRecord
    BY ElementOfSeq, LenProperties
  <2> QED BY <2>1, FrameTyped, SegmentsTyped
<1>3. ASSUME NEW i \in DOMAIN frames', i # n, NEW k \in DOMAIN frames'[i].segments,
             n \in DOMAIN frames', NEW l \in DOMAIN frames'[n].segments
      PROVE  Gap(frames'[i].segments[k], frames'[n].segments[l])
  <2>1. PICK g \in Seq(Segment) :
             /\ Follows(g, frames'[n].segments)
             /\ Len(g) = 0 \/ (n \in DOMAIN frames /\ g = frames[n].segments)
    BY <1>3
  <2>2. i \in DOMAIN frames /\ k \in DOMAIN frames[i].segments /\ frames'[i].segments[k] = frames[i].segments[k]
    BY <1>3
  <2>3. l \in 1..Len(frames'[n].segments)
    BY <1>2, <1>3
  <2>4. CASE l \in 1..Len(g) /\ SamePlace(frames'[n].segments[l], g[l])
    <3>1. n \in DOMAIN frames /\ g = frames[n].segments
      BY <2>1, <2>4
    <3>2. l \in DOMAIN frames[n].segments
      BY <1>1, <2>4, <3>1
    <3>3. Gap(frames[i].segments[k], frames[n].segments[l])
      BY <1>3, <2>2, <3>1, <3>2 DEF AllApart
    <3> QED BY <2>2, <2>4, <3>1, <3>3 DEF Gap, SamePlace
  <2>5. CASE Clear(frames'[n].segments[l])
    <3>1. frames[i].segments[k] \in LiveSegments
      BY <2>2 DEF LiveSegments
    <3>2. Gap(frames'[n].segments[l], frames[i].segments[k])
      BY <2>5, <3>1 DEF Clear
    <3> QED BY <2>2, <3>2 DEF Gap
  <2> QED BY <2>1, <2>3, <2>4, <2>5 DEF Follows
<1>4. ASSUME NEW i \in DOMAIN frames', NEW j \in DOMAIN frames', NEW k \in DOMAIN frames'[i].segments,
             NEW l \in DOMAIN frames'[j].segments, <<i, k>> # <<j, l>>
      PROVE  Gap(frames'[i].segments[k], frames'[j].segments[l])
  <2>1. CASE i # n /\ j # n
    <3>1. /\ i \in DOMAIN frames /\ frames'[i].segments = frames[i].segments
          /\ j \in DOMAIN frames /\ frames'[j].segments = frames[j].segments
      BY <2>1
    <3> QED BY <1>4, <3>1 DEF AllApart
  <2>2. CASE i # n /\ j = n
    BY <1>3, <2>2
  <2>3. CASE i = n /\ j # n
    <3>1. Gap(frames'[j].segments[l], frames'[i].segments[k])
      BY <1>3, <2>3
    <3> QED BY <3>1 DEF Gap
  <2>4. CASE i = n /\ j = n
    <3>1. Apart(frames'[n].segments) /\ k # l
      BY <1>4, <2>4
    <3>2. k \in 1..Len(frames'[n].segments) /\ l \in 1..Len(frames'[n].segments)
      BY <1>2, <2>4
    <3> QED BY <2>4, <3>1, <3>2 DEF Apart
  <2> QED BY <2>1, <2>2, <2>3, <2>4
<1> QED BY <1>4 DEF AllApart

\* The frames of the next state are sound when each of them is.
LEMMA SoundKept ==
  ASSUME UNCHANGED program, \A i \in DOMAIN frames' : Sound(frames'[i])
  PROVE  (\A i \in DOMAIN frames : Sound(frames[i]))'
BY DEF Sound, Formed, Memory

\* A step that leaves the frames and their lists alone.
LEMMA FramesSame ==
  ASSUME FramesInv, UNCHANGED <<program, frames, variadic_areas, native_variadics>>
  PROVE  FramesInv'
BY DEF FramesInv, Typed, Sound, Formed, Memory, DepthLimit, Areas, AllApart, VariadicsAlive, Steady

\* Later frames found at least as much registered as earlier ones.
LEMMA FirstsOrdered ==
  ASSUME FramesInv, NEW n, n = Len(frames)
  PROVE  /\ DOMAIN FirstAreas = 1..n /\ DOMAIN AreaEntries \subseteq 1..n /\ Ordered(FirstAreas, n)
         /\ DOMAIN FirstNatives = 1..n /\ DOMAIN NativeEntries \subseteq 1..n
         /\ Ordered(FirstNatives, n)
         /\ Registered(variadic_areas, FirstAreas, AreaEntries)
         /\ Registered(native_variadics, FirstNatives, NativeEntries)
<1>1. DOMAIN frames = 1..n
  BY FramesTyped DEF FramesInv, Typed
<1>2. Ordered(FirstAreas, n) /\ Ordered(FirstNatives, n)
  BY <1>1 DEF FramesInv, Steady, Ordered, FirstAreas, FirstNatives
<1>3. /\ DOMAIN FirstAreas = 1..n /\ DOMAIN AreaEntries \subseteq 1..n
      /\ DOMAIN FirstNatives = 1..n /\ DOMAIN NativeEntries \subseteq 1..n
  BY <1>1 DEF FirstAreas, AreaEntries, FirstNatives, NativeEntries
<1>4. VariadicsAlive
  BY DEF FramesInv
<1> QED BY <1>2, <1>3, <1>4, VariadicsListed

\* The innermost frame ends.
LEMMA FramesLeft ==
  ASSUME program \in Programs, FramesInv, UNCHANGED program, frames # <<>>, Leave
  PROVE  FramesInv'
<1>1. PICK n \in Nat : n = Len(frames) /\ n > 0 /\ DOMAIN frames = 1..n
  <2>1. Len(frames) \in Nat /\ DOMAIN frames = 1..Len(frames) /\ Len(frames) # 0
    BY FramesTyped DEF FramesInv, Typed
  <2>2. Len(frames) > 0
    BY <2>1
  <2>3. PICK n \in Nat : n = Len(frames)
    BY <2>1
  <2> QED BY <2>1, <2>2, <2>3
<1>2. frames \in Seq(FrameRecord)
  BY DEF FramesInv, Typed
<1>3. /\ frames' \in Seq(FrameRecord) /\ Len(frames') = n - 1
      /\ \A i \in 1..(n - 1) : frames'[i] = frames[i]
  <2>1. n - 1 \in Nat /\ n - 1 <= Len(frames) /\ frames' = SubSeq(frames, 1, n - 1)
    BY <1>1 DEF Leave
  <2> QED BY <1>2, <2>1, SubSeqProperties
<1>4. DOMAIN frames' = 1..(n - 1)
  BY <1>3, LenProperties
<1>5. \A i \in DOMAIN frames' : i \in DOMAIN frames /\ i < n /\ frames'[i] = frames[i]
  BY <1>1, <1>3, <1>4
<1>6. (\A i \in DOMAIN frames : Sound(frames[i]))'
  BY <1>5, SoundKept DEF FramesInv
<1>7. AllApart'
  <2>1. n \notin DOMAIN frames'
    BY <1>4
  <2>2. AllApart
    BY DEF FramesInv
  <2> QED BY <1>2, <1>3, <1>5, <2>1, <2>2, AllApartKept
<1>8. (frames # <<>> => frames[1].body \notin JumpBodies)'
  <2> SUFFICES ASSUME frames' # <<>> PROVE frames'[1].body \notin JumpBodies
    OBVIOUS
  <2>1. Len(frames') # 0
    BY <1>3, EmptySeq
  <2>2. 1 \in DOMAIN frames'
    BY <1>1, <1>3, <1>4, <2>1
  <2> QED BY <1>5, <2>2 DEF FramesInv
<1>9. /\ Without(FirstAreas, AreaEntries, FirstAreas', AreaEntries', n)
      /\ Without(FirstNatives, NativeEntries, FirstNatives', NativeEntries', n)
  <2>1. DOMAIN AreaEntries' = DOMAIN AreaEntries \ {n}
    BY <1>1, <1>4, <1>5 DEF AreaEntries
  <2>2. DOMAIN NativeEntries' = DOMAIN NativeEntries \ {n}
    BY <1>1, <1>4, <1>5 DEF NativeEntries
  <2>3. /\ \A i \in DOMAIN AreaEntries' : AreaEntries'[i] = AreaEntries[i]
        /\ \A i \in DOMAIN NativeEntries' : NativeEntries'[i] = NativeEntries[i]
    BY <1>5 DEF AreaEntries, NativeEntries
  <2>4. /\ DOMAIN FirstAreas' = 1..(n - 1) /\ DOMAIN FirstNatives' = 1..(n - 1)
        /\ \A i \in 1..(n - 1) : FirstAreas'[i] = FirstAreas[i] /\ FirstNatives'[i] = FirstNatives[i]
    BY <1>4, <1>5 DEF FirstAreas, FirstNatives
  <2> QED BY <2>1, <2>2, <2>3, <2>4 DEF Without
<1>10. /\ FirstAreas[n] = frames[n].regions /\ FirstNatives[n] = frames[n].natives
       /\ variadic_areas' = SubSeq(variadic_areas, 1, frames[n].regions)
       /\ native_variadics' = SubSeq(native_variadics, 1, frames[n].natives)
  <2>1. n \in DOMAIN frames
    BY <1>1
  <2>2. FirstAreas[n] = frames[n].regions /\ FirstNatives[n] = frames[n].natives
    BY <2>1 DEF FirstAreas, FirstNatives
  <2> QED BY <1>1, <2>2 DEF Leave, Top
<1>11. variadic_areas' \in Seq(VariadicArea) /\ Registered(variadic_areas', FirstAreas', AreaEntries')
  <2>1. variadic_areas \in Seq(VariadicArea) /\ n \in Nat \ {0}
    BY <1>1 DEF FramesInv, Typed
  <2>2. /\ DOMAIN FirstAreas = 1..n /\ DOMAIN AreaEntries \subseteq 1..n /\ Ordered(FirstAreas, n)
        /\ Registered(variadic_areas, FirstAreas, AreaEntries)
    BY <1>1, FirstsOrdered
  <2>3. PICK R2 : R2 = variadic_areas' /\ R2 = SubSeq(variadic_areas, 1, FirstAreas[n])
    BY <1>10
  <2>4. R2 \in Seq(VariadicArea) /\ Registered(R2, FirstAreas', AreaEntries')
    BY <1>9, <2>1, <2>2, <2>3, RegisteredWithout
  <2> QED BY <2>3, <2>4
<1>12. /\ native_variadics' \in Seq(NativeList)
       /\ Registered(native_variadics', FirstNatives', NativeEntries')
  <2>1. native_variadics \in Seq(NativeList) /\ n \in Nat \ {0}
    BY <1>1 DEF FramesInv, Typed
  <2>2. /\ DOMAIN FirstNatives = 1..n /\ DOMAIN NativeEntries \subseteq 1..n /\ Ordered(FirstNatives, n)
        /\ Registered(native_variadics, FirstNatives, NativeEntries)
    BY <1>1, FirstsOrdered
  <2>3. PICK R2 : R2 = native_variadics' /\ R2 = SubSeq(native_variadics, 1, FirstNatives[n])
    BY <1>10
  <2>4. R2 \in Seq(NativeList) /\ Registered(R2, FirstNatives', NativeEntries')
    BY <1>9, <2>1, <2>2, <2>3, RegisteredWithout
  <2> QED BY <2>3, <2>4
<1>13. VariadicsAlive'
  BY <1>11, <1>12 DEF VariadicsAlive, FirstAreas, FirstNatives, AreaEntries, NativeEntries
<1>14. Steady'
  BY <1>5 DEF FramesInv, Steady
<1>15. (\A i \in DOMAIN frames : frames[i].id \in Areas \cup {0} /\ frames[i].area \in Areas \cup {0})'
  BY <1>5 DEF FramesInv, Areas, DepthLimit
<1>16. Typed'
  <2>1. n <= DepthLimit /\ DepthLimit' = DepthLimit
    BY <1>1 DEF FramesInv, Typed, DepthLimit
  <2>2. n - 1 <= DepthLimit
    <3>1. DepthLimit \in Nat
      BY ProgramTyped
    <3> QED BY <2>1, <3>1
  <2> QED BY <1>3, <1>11, <1>12, <2>1, <2>2 DEF Typed
<1> QED BY <1>6, <1>7, <1>8, <1>13, <1>14, <1>15, <1>16 DEF FramesInv

\* What holds of the innermost frame.
LEMMA TopFrame ==
  ASSUME FramesInv, frames # <<>>
  PROVE  /\ Len(frames) \in Nat /\ Len(frames) > 0
         /\ DOMAIN frames = 1..Len(frames) /\ Len(frames) \in DOMAIN frames
         /\ Top = frames[Len(frames)] /\ Top \in FrameRecord /\ Stacked(Top)
         /\ \A k \in 1..Len(Top.segments) : Top.segments[k] \in LiveSegments
<1>1. Len(frames) \in Nat /\ DOMAIN frames = 1..Len(frames) /\ Len(frames) # 0
  BY FramesTyped DEF FramesInv, Typed
<1>2. Len(frames) > 0 /\ Len(frames) \in DOMAIN frames
  BY <1>1
<1>3. Top = frames[Len(frames)]
  BY DEF Top
<1>4. Stacked(Top)
  BY <1>2, <1>3, FramesStacked
<1>5. \A k \in 1..Len(Top.segments) : Top.segments[k] \in LiveSegments
  BY <1>2, <1>3, OwnLive DEF FramesInv, Typed
<1> QED BY <1>1, <1>2, <1>3, <1>4, <1>5 DEF Stacked

\* The stack of the innermost frame changed.
LEMMA FramesRestacked ==
  ASSUME program \in Programs, FramesInv, UNCHANGED <<program, variadic_areas, native_variadics>>,
         frames # <<>>, NEW f, Restacked(Top, f), SetTop(f)
  PROVE  FramesInv'
<1>1. PICK n \in Nat : n = Len(frames) /\ n > 0
  BY TopFrame
<1>2. /\ DOMAIN frames = 1..n /\ n \in 1..n /\ Top = frames[n]
      /\ frames \in Seq(FrameRecord) /\ f \in FrameRecord
  BY <1>1, TopFrame DEF FramesInv, Typed, Restacked, Stacked
<1>3. /\ frames' \in Seq(FrameRecord) /\ Len(frames') = n
      /\ \A i \in 1..n : frames'[i] = IF i = n THEN f ELSE frames[i]
  BY <1>1, <1>2, ExceptSeq DEF SetTop
<1>4. DOMAIN frames' = 1..n
  BY <1>3, LenProperties
<1>5. Reworked(frames[n], f, f.segments, f.marks, f.log)
  BY <1>2 DEF Restacked
<1>6. ASSUME NEW i \in 1..n
      PROVE  /\ frames'[i].body = frames[i].body /\ frames'[i].unnamed = frames[i].unnamed
             /\ frames'[i].native = frames[i].native /\ frames'[i].id = frames[i].id
             /\ frames'[i].area = frames[i].area /\ frames'[i].regions = frames[i].regions
             /\ frames'[i].natives = frames[i].natives
  BY <1>3, <1>5 DEF Reworked
<1>7. (\A i \in DOMAIN frames : Sound(frames[i]))'
  <2>1. Sound(f)
    BY DEF Restacked, Stacked
  <2>2. \A i \in DOMAIN frames' : Sound(frames'[i])
    BY <1>2, <1>3, <1>4, <2>1 DEF FramesInv
  <2> QED BY <2>2, SoundKept
<1>8. AllApart'
  <2>1. PICK g \in Seq(Segment) : g = frames[n].segments
    BY <1>1, <1>2, FramesTyped, FrameTyped
  <2>2. Follows(g, frames'[n].segments) /\ Apart(frames'[n].segments)
    BY <1>2, <1>3, <2>1 DEF Restacked, Stacked
  <2>3. \A i \in DOMAIN frames' : i # n =>
          i \in DOMAIN frames /\ frames'[i].segments = frames[i].segments
    BY <1>2, <1>3, <1>4
  <2>4. AllApart /\ n \in DOMAIN frames
    BY <1>2 DEF FramesInv
  <2> QED BY <1>2, <1>3, <2>1, <2>2, <2>3, <2>4, AllApartKept
<1>9. (frames # <<>> => frames[1].body \notin JumpBodies)'
  BY <1>1, <1>6 DEF FramesInv
<1>10. VariadicsAlive'
  <2>1. FirstAreas' = FirstAreas /\ FirstNatives' = FirstNatives
    BY <1>2, <1>4, <1>6 DEF FirstAreas, FirstNatives
  <2>2. {i \in DOMAIN frames' : frames'[i].area # 0} = {i \in DOMAIN frames : frames[i].area # 0}
    BY <1>2, <1>4, <1>6
  <2>3. {i \in DOMAIN frames' : frames'[i].native} = {i \in DOMAIN frames : frames[i].native}
    BY <1>2, <1>4, <1>6
  <2>4. AreaEntries' = AreaEntries
    BY <1>2, <1>6, <2>2 DEF AreaEntries
  <2>5. NativeEntries' = NativeEntries
    BY <1>2, <1>6, <2>3 DEF NativeEntries
  <2>6. /\ Registered(variadic_areas', FirstAreas', AreaEntries')
        /\ Registered(native_variadics', FirstNatives', NativeEntries')
    BY <1>1, <2>1, <2>4, <2>5, FirstsOrdered
  <2> QED BY <2>6 DEF VariadicsAlive, FirstAreas, FirstNatives, AreaEntries, NativeEntries
<1>11. Steady'
  BY <1>2, <1>4, <1>6 DEF FramesInv, Steady
<1>12. (\A i \in DOMAIN frames : frames[i].id \in Areas \cup {0} /\ frames[i].area \in Areas \cup {0})'
  BY <1>2, <1>4, <1>6 DEF FramesInv, Areas, DepthLimit
<1>13. Typed'
  BY <1>1, <1>3 DEF FramesInv, Typed, DepthLimit
<1> QED BY <1>7, <1>8, <1>9, <1>10, <1>11, <1>12, <1>13 DEF FramesInv

\* The innermost frame lays out its unnamed arguments.
LEMMA AreaStarted ==
  ASSUME program \in Programs, FramesInv, UNCHANGED <<program, native_variadics>>,
         frames # <<>>, Top.area = 0, NEW area \in Areas, SetTop([Top EXCEPT !.area = area]),
         variadic_areas' = Append(variadic_areas, [area |-> area, capacity |-> Top.unnamed])
  PROVE  FramesInv'
<1>1. PICK n \in Nat : n = Len(frames) /\ n > 0
  BY TopFrame
<1>2. /\ DOMAIN frames = 1..n /\ n \in 1..n /\ Top = frames[n]
      /\ frames \in Seq(FrameRecord) /\ Top \in FrameRecord
  BY <1>1, TopFrame DEF FramesInv, Typed
<1>3. PICK f \in FrameRecord :
        /\ f = [Top EXCEPT !.area = area] /\ f.area = area
        /\ f.segments = Top.segments /\ f.log = Top.log /\ f.marks = Top.marks
        /\ f.body = Top.body /\ f.pc = Top.pc /\ f.unnamed = Top.unnamed
        /\ f.native = Top.native /\ f.id = Top.id
        /\ f.regions = Top.regions /\ f.natives = Top.natives
  <2>1. area \in Nat
    BY DEF Areas
  <2>2. PICK f : f = [Top EXCEPT !.area = area]
    OBVIOUS
  <2>3. f \in FrameRecord /\ f.area = area
    BY <1>2, <2>1, <2>2 DEF FrameRecord
  <2>4. /\ f.segments = Top.segments /\ f.log = Top.log /\ f.marks = Top.marks
        /\ f.body = Top.body /\ f.pc = Top.pc /\ f.unnamed = Top.unnamed
        /\ f.native = Top.native /\ f.id = Top.id
        /\ f.regions = Top.regions /\ f.natives = Top.natives
    BY <1>2, <2>2 DEF FrameRecord
  <2> QED BY <2>2, <2>3, <2>4
<1>4. /\ frames' \in Seq(FrameRecord) /\ Len(frames') = n
      /\ \A i \in 1..n : frames'[i] = IF i = n THEN f ELSE frames[i]
  BY <1>1, <1>2, <1>3, ExceptSeq DEF SetTop
<1>5. DOMAIN frames' = 1..n
  BY <1>4, LenProperties
<1>6. ASSUME NEW i \in 1..n
      PROVE  /\ frames'[i].body = frames[i].body /\ frames'[i].unnamed = frames[i].unnamed
             /\ frames'[i].native = frames[i].native /\ frames'[i].id = frames[i].id
             /\ frames'[i].regions = frames[i].regions /\ frames'[i].natives = frames[i].natives
             /\ frames'[i].segments = frames[i].segments
             /\ i # n => frames'[i].area = frames[i].area
             /\ i = n => frames'[i].area = area
  BY <1>2, <1>3, <1>4
<1>7. (\A i \in DOMAIN frames : Sound(frames[i]))'
  <2>1. Sound(f)
    BY <1>2, <1>3 DEF FramesInv, Sound
  <2>2. \A i \in DOMAIN frames' : Sound(frames'[i])
    BY <1>2, <1>4, <1>5, <2>1 DEF FramesInv
  <2> QED BY <2>2, SoundKept
<1>8. AllApart'
  <2>1. \A i \in DOMAIN frames' : i # 0 =>
          i \in DOMAIN frames /\ frames'[i].segments = frames[i].segments
    BY <1>2, <1>5, <1>6
  <2>2. AllApart /\ 0 \notin DOMAIN frames'
    BY <1>5 DEF FramesInv
  <2> QED BY <1>2, <1>4, <2>1, <2>2, AllApartKept
<1>9. (frames # <<>> => frames[1].body \notin JumpBodies)'
  BY <1>1, <1>6 DEF FramesInv
<1>10. area # 0 /\ area \in Nat
  BY DEF Areas
<1>11. FirstAreas' = FirstAreas /\ FirstNatives' = FirstNatives /\ NativeEntries' = NativeEntries
  <2>1. FirstAreas' = FirstAreas /\ FirstNatives' = FirstNatives
    BY <1>2, <1>5, <1>6 DEF FirstAreas, FirstNatives
  <2>2. {i \in DOMAIN frames' : frames'[i].native} = {i \in DOMAIN frames : frames[i].native}
    BY <1>2, <1>5, <1>6
  <2>3. NativeEntries' = NativeEntries
    BY <1>2, <1>6, <2>2 DEF NativeEntries
  <2> QED BY <2>1, <2>3
<1>12. PICK e \in VariadicArea : e = [area |-> area, capacity |-> Top.unnamed]
  BY <1>2, <1>10, FrameTyped DEF VariadicArea
<1>13. WithEntry(AreaEntries, AreaEntries', n, e)
  <2>1. DOMAIN AreaEntries = {i \in 1..n : frames[i].area # 0}
    BY <1>2 DEF AreaEntries
  <2>2. DOMAIN AreaEntries' = {i \in 1..n : frames'[i].area # 0}
    BY <1>5 DEF AreaEntries
  <2>3. n \notin DOMAIN AreaEntries
    BY <1>2, <2>1
  <2>4. DOMAIN AreaEntries' = DOMAIN AreaEntries \cup {n}
    BY <1>2, <1>6, <1>10, <2>1, <2>2
  <2>5. ASSUME NEW i \in DOMAIN AreaEntries
        PROVE  AreaEntries'[i] = AreaEntries[i]
    <3>1. i \in 1..n /\ i # n /\ i \in DOMAIN AreaEntries'
      BY <2>1, <2>3, <2>4
    <3>2. frames'[i].area = frames[i].area /\ frames'[i].unnamed = frames[i].unnamed
      BY <1>6, <3>1
    <3>3. AreaEntries[i] = [area |-> frames[i].area, capacity |-> frames[i].unnamed]
      BY DEF AreaEntries
    <3>4. AreaEntries'[i] = [area |-> frames'[i].area, capacity |-> frames'[i].unnamed]
      BY <3>1 DEF AreaEntries
    <3> QED BY <3>2, <3>3, <3>4
  <2>6. AreaEntries'[n] = e
    <3>1. n \in DOMAIN AreaEntries'
      BY <2>4
    <3>2. AreaEntries'[n] = [area |-> frames'[n].area, capacity |-> frames'[n].unnamed]
      BY <3>1 DEF AreaEntries
    <3> QED BY <1>2, <1>6, <1>12, <3>2
  <2> QED BY <2>3, <2>4, <2>5, <2>6 DEF WithEntry
<1>14. variadic_areas' \in Seq(VariadicArea) /\ Registered(variadic_areas', FirstAreas', AreaEntries')
  <2>1. variadic_areas \in Seq(VariadicArea) /\ n \in Nat \ {0}
    BY <1>1 DEF FramesInv, Typed
  <2>2. /\ DOMAIN FirstAreas = 1..n /\ DOMAIN AreaEntries \subseteq 1..n
        /\ Registered(variadic_areas, FirstAreas, AreaEntries)
    BY <1>1, FirstsOrdered
  <2>3. PICK R2 : R2 = variadic_areas' /\ R2 = Append(variadic_areas, e)
    BY <1>12
  <2>4. R2 \in Seq(VariadicArea) /\ Registered(R2, FirstAreas, AreaEntries')
    BY <1>13, <2>1, <2>2, <2>3, RegisteredEntry
  <2> QED BY <1>11, <2>3, <2>4
<1>15. Registered(native_variadics', FirstNatives', NativeEntries')
  BY <1>1, <1>11, FirstsOrdered
<1>16. VariadicsAlive'
  BY <1>14, <1>15 DEF VariadicsAlive, FirstAreas, FirstNatives, AreaEntries, NativeEntries
<1>17. Steady'
  BY <1>2, <1>5, <1>6 DEF FramesInv, Steady
<1>18. (\A i \in DOMAIN frames : frames[i].id \in Areas \cup {0} /\ frames[i].area \in Areas \cup {0})'
  BY <1>2, <1>5, <1>6 DEF FramesInv, Areas, DepthLimit
<1>19. Typed'
  BY <1>1, <1>4, <1>14 DEF FramesInv, Typed, DepthLimit
<1> QED BY <1>7, <1>8, <1>9, <1>16, <1>17, <1>18, <1>19 DEF FramesInv

\* There is an id left for the list of a native caller.
LEMMA IdLeft ==
  ASSUME program \in Programs, FramesInv, Len(frames) < DepthLimit
  PROVE  \E n \in Areas : n \notin NativeIds
<1>1. PICK n \in Nat : n = Len(frames) /\ DOMAIN frames = 1..n
  <2>1. Len(frames) \in Nat /\ DOMAIN frames = 1..Len(frames)
    BY FramesTyped DEF FramesInv, Typed
  <2> QED BY <2>1
<1>2. PICK limit \in Nat : limit = DepthLimit /\ n < limit
  BY <1>1, ProgramTyped
<1>3. NativeIds \subseteq {frames[i].id : i \in 1..n}
  <2>1. ASSUME NEW k \in DOMAIN native_variadics
        PROVE  \E i \in 1..n : native_variadics[k].area = frames[i].id
    <3>1. PICK i \in DOMAIN NativeEntries : k = FirstNatives[i] + 1
      BY <1>1, FirstsOrdered DEF Registered
    <3>2. native_variadics[k] = NativeEntries[i]
      BY <1>1, <3>1, FirstsOrdered DEF Registered
    <3>3. i \in 1..n /\ NativeEntries[i] = [area |-> frames[i].id]
      BY <1>1 DEF NativeEntries
    <3> QED BY <3>2, <3>3
  <2> QED BY <2>1 DEF NativeIds
<1> SUFFICES ASSUME Areas \subseteq NativeIds PROVE FALSE
  OBVIOUS
<1> DEFINE h == [a \in 1..limit |-> CHOOSE i \in 1..n : frames[i].id = a]
<1>4. \A a \in 1..limit : h[a] \in 1..n /\ frames[h[a]].id = a
  BY <1>2, <1>3 DEF Areas
<1>5. h \in [1..limit -> 1..n]
  BY <1>4
<1>6. IsFiniteSet(1..limit) /\ IsFiniteSet(1..n) /\ Cardinality(1..n) < Cardinality(1..limit)
  <2>1. ASSUME NEW m \in Nat
        PROVE  IsFiniteSet(1..m) /\ Cardinality(1..m) = m
    <3>1. IsFiniteSet(1..m) /\ Cardinality(1..m) = IF 1 > m THEN 0 ELSE m - 1 + 1
      BY FS_Interval
    <3> QED BY <3>1
  <2>2. Cardinality(1..n) = n /\ Cardinality(1..limit) = limit
    BY <2>1
  <2> QED BY <1>2, <2>1, <2>2
<1> HIDE DEF h
<1>7. \E a, b \in 1..limit : a # b /\ h[a] = h[b]
  BY <1>5, <1>6, FS_PigeonHole
<1> QED BY <1>4, <1>7

\* A frame as initialize leaves it, before its block argument.
LEMMA FrameBegins ==
  ASSUME program \in Programs, FramesInv, NEW body \in Bodies, NEW unnamed \in program.unnamed,
         NEW native \in BOOLEAN, NEW id \in Nat
  PROVE  LET f == Frame(body, unnamed, native, id)
         IN  /\ Stacked(f) /\ f.segments = <<>> /\ f.body = body /\ f.unnamed = unnamed
             /\ f.native = native /\ f.id = id /\ f.area = 0
             /\ f.regions = Len(variadic_areas) /\ f.natives = Len(native_variadics)
<1>1. PICK f : f = Frame(body, unnamed, native, id)
  OBVIOUS
<1>2. /\ f.segments = <<>> /\ f.marks = <<>> /\ f.log = <<>> /\ f.body = body /\ f.pc = body
      /\ f.unnamed = unnamed /\ f.native = native /\ f.id = id /\ f.area = 0
      /\ f.regions = Len(variadic_areas) /\ f.natives = Len(native_variadics)
  BY <1>1 DEF Frame
<1>3. Len(variadic_areas) \in Nat /\ Len(native_variadics) \in Nat
  BY LenProperties DEF FramesInv, Typed
<1>4. unnamed \in Nat \cup {-1}
  BY ProgramTyped
<1>5. <<>> \in MarkTable
  <2>1. <<>> \in [{} -> Mark]
    OBVIOUS
  <2> QED BY <2>1 DEF MarkTable
<1>6. <<>> \in Seq(Segment) /\ <<>> \in Seq(Entry) /\ Len(<<>>) = 0 /\ 1..0 = {}
  OBVIOUS
<1>7. f \in FrameRecord
  BY <1>1, <1>3, <1>4, <1>5, <1>6 DEF Frame, FrameRecord
<1>8. Formed(<<>>, <<>>) /\ Apart(<<>>)
  BY <1>6 DEF Formed, Apart
<1>9. Sound(f)
  BY <1>2, <1>8, LaidEmpty DEF Sound
<1> QED BY <1>1, <1>2, <1>7, <1>8, <1>9 DEF Stacked

\* A frame that was not there begins: it has no area yet.
LEMMA FramesPushed ==
  ASSUME program \in Programs, FramesInv, UNCHANGED <<program, variadic_areas>>,
         Len(frames) < DepthLimit, NEW f0, NEW f, Stacked(f0), f0.segments = <<>>, f0.area = 0,
         f0.regions = Len(variadic_areas), f0.natives = Len(native_variadics),
         f0.id \in Areas \cup {0}, frames = <<>> => f0.body \notin JumpBodies,
         Restacked(f0, f), frames' = Append(frames, f),
         native_variadics' = IF f0.native THEN Append(native_variadics, [area |-> f0.id])
                             ELSE native_variadics
  PROVE  FramesInv'
<1>1. PICK n \in Nat : n = Len(frames) /\ DOMAIN frames = 1..n /\ (frames = <<>> <=> n = 0)
  <2>1. Len(frames) \in Nat /\ DOMAIN frames = 1..Len(frames) /\ (frames = <<>> <=> Len(frames) = 0)
    BY FramesTyped DEF FramesInv, Typed
  <2> QED BY <2>1
<1>2. /\ frames \in Seq(FrameRecord) /\ f \in FrameRecord
      /\ f.body = f0.body /\ f.native = f0.native /\ f.id = f0.id /\ f.area = 0
      /\ f.regions = Len(variadic_areas) /\ f.natives = Len(native_variadics)
  BY DEF FramesInv, Typed, Restacked, Reworked
<1>3. /\ frames' \in Seq(FrameRecord) /\ Len(frames') = n + 1
      /\ \A i \in 1..n : frames'[i] = frames[i]
      /\ frames'[n + 1] = f
  BY <1>1, <1>2, AppendProperties
<1>4. DOMAIN frames' = 1..(n + 1)
  BY <1>3, LenProperties
<1>5. \A i \in 1..(n + 1) : i \in 1..n \/ i = n + 1
  OBVIOUS
<1>6. (\A i \in DOMAIN frames : Sound(frames[i]))'
  <2>1. Sound(f)
    BY DEF Restacked, Stacked
  <2>2. \A i \in DOMAIN frames' : Sound(frames'[i])
    BY <1>1, <1>3, <1>4, <1>5, <2>1 DEF FramesInv
  <2> QED BY <2>2, SoundKept
<1>7. AllApart'
  <2>1. PICK g \in Seq(Segment) : g = f0.segments /\ Len(g) = 0
    BY EmptySegments, FrameTyped DEF Stacked
  <2>2. Follows(g, frames'[n + 1].segments) /\ Apart(frames'[n + 1].segments)
    BY <1>3, <2>1 DEF Restacked, Stacked
  <2>3. \A i \in DOMAIN frames' : i # n + 1 =>
          i \in DOMAIN frames /\ frames'[i].segments = frames[i].segments
    BY <1>1, <1>3, <1>4, <1>5
  <2>4. AllApart
    BY DEF FramesInv
  <2> QED BY <1>2, <1>3, <2>1, <2>2, <2>3, <2>4, AllApartKept
<1>8. (frames # <<>> => frames[1].body \notin JumpBodies)'
  <2>1. CASE n = 0
    BY <1>1, <1>2, <1>3, <2>1
  <2>2. CASE n # 0
    BY <1>1, <1>3, <2>2 DEF FramesInv
  <2> QED BY <2>1, <2>2
<1>9. AreaEntries' = AreaEntries
  <2>1. {i \in DOMAIN frames' : frames'[i].area # 0} = {i \in DOMAIN frames : frames[i].area # 0}
    BY <1>1, <1>2, <1>3, <1>4, <1>5
  <2> QED BY <1>1, <1>3, <2>1 DEF AreaEntries
<1>10. /\ DOMAIN FirstAreas' = 1..(n + 1) /\ DOMAIN FirstNatives' = 1..(n + 1)
       /\ \A i \in 1..n : FirstAreas'[i] = FirstAreas[i] /\ FirstNatives'[i] = FirstNatives[i]
       /\ FirstAreas'[n + 1] = Len(variadic_areas) /\ FirstNatives'[n + 1] = Len(native_variadics)
  BY <1>1, <1>2, <1>3, <1>4, <1>5 DEF FirstAreas, FirstNatives
<1>11. variadic_areas \in Seq(VariadicArea) /\ native_variadics \in Seq(NativeList)
  BY DEF FramesInv, Typed
<1>12. /\ Registered(variadic_areas, FirstAreas', AreaEntries)
       /\ Ordered(FirstAreas', n + 1)
  <2>1. /\ DOMAIN FirstAreas = 1..n /\ DOMAIN AreaEntries \subseteq 1..n /\ Ordered(FirstAreas, n)
        /\ Registered(variadic_areas, FirstAreas, AreaEntries)
    BY <1>1, FirstsOrdered
  <2> QED BY <1>10, <1>11, <2>1, RegisteredWith
<1>13. /\ Registered(native_variadics, FirstNatives', NativeEntries)
       /\ Ordered(FirstNatives', n + 1)
  <2>1. /\ DOMAIN FirstNatives = 1..n /\ DOMAIN NativeEntries \subseteq 1..n
        /\ Ordered(FirstNatives, n)
        /\ Registered(native_variadics, FirstNatives, NativeEntries)
    BY <1>1, FirstsOrdered
  <2> QED BY <1>10, <1>11, <2>1, RegisteredWith
<1>14. native_variadics' \in Seq(NativeList) /\ Registered(native_variadics', FirstNatives', NativeEntries')
  <2>1. DOMAIN NativeEntries = {i \in 1..n : frames[i].native}
    BY <1>1 DEF NativeEntries
  <2>2. DOMAIN NativeEntries' = {i \in 1..(n + 1) : frames'[i].native}
    BY <1>4 DEF NativeEntries
  <2>3. \A i \in DOMAIN NativeEntries : i \in DOMAIN NativeEntries' /\ NativeEntries'[i] = NativeEntries[i]
    <3>1. ASSUME NEW i \in DOMAIN NativeEntries
          PROVE  i \in DOMAIN NativeEntries' /\ NativeEntries'[i] = NativeEntries[i]
      <4>1. i \in 1..n /\ frames'[i] = frames[i] /\ i \in 1..(n + 1)
        BY <1>3, <2>1
      <4>2. i \in DOMAIN NativeEntries'
        BY <2>1, <2>2, <4>1
      <4>3. NativeEntries'[i] = [area |-> frames'[i].id] /\ NativeEntries[i] = [area |-> frames[i].id]
        BY <4>2 DEF NativeEntries
      <4> QED BY <4>1, <4>2, <4>3
    <3> QED BY <3>1
  <2>4. CASE ~f0.native
    <3>1. DOMAIN NativeEntries' = DOMAIN NativeEntries
      BY <1>2, <1>3, <1>5, <2>1, <2>2, <2>4
    <3>2. NativeEntries' = NativeEntries
      BY <2>3, <3>1 DEF NativeEntries
    <3> QED BY <1>11, <1>13, <2>4, <3>2
  <2>5. CASE f0.native
    <3>1. PICK e \in NativeList : e = [area |-> f0.id]
      BY DEF NativeList, Areas
    <3>2. n + 1 \in DOMAIN NativeEntries' /\ n + 1 \notin DOMAIN NativeEntries
      <4>1. n + 1 \in 1..(n + 1) /\ n + 1 \notin 1..n
        OBVIOUS
      <4>2. frames'[n + 1].native
        BY <1>2, <1>3, <2>5
      <4> QED BY <2>1, <2>2, <4>1, <4>2
    <3>3. DOMAIN NativeEntries' = DOMAIN NativeEntries \cup {n + 1}
      BY <1>3, <1>5, <2>1, <2>2, <3>2
    <3>4. NativeEntries'[n + 1] = e
      BY <1>2, <1>3, <3>1, <3>2 DEF NativeEntries
    <3>5. WithEntry(NativeEntries, NativeEntries', n + 1, e)
      BY <2>3, <3>2, <3>3, <3>4 DEF WithEntry
    <3>6. DOMAIN NativeEntries \subseteq 1..(n + 1) /\ n + 1 \in Nat \ {0}
      BY <2>1
    <3>7. PICK R2 : R2 = native_variadics' /\ R2 = Append(native_variadics, e)
      BY <2>5, <3>1
    <3>8. R2 \in Seq(NativeList) /\ Registered(R2, FirstNatives', NativeEntries')
      <4>1. PICK m \in Nat \ {0} : m = n + 1
        OBVIOUS
      <4>2. /\ DOMAIN FirstNatives' = 1..m /\ DOMAIN NativeEntries \subseteq 1..m
            /\ WithEntry(NativeEntries, NativeEntries', m, e)
        BY <1>10, <3>5, <3>6, <4>1
      <4>3. PICK F, E, E2, R :
              /\ F = FirstNatives' /\ E2 = NativeEntries' /\ E = NativeEntries
              /\ R = native_variadics
        OBVIOUS
      <4>4. R \in Seq(NativeList) /\ Registered(R, F, E)
        BY <1>11, <1>13, <4>3
      <4>5. DOMAIN F = 1..m /\ DOMAIN E \subseteq 1..m
        BY <4>2, <4>3
      <4>6. WithEntry(E, E2, m, e) /\ R2 = Append(R, e)
        BY <3>7, <4>2, <4>3
      <4>7. R2 \in Seq(NativeList) /\ Registered(R2, F, E2)
        BY <4>4, <4>5, <4>6, RegisteredEntry, ZenonT(30)
      <4> QED BY <4>3, <4>7
    <3> QED BY <3>7, <3>8
  <2> QED BY <2>4, <2>5
<1>15. VariadicsAlive'
  <2>1. Registered(variadic_areas', FirstAreas', AreaEntries')
    BY <1>9, <1>12
  <2> QED BY <1>14, <2>1 DEF VariadicsAlive, FirstAreas, FirstNatives, AreaEntries, NativeEntries
<1>16. Steady'
  BY <1>4, <1>12, <1>13 DEF Steady, Ordered, FirstAreas, FirstNatives
<1>17. (\A i \in DOMAIN frames : frames[i].id \in Areas \cup {0} /\ frames[i].area \in Areas \cup {0})'
  BY <1>1, <1>2, <1>3, <1>4, <1>5 DEF FramesInv, Areas, DepthLimit
<1>18. Typed'
  <2>1. n + 1 <= DepthLimit /\ DepthLimit' = DepthLimit
    <3>1. DepthLimit \in Nat
      BY ProgramTyped
    <3> QED BY <1>1, <3>1 DEF DepthLimit
  <2> QED BY <1>3, <1>11, <1>14, <2>1 DEF Typed
<1> QED BY <1>6, <1>7, <1>8, <1>15, <1>16, <1>17, <1>18 DEF FramesInv

\* A frame that keeps its stack.
LEMMA RestackedItself ==
  ASSUME NEW f, Stacked(f)
  PROVE  Restacked(f, f)
<1>1. Follows(f.segments, f.segments)
  BY FollowsItself DEF SamePlace
<1> QED BY <1>1 DEF Restacked, Reworked, Stacked

\* A new frame with its block argument on its stack (invoke, initialize).
LEMMA FramesEntered ==
  ASSUME program \in Programs, FramesInv, UNCHANGED <<program, variadic_areas>>,
         NEW bodies \in SUBSET Bodies, frames = <<>> => bodies \cap JumpBodies = {},
         NewFrame(bodies)
  PROVE  FramesInv'
<1>1. PICK body \in bodies, unnamed \in program.unnamed, caller \in program.callers,
           block \in program.arguments :
        \E base \in IF block \in Sizes THEN Places(SegmentFor(RoundUp(block))) ELSE {0} :
          Enter(body, unnamed, caller = "native", block, base)
  BY DEF NewFrame
<1>2. PICK base \in IF block \in Sizes THEN Places(SegmentFor(RoundUp(block))) ELSE {0} :
        Enter(body, unnamed, caller = "native", block, base)
  BY <1>1
<1>3. PICK native \in BOOLEAN : native = (caller = "native")
  OBVIOUS
<1>4. PICK id : id = IF native THEN CHOOSE n \in Areas : n \notin NativeIds ELSE 0
  OBVIOUS
<1>5. PICK f0 : f0 = Frame(body, unnamed, native, id)
  OBVIOUS
<1>6. PICK f : f = IF block \in Sizes THEN allocate(f0, block, base) ELSE f0
  OBVIOUS
<1>7. /\ Len(frames) < DepthLimit
      /\ frames' = Append(frames, f)
      /\ native_variadics' = IF native THEN Append(native_variadics, [area |-> id]) ELSE native_variadics
  <2>1. Enter(body, unnamed, native, block, base)
    BY <1>2, <1>3
  <2>2. /\ frames' = Append(frames, IF block \in Sizes
                                    THEN allocate(Frame(body, unnamed, native, id), block, base)
                                    ELSE Frame(body, unnamed, native, id))
        /\ native_variadics' = IF native THEN Append(native_variadics, [area |-> id])
                               ELSE native_variadics
    BY <1>4, <2>1 DEF Enter
  <2>3. Len(frames) < DepthLimit
    BY <2>1 DEF Enter
  <2> QED BY <1>5, <1>6, <2>2, <2>3
<1>8. id \in Areas \cup {0} /\ id \in Nat
  <2>1. \E n \in Areas : n \notin NativeIds
    BY <1>7, IdLeft
  <2>2. id \in Areas \cup {0}
    BY <1>4, <2>1
  <2> QED BY <2>2 DEF Areas
<1>9. /\ Stacked(f0) /\ f0.segments = <<>> /\ f0.body = body /\ f0.native = native /\ f0.id = id
      /\ f0.area = 0 /\ f0.regions = Len(variadic_areas) /\ f0.natives = Len(native_variadics)
  BY <1>5, <1>8, FrameBegins
<1>10. Restacked(f0, f)
  <2>1. CASE block \in Sizes
    <3>1. block \in Nat /\ base \in Places(SegmentFor(RoundUp(block)))
      BY <1>2, <2>1, ProgramTyped
    <3>2. base \in Room(f0, RoundUp(block))
      BY <1>9, <3>1 DEF Room, NeedsSegment
    <3>3. \A k \in 1..Len(f0.segments) : f0.segments[k] \in LiveSegments
      BY <1>9, EmptySegments, FrameTyped DEF Stacked
    <3>4. Restacked(f0, allocate(f0, block, base))
      BY <1>9, <3>1, <3>2, <3>3, Allocated
    <3> QED BY <1>6, <2>1, <3>4
  <2>2. CASE block \notin Sizes
    BY <1>6, <1>9, <2>2, RestackedItself
  <2> QED BY <2>1, <2>2
<1>11. frames = <<>> => f0.body \notin JumpBodies
  BY <1>1, <1>9
<1>12. native_variadics' = IF f0.native THEN Append(native_variadics, [area |-> f0.id]) ELSE native_variadics
  BY <1>7, <1>9
<1> QED BY <1>7, <1>8, <1>9, <1>10, <1>11, <1>12, FramesPushed

-----------------------------------------------------------------------------
(* The steps of an invocation.                                             *)

\* An invocation that has not started is laid out.
LEMMA Begins == Init => IInv
<1> SUFFICES ASSUME Init PROVE IInv
  OBVIOUS
<1>1. frames = <<>> /\ DOMAIN frames = {} /\ Len(frames) = 0
  BY DEF Init
<1>2. Scalars
  <2>1. program \in Programs /\ list = NoArea /\ steps = 0 /\ failing = FALSE
    BY DEF Init
  <2>2. steps \in 0..InstructionLimit
    BY <2>1, ProgramTyped
  <2>3. list \in [origin : {"none", "area", "native"}, area : Nat, at : Nat]
    BY <2>1 DEF NoArea
  <2> QED BY <2>1, <2>2, <2>3 DEF Scalars
<1>3. Typed
  BY <1>1, ProgramTyped DEF Init, Typed
<1>4. VariadicsAlive
  BY <1>1 DEF Init, VariadicsAlive, Registered
<1> QED BY <1>1, <1>2, <1>3, <1>4 DEF IInv, FramesInv, AllApart, Steady

\* An instruction is charged within the budget.
LEMMA StepCounts ==
  ASSUME Scalars, UNCHANGED program, Step
  PROVE  steps' \in 0..InstructionLimit'
BY ProgramTyped DEF Scalars, Step, Fetch, InstructionLimit

\* A frame whose function returns through JRET was called.
LEMMA Caller ==
  ASSUME FramesInv, frames # <<>>, Top.body \in JumpBodies
  PROVE  Len(frames) - 1 \in 1..Len(frames) /\ Len(frames) - 1 > 0
<1>1. PICK n \in Nat : n = Len(frames) /\ n > 0 /\ Top = frames[n]
  BY TopFrame
<1>2. n # 1
  BY <1>1 DEF FramesInv
<1> QED BY <1>1, <1>2

\* The host starts an invocation.
LEMMA StartKeeps ==
  ASSUME IInv, UNCHANGED program, Start
  PROVE  IInv'
<1>1. program \in Programs /\ Scalars /\ FramesInv
  BY DEF IInv, Scalars
<1>2. FramesInv'
  BY <1>1, FramesEntered DEF Start
<1>3. Scalars'
  BY <1>1, ProgramTyped DEF Scalars, Start, InstructionLimit
<1> QED BY <1>2, <1>3 DEF IInv

\* CALL, INLINE and JCALL: the new frame finds its own stack and lists.
LEMMA CallKeeps ==
  ASSUME IInv, UNCHANGED program, Call
  PROVE  IInv'
<1>1. program \in Programs /\ Scalars /\ FramesInv
  BY DEF IInv, Scalars
<1>2. frames # <<>>
  BY DEF Call, Step, Fetch
<1>3. FramesInv'
  BY <1>1, <1>2, FramesEntered DEF Call
<1>4. Scalars'
  BY <1>1, StepCounts DEF Scalars, Call
<1> QED BY <1>3, <1>4 DEF IInv

\* RET: what the frame registered goes with it, and its segments are free.
LEMMA RetKeeps ==
  ASSUME IInv, UNCHANGED program, Ret
  PROVE  IInv'
<1>1. program \in Programs /\ Scalars /\ FramesInv /\ frames # <<>>
  BY DEF IInv, Scalars, Ret, Step, Fetch
<1>2. FramesInv'
  BY <1>1, FramesLeft DEF Ret
<1>3. Scalars'
  BY <1>1, StepCounts DEF Scalars, Ret
<1> QED BY <1>2, <1>3 DEF IInv

\* JRET: the caller's program counter is set only to a label of its own.
LEMMA JRetKeeps ==
  ASSUME IInv, UNCHANGED program, NEW target \in Bodies, JRet(target)
  PROVE  IInv'
<1>1. program \in Programs /\ Scalars /\ FramesInv /\ frames # <<>> /\ Top.body \in JumpBodies
  BY DEF IInv, Scalars, JRet, Step, Fetch
<1>2. PICK n \in Nat : n = Len(frames) - 1 /\ n > 0 /\ n \in 1..Len(frames)
  BY <1>1, Caller
<1>3. frames \in Seq(FrameRecord) /\ n \in DOMAIN frames /\ n <= Len(frames)
  BY <1>1, <1>2, FramesTyped DEF FramesInv, Typed
<1>4. PICK rest \in Seq(FrameRecord) :
        rest = SubSeq(frames, 1, n) /\ Len(rest) = n /\ rest[n] = frames[n]
  <2>1. n <= Len(frames) /\ 1 <= n /\ Len(frames) \in Nat
    BY <1>2, <1>3, LenProperties
  <2>2. SubSeq(frames, 1, n) \in Seq(FrameRecord) /\ Len(SubSeq(frames, 1, n)) = n
        /\ \A k \in 1..n : SubSeq(frames, 1, n)[k] = frames[k]
    BY <1>3, <2>1, SubSeqProperties
  <2>3. n \in 1..n
    BY <1>2
  <2> QED BY <2>2, <2>3
<1>5. frames[n] \in FrameRecord /\ frames[n].pc = frames[n].body
  BY <1>1, <1>3, FramesTyped DEF FramesInv, Sound
<1>6. frames' = [rest EXCEPT ![n].pc = IF target = frames[n].body THEN target ELSE @]
  BY <1>2, <1>4 DEF JRet
<1>7. [rest[n] EXCEPT !.pc = IF target = frames[n].body THEN target ELSE @] = rest[n]
  BY <1>4, <1>5 DEF FrameRecord
<1>8. frames' = [rest EXCEPT ![n] = rest[n]]
  BY <1>6, <1>7
<1>9. frames' = rest
  <2>1. DOMAIN rest = 1..n /\ rest = [k \in 1..n |-> rest[k]]
    BY <1>4, LenProperties, SeqDef
  <2> QED BY <1>8, <2>1
<1>10. Leave
  BY <1>2, <1>4, <1>9 DEF JRet, Leave
<1>11. FramesInv'
  BY <1>1, <1>10, FramesLeft
<1>12. Scalars'
  BY <1>1, StepCounts DEF Scalars, JRet
<1> QED BY <1>11, <1>12 DEF IInv

\* An error ends the frame as a return does.
LEMMA FailKeeps ==
  ASSUME IInv, UNCHANGED program, Fail
  PROVE  IInv'
<1>1. program \in Programs /\ Scalars /\ FramesInv /\ frames # <<>>
  BY DEF IInv, Scalars, Fail
<1>2. FramesInv'
  BY <1>1, FramesLeft DEF Fail
<1>3. steps' \in 0..InstructionLimit'
  BY <1>1, ProgramTyped DEF Scalars, Fail, InstructionLimit
<1> QED BY <1>1, <1>2, <1>3 DEF IInv, Scalars, Fail

\* An error on its way ends one frame after the other.
LEMMA UnwindKeeps ==
  ASSUME IInv, UNCHANGED program, Unwind
  PROVE  IInv'
<1>1. program \in Programs /\ Scalars /\ FramesInv
  BY DEF IInv, Scalars
<1>2. CASE frames = <<>>
  <2>1. FramesInv'
    BY <1>1, <1>2, FramesSame DEF Unwind
  <2> QED BY <1>1, <1>2, <2>1 DEF IInv, Scalars, Unwind, InstructionLimit
<1>3. CASE frames # <<>>
  <2>1. FramesInv'
    BY <1>1, <1>3, FramesLeft DEF Unwind
  <2> QED BY <1>1, <1>3, <2>1 DEF IInv, Scalars, Unwind, InstructionLimit
<1> QED BY <1>2, <1>3

\* Instructions that touch neither stack nor lists.
LEMMA ComputeKeeps ==
  ASSUME IInv, UNCHANGED program, Compute
  PROVE  IInv'
<1>1. Scalars /\ FramesInv
  BY DEF IInv
<1>2. FramesInv'
  BY <1>1, FramesSame DEF Compute
<1> QED BY <1>1, <1>2, StepCounts DEF IInv, Scalars, Compute

\* ALLOCA: the new block is below all others, or in a segment of its own.
LEMMA AllocaKeeps ==
  ASSUME IInv, UNCHANGED program, NEW size \in Sizes, Alloca(size)
  PROVE  IInv'
<1>1. program \in Programs /\ Scalars /\ FramesInv /\ frames # <<>> /\ size \in Nat
  BY ProgramTyped DEF IInv, Scalars, Alloca, Step, Fetch
<1>2. PICK base \in Room(Top, RoundUp(size)) : SetTop(allocate(Top, size, base))
  BY DEF Alloca, Room
<1>3. Restacked(Top, allocate(Top, size, base))
  BY <1>1, <1>2, TopFrame, Allocated
<1>4. FramesInv'
  BY <1>1, <1>2, <1>3, FramesRestacked DEF Alloca
<1> QED BY <1>1, <1>4, StepCounts DEF IInv, Scalars, Alloca

\* BSTART: the mark is at the cursor.
LEMMA BStartKeeps ==
  ASSUME IInv, UNCHANGED program, BStart
  PROVE  IInv'
<1>1. program \in Programs /\ Scalars /\ FramesInv /\ frames # <<>>
  BY DEF IInv, Scalars, BStart, Step, Fetch
<1>2. PICK base \in IF Top.segments = <<>> THEN Places(SegmentSize) ELSE {0} :
        SetTop(save(Top, base))
  BY DEF BStart
<1>3. Restacked(Top, save(Top, base))
  BY <1>1, <1>2, TopFrame, Saved
<1>4. FramesInv'
  BY <1>1, <1>2, <1>3, FramesRestacked DEF BStart
<1> QED BY <1>1, <1>4, StepCounts DEF IInv, Scalars, BStart

\* BEND: the stack is what it was when the mark was set.
LEMMA BEndKeeps ==
  ASSUME IInv, UNCHANGED program, NEW address, BEnd(address)
  PROVE  IInv'
<1>1. program \in Programs /\ Scalars /\ FramesInv /\ frames # <<>> /\ address \in DOMAIN Top.marks
  BY DEF IInv, Scalars, BEnd, Step, Fetch
<1>2. Restacked(Top, restore(Top, address))
  BY <1>1, TopFrame, Restored
<1>3. FramesInv'
  BY <1>1, <1>2, FramesRestacked DEF BEnd
<1> QED BY <1>1, <1>3, StepCounts DEF IInv, Scalars, BEnd

\* An indirect jump stays in its function.
LEMMA JmpIndirectKeeps ==
  ASSUME IInv, UNCHANGED program, NEW target \in Bodies, JmpIndirect(target)
  PROVE  IInv'
<1>1. program \in Programs /\ Scalars /\ FramesInv /\ frames # <<>> /\ target = Top.body
  BY DEF IInv, Scalars, JmpIndirect, Step, Fetch
<1>2. PICK f : f = Top /\ f \in FrameRecord /\ f.pc = f.body
  BY <1>1, TopFrame DEF Stacked, Sound
<1>3. [f EXCEPT !.pc = target] = f
  BY <1>1, <1>2 DEF FrameRecord
<1>4. SetTop(f)
  BY <1>2, <1>3 DEF JmpIndirect
<1>5. Restacked(Top, f)
  BY <1>1, <1>2, TopFrame, RestackedItself
<1>6. FramesInv'
  BY <1>1, <1>4, <1>5, FramesRestacked DEF JmpIndirect
<1> QED BY <1>1, <1>6, StepCounts DEF IInv, Scalars, JmpIndirect

\* VA_START: a first call registers the frame's vector, at the end of the list.
LEMMA VaStartKeeps ==
  ASSUME IInv, UNCHANGED program, VaStart
  PROVE  IInv'
<1>1. program \in Programs /\ Scalars /\ FramesInv /\ frames # <<>>
  BY DEF IInv, Scalars, VaStart, Step, Fetch
<1>2. Top.id \in Nat /\ Top.area \in Nat
  BY <1>1, TopFrame, FrameTyped
<1>3. CASE Top.native
  <2>1. /\ UNCHANGED <<frames, variadic_areas, native_variadics>>
        /\ list' = [origin |-> "native", area |-> Top.id, at |-> 0]
    BY <1>3 DEF VaStart
  <2> QED BY <1>1, <1>2, <2>1, FramesSame, StepCounts DEF IInv, Scalars, VaStart
<1>4. CASE ~Top.native /\ Top.area # 0
  <2>1. /\ UNCHANGED <<frames, variadic_areas, native_variadics>>
        /\ list' = [origin |-> "area", area |-> Top.area, at |-> 0]
    BY <1>4 DEF VaStart
  <2> QED BY <1>1, <1>2, <2>1, FramesSame, StepCounts DEF IInv, Scalars, VaStart
<1>5. CASE ~Top.native /\ Top.area = 0
  <2>1. PICK area \in Areas :
          /\ SetTop([Top EXCEPT !.area = area])
          /\ variadic_areas' = Append(variadic_areas, [area |-> area, capacity |-> Top.unnamed])
          /\ list' = [origin |-> "area", area |-> area, at |-> 0]
    BY <1>5 DEF VaStart
  <2>2. FramesInv'
    BY <1>1, <1>5, <2>1, AreaStarted DEF VaStart
  <2>3. area \in Nat
    BY DEF Areas
  <2> QED BY <1>1, <2>1, <2>2, <2>3, StepCounts DEF IInv, Scalars, VaStart
<1> QED BY <1>3, <1>4, <1>5

\* VA_ARG advances the list and nothing else.
LEMMA VaArgKeeps ==
  ASSUME IInv, UNCHANGED program, VaArg
  PROVE  IInv'
<1>1. program \in Programs /\ Scalars /\ FramesInv
  BY DEF IInv, Scalars
<1>2. FramesInv'
  BY <1>1, FramesSame DEF VaArg
<1>3. list' \in [origin : {"none", "area", "native"}, area : Nat, at : Nat]
  BY <1>1 DEF VaArg, Scalars
<1> QED BY <1>1, <1>2, <1>3, StepCounts DEF IInv, Scalars, VaArg

\* Every step keeps the invariant.
LEMMA NextKeeps ==
  ASSUME IInv, [Next]_vars
  PROVE  IInv'
<1>1. CASE UNCHANGED vars
  <2>1. FramesInv'
    BY <1>1, FramesSame DEF IInv, vars
  <2> QED BY <1>1, <2>1 DEF IInv, Scalars, vars, InstructionLimit
<1>2. CASE Next
  <2> SUFFICES ASSUME UNCHANGED program PROVE IInv'
    BY <1>2 DEF Next
  <2>1. CASE Start
    BY <2>1, StartKeeps
  <2>2. CASE Run
    <3>1. CASE Call
      BY <3>1, CallKeeps
    <3>2. CASE Ret
      BY <3>2, RetKeeps
    <3>3. ASSUME NEW b \in Bodies, JRet(b)
          PROVE  IInv'
      BY <3>3, JRetKeeps
    <3>4. ASSUME NEW b \in Bodies, JmpIndirect(b)
          PROVE  IInv'
      BY <3>4, JmpIndirectKeeps
    <3>5. CASE Fail
      BY <3>5, FailKeeps
    <3>6. CASE Unwind
      BY <3>6, UnwindKeeps
    <3>7. CASE Compute
      BY <3>7, ComputeKeeps
    <3>8. ASSUME NEW n \in Sizes, Alloca(n)
          PROVE  IInv'
      BY <3>8, AllocaKeeps
    <3>9. CASE BStart
      BY <3>9, BStartKeeps
    <3>10. ASSUME NEW a \in Addresses, BEnd(a)
           PROVE  IInv'
      BY <3>10, BEndKeeps
    <3>11. CASE VaStart
      BY <3>11, VaStartKeeps
    <3>12. CASE VaArg
      BY <3>12, VaArgKeeps
    <3> QED BY <2>2, <3>1, <3>2, <3>3, <3>4, <3>5, <3>6, <3>7, <3>8, <3>9, <3>10, <3>11, <3>12 DEF Run
  <2> QED BY <1>2, <2>1, <2>2 DEF Next
<1> QED BY <1>1, <1>2

-----------------------------------------------------------------------------
(* What the invariant says of the memory of a frame.                       *)

\* What the first n entries of l take of segment k.
Taking(g, l, home, k, n) ==
  IF n = 0 \/ home[n] < k THEN 0
  ELSE IF home[n] = k THEN g[k].base + g[k].size - l[n].address
  ELSE g[k].size - g[k].cursor

\* The blocks of l in segment k.
BlocksOf(l, home, k) ==
  {n \in 1..Len(l) : l[n].kind = "block" /\ l[n].size > 0 /\ home[n] = k}

\* Each entry adds to its segment what it takes, rounded up.
LEMMA TakingCounts ==
  ASSUME NEW g \in Seq(Segment), NEW l \in Seq(Entry), NEW home, Homes(g, l, home),
         Filled(g, l, home), Formed(g, l), NEW k \in 1..Len(g), NEW n \in 1..Len(l)
  PROVE  /\ Taking(g, l, home, k, n) \in Int /\ Taking(g, l, home, k, n - 1) \in Int
         /\ Taking(g, l, home, k, n)
              = Taking(g, l, home, k, n - 1)
                  + IF n \in BlocksOf(l, home, k) THEN RoundUp(l[n].size) ELSE 0
<1>1. PICK base \in Nat, size \in Nat, cursor \in Nat :
        base = g[k].base /\ size = g[k].size /\ cursor = g[k].cursor
  BY SegmentTyped
<1>2. PICK N \in Nat : N = Len(l) /\ n \in 1..N
  BY LogTyped
<1>3. \A i \in 1..N : home[i] \in Nat /\ l[i].address \in Nat
  BY <1>2, HomeTyped, EntryTyped
<1>4. PICK a \in Nat, h \in Nat : a = l[n].address /\ h = home[n]
  BY <1>2, <1>3
<1>5. PICK r \in Nat : r = RoundUp(l[n].size)
  BY EntryTyped, RoundUpFacts
<1>6. PICK d \in Nat : d = IF n \in BlocksOf(l, home, k) THEN r ELSE 0
  OBVIOUS
<1>7. h = k => d = r
  <2> SUFFICES ASSUME h = k, n \notin BlocksOf(l, home, k) PROVE r = 0
    BY <1>6
  <2>1. ~(l[n].kind = "block" /\ l[n].size > 0)
    BY <1>2, <1>4 DEF BlocksOf
  <2>2. l[n].size = 0
    <3>1. IF l[n].kind = "mark" THEN l[n].size = 0 ELSE l[n].size > 0
      BY DEF Formed
    <3> QED BY <2>1, <3>1, EntryTyped DEF Entry
  <2> QED BY <1>5, <2>2, RoundUpFacts
<1>8. h # k => d = 0
  BY <1>4, <1>6 DEF BlocksOf
<1>9. k \in Nat
  BY SegmentsTyped
<1>10. n - 1 = 0 \/ n - 1 \in 1..N
  BY <1>2
<1>11. \A i \in 1..N : i < n => home[i] <= h
  BY <1>2, <1>4 DEF Homes
<1>12. \A i \in 1..N : n < i => h <= home[i]
  BY <1>2, <1>4 DEF Homes
<1>13. Taking(g, l, home, k, n)
         = IF h < k THEN 0 ELSE IF h = k THEN base + size - a ELSE size - cursor
  BY <1>1, <1>2, <1>4 DEF Taking
<1>14. h = k => a + r = IF n > 1 /\ home[n - 1] = k THEN l[n - 1].address ELSE base + size
  BY <1>1, <1>2, <1>4, <1>5, ZenonT(30) DEF Filled
<1>15. CASE n - 1 = 0
  <2>1. Taking(g, l, home, k, n - 1) = 0
    BY <1>15 DEF Taking
  <2>2. h > k => size = cursor
    <3> SUFFICES ASSUME h > k PROVE size = cursor
      OBVIOUS
    <3>1. ASSUME NEW i \in 1..Len(l)
          PROVE  home[i] # k
      <4>1. i = n \/ n < i
        BY <1>2, <1>15
      <4> QED BY <1>2, <1>3, <1>4, <1>9, <1>12, <4>1
    <3> QED BY <1>1, <3>1 DEF Filled
  <2>3. h = k => a + r = base + size
    BY <1>14, <1>15
  <2>4. h = k => base + size - a = r
    BY <2>3
  <2> QED BY <1>5, <1>6, <1>7, <1>8, <1>9, <1>13, <2>1, <2>2, <2>4
<1>16. CASE n - 1 \in 1..N
  <2>1. PICK b \in Nat, j \in Nat : b = l[n - 1].address /\ j = home[n - 1]
    BY <1>3, <1>16
  <2>2. j <= h
    BY <1>11, <1>16, <2>1
  <2>3. Taking(g, l, home, k, n - 1)
          = IF j < k THEN 0 ELSE IF j = k THEN base + size - b ELSE size - cursor
    BY <1>1, <1>16, <2>1 DEF Taking
  <2>4. h = k => a + r = IF j = k THEN b ELSE base + size
    BY <1>2, <1>14, <1>16, <2>1
  <2>5. j = k /\ h # k => b = base + cursor
    <3> SUFFICES ASSUME j = k, h # k PROVE b = base + cursor
      OBVIOUS
    <3>1. n - 1 \in 1..Len(l) /\ home[(n - 1) + 1] # home[n - 1]
      BY <1>2, <1>4, <1>16, <2>1
    <3> QED BY <1>1, <2>1, <3>1 DEF Filled
  <2>6. j < k /\ k < h => size = cursor
    <3> SUFFICES ASSUME j < k, k < h PROVE size = cursor
      OBVIOUS
    <3>1. ASSUME NEW i \in 1..Len(l)
          PROVE  home[i] # k
      <4>1. i < n - 1 \/ i = n - 1 \/ i = n \/ n < i
        BY <1>2
      <4>2. i < n - 1 => home[i] <= j
        BY <1>2, <1>16, <2>1 DEF Homes
      <4> QED BY <1>2, <1>3, <1>4, <1>9, <1>12, <2>1, <4>1, <4>2
    <3> QED BY <1>1, <3>1 DEF Filled
  <2>7. h = k /\ j = k => base + size - a = (base + size - b) + r
    BY <2>4
  <2>8. h = k /\ j < k => base + size - a = r
    BY <1>9, <2>4
  <2>9. h # k /\ j = k => base + size - b = size - cursor
    BY <2>5
  <2> QED BY <1>5, <1>6, <1>7, <1>8, <1>9, <1>13, <2>2, <2>3, <2>6, <2>7, <2>8, <2>9
<1> QED BY <1>10, <1>15, <1>16

\* taking[n] is what the entries in S take, up to entry n.
AddsUp(taking, l, S, N) ==
  /\ taking \in [0..N -> Int]
  /\ taking[0] = 0
  /\ \A n \in 1..N : taking[n] = taking[n - 1] + IF n \in S THEN RoundUp(l[n].size) ELSE 0

\* Total is the only function that adds up the blocks.
LEMMA TotalIs ==
  ASSUME NEW l \in Seq(Entry), NEW S, NEW N \in Nat, N = Len(l), NEW taking,
         AddsUp(taking, l, S, N)
  PROVE  Total(l, S) = taking[N]
<1> USE DEF AddsUp
<1> DEFINE Defines(t) == t = [n \in 0..Len(l) |->
                                IF n = 0 THEN 0
                                ELSE t[n - 1] + IF n \in S THEN RoundUp(l[n].size) ELSE 0]
           total == CHOOSE t : Defines(t)
<1>1. Defines(taking)
  OBVIOUS
<1>2. Defines(total)
  <2> HIDE DEF Defines
  <2> QED BY <1>1
<1>3. \A t : Defines(t) =>
        t[0] = 0 /\ \A n \in 1..N : t[n] = t[n - 1] + IF n \in S THEN RoundUp(l[n].size) ELSE 0
  OBVIOUS
<1>4. Total(l, S) = total[N]
  BY DEF Total
<1> HIDE DEF total
<1>5. /\ total[0] = 0
      /\ \A n \in 1..N : total[n] = total[n - 1] + IF n \in S THEN RoundUp(l[n].size) ELSE 0
  <2> HIDE DEF Defines
  <2> QED BY <1>2, <1>3
<1> DEFINE Same == {n \in 0..N : total[n] = taking[n]}
<1>6. 0 \in Same
  BY <1>5
<1>7. ASSUME NEW n \in 0..(N - 1), n \in Same
      PROVE  n + 1 \in Same
  <2>1. n + 1 \in 1..N /\ (n + 1) - 1 = n
    OBVIOUS
  <2>2. total[n + 1] = total[n] + IF n + 1 \in S THEN RoundUp(l[n + 1].size) ELSE 0
    BY <1>5, <2>1
  <2>3. taking[n + 1] = taking[n] + IF n + 1 \in S THEN RoundUp(l[n + 1].size) ELSE 0
    BY <2>1
  <2> QED BY <1>7, <2>1, <2>2, <2>3
<1>8. 0..N \subseteq Same
  <2> HIDE DEF Same
  <2> QED BY <1>6, <1>7, CountsUp
<1> QED BY <1>4, <1>8

\* The blocks of a segment fill it from its end to its cursor.
LEMMA SegmentTotal ==
  ASSUME NEW g \in Seq(Segment), NEW l \in Seq(Entry), NEW home, Homes(g, l, home),
         Filled(g, l, home), Formed(g, l), NEW k \in 1..Len(g)
  PROVE  Total(l, BlocksOf(l, home, k)) = g[k].size - g[k].cursor
<1>1. PICK N \in Nat : N = Len(l)
  BY LogTyped
<1>2. PICK taking : taking = [n \in 0..N |-> Taking(g, l, home, k, n)]
  OBVIOUS
<1>3. ASSUME NEW n \in 1..N
      PROVE  /\ taking[n] \in Int
             /\ taking[n] = taking[n - 1]
                              + IF n \in BlocksOf(l, home, k) THEN RoundUp(l[n].size) ELSE 0
  <2>1. n \in 1..Len(l) /\ n \in 0..N /\ n - 1 \in 0..N
    BY <1>1
  <2>2. taking[n] = Taking(g, l, home, k, n) /\ taking[n - 1] = Taking(g, l, home, k, n - 1)
    BY <1>2, <2>1
  <2> QED BY <2>1, <2>2, TakingCounts
<1>4. taking[0] = 0
  BY <1>2 DEF Taking
<1>5. taking \in [0..N -> Int]
  <2>1. \A n \in 0..N : taking[n] \in Int
    BY <1>3, <1>4
  <2> QED BY <1>2, <2>1
<1>6. Total(l, BlocksOf(l, home, k)) = taking[N]
  <2>1. PICK S : S = BlocksOf(l, home, k)
    OBVIOUS
  <2>2. \A n \in 1..N : taking[n] = taking[n - 1] + IF n \in S THEN RoundUp(l[n].size) ELSE 0
    BY <1>3, <2>1
  <2>3. AddsUp(taking, l, S, N)
    BY <1>4, <1>5, <2>2 DEF AddsUp
  <2> QED BY <1>1, <2>1, <2>3, TotalIs
<1>7. taking[N] = Taking(g, l, home, k, N)
  BY <1>2
<1>8. g[k].base \in Nat /\ g[k].size \in Nat /\ g[k].cursor \in Nat /\ k \in Nat /\ Len(g) \in Nat
  BY SegmentTyped, SegmentsTyped
<1>9. CASE N = 0
  <2>1. g[k].cursor = g[k].size
    BY <1>1, <1>9 DEF Filled
  <2> QED BY <1>4, <1>6, <1>8, <1>9, <2>1
<1>10. CASE N # 0
  <2>1. N \in 1..Len(l) /\ home[N] = Len(g)
    BY <1>1, <1>10 DEF Filled
  <2>2. l[N].address = g[Len(g)].base + g[Len(g)].cursor
    BY <1>1, <2>1 DEF Filled
  <2>3. home[N] >= k
    BY <1>8, <2>1
  <2>4. CASE home[N] = k
    <3>1. l[N].address = g[k].base + g[k].cursor
      BY <2>1, <2>2, <2>4
    <3>2. Taking(g, l, home, k, N) = g[k].base + g[k].size - l[N].address
      BY <1>8, <1>10, <2>4 DEF Taking
    <3> QED BY <1>6, <1>7, <1>8, <3>1, <3>2
  <2>5. CASE home[N] # k
    <3>1. Taking(g, l, home, k, N) = g[k].size - g[k].cursor
      BY <1>8, <1>10, <2>1, <2>3, <2>5 DEF Taking
    <3> QED BY <1>6, <1>7, <3>1
  <2> QED BY <2>4, <2>5
<1> QED BY <1>9, <1>10

\* The blocks that lie in a segment are those whose home it is.
LEMMA HeldBlocks ==
  ASSUME NEW f \in FrameRecord, Apart(f.segments), NEW home, Homes(f.segments, f.log, home),
         NEW k \in 1..Len(f.segments)
  PROVE  Held(f, f.segments[k]) = BlocksOf(f.log, home, k)
<1>1. PICK g, l : g = f.segments /\ l = f.log /\ g \in Seq(Segment) /\ l \in Seq(Entry)
  BY FrameTyped
<1>2. Blocks(f) = {n \in 1..Len(l) : l[n].kind = "block" /\ l[n].size > 0}
  BY <1>1, LogTyped DEF Blocks
<1>3. ASSUME NEW n \in 1..Len(l)
      PROVE  Within(l[n], g[k]) <=> home[n] = k
  <2>1. l[n] \in Entry /\ home[n] \in 1..Len(g) /\ Within(l[n], g[home[n]]) /\ k \in 1..Len(g)
    BY <1>1, LogTyped, HomeTyped DEF Homes, Lies
  <2>2. Within(l[n], g[k]) => home[n] = k
    BY <1>1, <2>1, OneSegment
  <2> QED BY <2>1, <2>2
<1> QED BY <1>1, <1>2, <1>3 DEF Held, BlocksOf

-----------------------------------------------------------------------------
(* What the invariant says of an invocation.                               *)

\* The invariant bounds frames, steps and segments.
LEMMA ImpliesTypeOK ==
  ASSUME IInv
  PROVE  TypeOK
<1>1. program \in Programs /\ Scalars /\ FramesInv /\ Typed
  BY DEF IInv, Scalars, FramesInv
<1>2. Len(frames) \in 0..DepthLimit
  BY <1>1, ProgramTyped, FramesTyped DEF Typed
<1>3. ASSUME NEW i \in DOMAIN frames
      PROVE  /\ frames[i].body \in Bodies /\ frames[i].pc \in Bodies
             /\ frames[i].unnamed \in program.unnamed /\ frames[i].area \in Areas \cup {0}
             /\ \A k \in DOMAIN frames[i].segments :
                  LET s == frames[i].segments[k]
                  IN  s.base \in Memory /\ s.size >= SegmentSize /\ s.cursor \in 0..s.size
  <2>1. frames[i] \in FrameRecord /\ Sound(frames[i])
    BY <1>1, FramesTyped DEF FramesInv, Typed
  <2>2. PICK g \in Seq(Segment) : g = frames[i].segments
    BY <2>1, FrameTyped
  <2>3. ASSUME NEW k \in DOMAIN g
        PROVE  g[k].base \in Memory /\ g[k].size >= SegmentSize /\ g[k].cursor \in 0..g[k].size
    <3>1. k \in 1..Len(g)
      BY SegmentsTyped
    <3>2. g[k].base \in Memory /\ g[k].size >= SegmentSize /\ g[k].cursor <= g[k].size
      BY <2>1, <2>2, <3>1 DEF Sound, Formed
    <3> QED BY <3>1, <3>2, SegmentTyped
  <2>4. frames[i].body \in Bodies /\ frames[i].pc \in Bodies
    BY <2>1, FrameTyped
  <2>5. frames[i].unnamed \in program.unnamed /\ frames[i].area \in Areas \cup {0}
    BY <1>1, <2>1 DEF Sound, FramesInv
  <2> QED BY <2>2, <2>3, <2>4, <2>5
<1>4. steps \in 0..InstructionLimit /\ failing \in BOOLEAN
  BY <1>1 DEF Scalars
<1> QED BY <1>2, <1>3, <1>4 DEF TypeOK

\* Two blocks in memory that is not shared.
LEMMA GapSplits ==
  ASSUME NEW s \in Segment, NEW t \in Segment, Gap(s, t), NEW b \in Entry, NEW c \in Entry,
         Within(b, s), Within(c, t)
  PROVE  b.address + b.size <= c.address \/ c.address + c.size <= b.address
<1>1. PICK x \in Nat, y \in Nat, u \in Nat, v \in Nat :
        x = s.base /\ y = s.size /\ u = t.base /\ v = t.size
  BY DEF Segment
<1>2. PICK p \in Nat, q \in Nat, r \in Nat, w \in Nat :
        p = b.address /\ q = b.size /\ r = c.address /\ w = c.size
  BY DEF Entry
<1>3. x <= p /\ p + q <= x + y /\ u <= r /\ r + w <= u + v
  BY <1>1, <1>2 DEF Within
<1>4. x + y < u \/ u + v < x
  BY <1>1 DEF Gap
<1>5. p + q <= r \/ r + w <= p
  BY <1>3, <1>4
<1> QED BY <1>2, <1>5

\* Blocks of one frame follow one another, those of two frames are in disjoint memory.
LEMMA ImpliesBlocksIntact ==
  ASSUME FramesInv
  PROVE  BlocksIntact
<1>1. \A j \in DOMAIN frames : frames[j] \in FrameRecord /\ Stacked(frames[j])
  BY FramesStacked DEF Stacked
<1>2. ASSUME NEW j \in DOMAIN frames, NEW i \in Blocks(frames[j])
      PROVE  /\ i \in 1..Len(frames[j].log) /\ frames[j].log[i] \in Entry
             /\ frames[j].log[i].kind = "block"
  <2>1. frames[j].log \in Seq(Entry)
    BY <1>1, FrameTyped
  <2> QED BY <2>1, LogTyped DEF Blocks
<1>3. ASSUME NEW j \in DOMAIN frames, NEW home,
             Homes(frames[j].segments, frames[j].log, home), NEW i \in Blocks(frames[j])
      PROVE  /\ home[i] \in 1..Len(frames[j].segments) /\ home[i] \in DOMAIN frames[j].segments
             /\ frames[j].segments[home[i]] \in Segment
             /\ Lies(frames[j].log[i], frames[j].segments[home[i]])
  <2>1. frames[j].segments \in Seq(Segment) /\ frames[j].log \in Seq(Entry)
    BY <1>1, FrameTyped
  <2>2. i \in 1..Len(frames[j].log)
    BY <1>2
  <2>3. home[i] \in 1..Len(frames[j].segments)
    BY <1>3, <2>1, <2>2, HomeTyped
  <2> QED BY <1>3, <2>1, <2>2, <2>3, SegmentsTyped DEF Homes
<1>4. ASSUME NEW j \in DOMAIN frames
      PROVE  \E home : Homes(frames[j].segments, frames[j].log, home)
  BY <1>1 DEF Stacked, Sound, Laid, Layout
<1>5. ASSUME NEW j \in DOMAIN frames, NEW i \in Blocks(frames[j])
      PROVE  \E k \in DOMAIN frames[j].segments :
               /\ Within(frames[j].log[i], frames[j].segments[k])
               /\ frames[j].log[i].address
                    >= frames[j].segments[k].base + frames[j].segments[k].cursor
  <2>1. PICK home : Homes(frames[j].segments, frames[j].log, home)
    BY <1>4
  <2> QED BY <1>3, <2>1 DEF Lies
<1>6. ASSUME NEW j \in DOMAIN frames, NEW i \in Blocks(frames[j]),
             NEW m \in DOMAIN frames, NEW h \in Blocks(frames[m]), <<m, h>> # <<j, i>>
      PROVE  \/ frames[j].log[i].address + frames[j].log[i].size <= frames[m].log[h].address
             \/ frames[m].log[h].address + frames[m].log[h].size <= frames[j].log[i].address
  <2>1. PICK home : Homes(frames[j].segments, frames[j].log, home)
    BY <1>4
  <2>2. PICK home2 : Homes(frames[m].segments, frames[m].log, home2)
    BY <1>4
  <2>3. PICK s \in Segment : s = frames[j].segments[home[i]] /\ Within(frames[j].log[i], s)
    BY <1>3, <2>1 DEF Lies
  <2>4. PICK t \in Segment : t = frames[m].segments[home2[h]] /\ Within(frames[m].log[h], t)
    BY <1>3, <2>2 DEF Lies
  <2>5. CASE j # m
    <3>1. Gap(s, t)
      BY <1>3, <2>1, <2>2, <2>3, <2>4, <2>5 DEF FramesInv, AllApart
    <3> QED BY <1>2, <2>3, <2>4, <3>1, GapSplits
  <2>6. CASE j = m
    <3>1. PICK f, g, l : /\ f = frames[j] /\ g = f.segments /\ l = f.log
                         /\ f \in FrameRecord /\ g \in Seq(Segment) /\ l \in Seq(Entry)
      BY <1>1, FrameTyped
    <3>2. i \in 1..Len(l) /\ h \in 1..Len(l) /\ i # h /\ Homes(g, l, home) /\ Apart(g)
      BY <1>1, <1>2, <1>6, <2>1, <2>6, <3>1 DEF Stacked
    <3>4. Within(l[h], g[home[h]]) /\ Within(l[i], g[home[i]])
      BY <3>2 DEF Homes, Lies
    <3>5. l[i].address \in Nat /\ l[h].address \in Nat /\ l[i].size \in Nat /\ l[h].size \in Nat
      BY <3>1, <3>2, EntryTyped
    <3>6. CASE home[i] # home[h]
      <4>1. home[i] \in 1..Len(g) /\ home[h] \in 1..Len(g) /\ g[home[i]] \in Segment /\ g[home[h]] \in Segment
        BY <3>1, <3>2, HomeTyped, SegmentsTyped
      <4>2. Gap(g[home[i]], g[home[h]])
        BY <3>2, <3>6, <4>1 DEF Apart
      <4>3. l[i] \in Entry /\ l[h] \in Entry
        BY <3>1, <3>2, LogTyped
      <4>4. l[i].address + l[i].size <= l[h].address \/ l[h].address + l[h].size <= l[i].address
        BY <3>4, <4>1, <4>2, <4>3, GapSplits
      <4> QED BY <2>6, <3>1, <4>4
    <3>7. CASE home[i] = home[h]
      <4>1. RoundUp(l[i].size) \in Nat /\ RoundUp(l[i].size) >= l[i].size
            /\ RoundUp(l[h].size) \in Nat /\ RoundUp(l[h].size) >= l[h].size
        BY <3>5, RoundUpFacts
      <4>2. i < h => l[h].address + RoundUp(l[h].size) <= l[i].address
        BY <3>2, <3>7 DEF Homes
      <4>3. h < i => l[i].address + RoundUp(l[i].size) <= l[h].address
        BY <3>2, <3>7 DEF Homes
      <4>4. i < h \/ h < i
        BY <3>2
      <4>5. PICK a \in Nat, b \in Nat, c \in Nat, d \in Nat :
              a = l[i].address /\ b = l[i].size /\ c = l[h].address /\ d = l[h].size
        BY <3>5
      <4>6. PICK r \in Nat, q \in Nat :
              r = RoundUp(l[i].size) /\ r >= b /\ q = RoundUp(l[h].size) /\ q >= d
        BY <4>1, <4>5
      <4>7. c + q <= a \/ a + r <= c
        BY <4>2, <4>3, <4>4, <4>5, <4>6
      <4>8. a + b <= c \/ c + d <= a
        BY <4>6, <4>7
      <4> QED BY <2>6, <3>1, <4>5, <4>8
    <3> QED BY <3>6, <3>7
  <2> QED BY <2>5, <2>6
<1> QED BY <1>5, <1>6 DEF BlocksIntact

\* The marks of a frame are those of its log.
LEMMA ImpliesMarksExact ==
  ASSUME FramesInv
  PROVE  MarksExact
<1>1. ASSUME NEW j \in DOMAIN frames
      PROVE  DOMAIN frames[j].marks
               = {frames[j].log[i].address :
                    i \in {n \in DOMAIN frames[j].log : frames[j].log[n].kind = "mark"}}
  <2>1. PICK l \in Seq(Entry) : l = frames[j].log
    BY FramesStacked, FrameTyped DEF Stacked
  <2>2. PICK home : Marked(frames[j].segments, l, frames[j].marks, home)
    BY <2>1, FramesStacked DEF Stacked, Sound, Laid, Layout
  <2>3. DOMAIN l = 1..Len(l)
    BY LogTyped
  <2> QED BY <2>1, <2>2, <2>3 DEF Marked
<1> QED BY <1>1 DEF MarksExact

\* Every segment is full down to its cursor, and was opened for a block.
LEMMA ImpliesStackAccounted ==
  ASSUME FramesInv
  PROVE  StackAccounted
<1>1. ASSUME NEW j \in DOMAIN frames, NEW k \in DOMAIN frames[j].segments
      PROVE  /\ frames[j].segments[k].size - frames[j].segments[k].cursor
                  = Total(frames[j].log, Held(frames[j], frames[j].segments[k]))
             /\ k > 1 => Held(frames[j], frames[j].segments[k]) # {}
  <2>1. PICK f \in FrameRecord : f = frames[j] /\ Stacked(f)
    BY FramesStacked DEF Stacked
  <2>2. PICK g \in Seq(Segment), l \in Seq(Entry) : g = f.segments /\ l = f.log
    BY FrameTyped
  <2>3. PICK home : Homes(g, l, home) /\ Filled(g, l, home)
    BY <2>1, <2>2 DEF Stacked, Sound, Laid, Layout
  <2>4. k \in 1..Len(g) /\ Len(g) \in Nat /\ Len(l) \in Nat
    BY <2>1, <2>2, SegmentsTyped, LogTyped
  <2>5. Apart(g) /\ Formed(g, l)
    BY <2>1, <2>2 DEF Stacked, Sound
  <2>6. Held(f, g[k]) = BlocksOf(l, home, k)
    BY <2>2, <2>3, <2>4, <2>5, HeldBlocks
  <2>7. g[k].size - g[k].cursor = Total(l, BlocksOf(l, home, k))
    BY <2>3, <2>4, <2>5, SegmentTotal
  <2>8. ASSUME k > 1
        PROVE  BlocksOf(l, home, k) # {}
    <3>1. Len(l) # 0
      BY <2>3, <2>4, <2>8 DEF Filled
    <3>2. Len(l) \in 1..Len(l) /\ home[Len(l)] = Len(g)
      BY <2>3, <2>4, <3>1 DEF Filled
    <3>3. k \in 2..home[Len(l)]
      BY <2>4, <2>8, <3>2
    <3>4. PICK i \in 1..Len(l) : l[i].kind = "block" /\ home[i] = k
      BY <2>3, <3>2, <3>3 DEF Filled
    <3>5. l[i].size > 0
      BY <2>5, <3>4 DEF Formed
    <3> QED BY <3>4, <3>5 DEF BlocksOf
  <2> QED BY <2>1, <2>2, <2>6, <2>7, <2>8
<1> QED BY <1>1 DEF StackAccounted

\* The invariant contains what an invocation promises.
LEMMA ImpliesFramesConsistent ==
  ASSUME IInv
  PROVE  FramesConsistent
<1>1. FramesInv
  BY DEF IInv
<1>2. StaysInBody
  BY <1>1 DEF FramesInv, Sound, StaysInBody
<1>3. VariadicsAlive
  BY <1>1 DEF FramesInv
<1> QED
  BY <1>1, <1>2, <1>3, ImpliesTypeOK, ImpliesBlocksIntact, ImpliesMarksExact, ImpliesStackAccounted
     DEF FramesConsistent

-----------------------------------------------------------------------------
(* What an invocation promises.                                            *)

\* An area that is registered is the vector of an active frame.
LEMMA AreaOwned ==
  ASSUME VariadicsAlive, NEW n \in DOMAIN variadic_areas
  PROVE  \E i \in DOMAIN frames :
           variadic_areas[n].area = frames[i].area /\ variadic_areas[n].capacity = frames[i].unnamed
<1> DEFINE first == [i \in DOMAIN frames |-> frames[i].regions]
           entry == [i \in {m \in DOMAIN frames : frames[m].area # 0} |->
                       [area |-> frames[i].area, capacity |-> frames[i].unnamed]]
<1>1. PICK i \in DOMAIN entry : n = first[i] + 1
  BY DEF VariadicsAlive, Registered
<1>2. variadic_areas[first[i] + 1] = entry[i]
  BY DEF VariadicsAlive, Registered
<1>3. i \in DOMAIN frames /\ entry[i] = [area |-> frames[i].area, capacity |-> frames[i].unnamed]
  OBVIOUS
<1> QED BY <1>1, <1>2, <1>3

\* What VA_ARG advances over is an argument of an active frame.
LEMMA ArgumentRead ==
  ASSUME IInv, VaArg, list'.at > 0
  PROVE  \E i \in DOMAIN frames : frames[i].area = list.area /\ list.at < frames[i].unnamed
<1>1. list \in [origin : {"none", "area", "native"}, area : Nat, at : Nat] /\ FramesInv
  BY DEF IInv, Scalars
<1>2. list.origin # "native"
  BY <1>1 DEF VaArg
<1>3. PICK n \in DOMAIN variadic_areas :
        variadic_areas[n].area = list.area /\ list.at + 1 <= variadic_areas[n].capacity
  BY <1>2 DEF VaArg, Inside
<1>4. PICK i \in DOMAIN frames :
        variadic_areas[n].area = frames[i].area /\ variadic_areas[n].capacity = frames[i].unnamed
  BY <1>1, AreaOwned DEF FramesInv
<1>5. frames[i].unnamed \in Int /\ list.at \in Nat
  BY <1>1, <1>4, FramesTyped, FrameTyped DEF FramesInv, Typed
<1> QED BY <1>3, <1>4, <1>5

\* The step form of VaReadsLive.
ReadLive ==
  list'.origin = "area" /\ list'.at > 0 /\ list' # list =>
    \E i \in DOMAIN frames : frames[i].area = list.area /\ list.at < frames[i].unnamed

\* No step but VA_ARG moves a list forward.
LEMMA NextReadsLive ==
  ASSUME IInv, [Next]_vars
  PROVE  [ReadLive]_vars
<1> SUFFICES ReadLive
  OBVIOUS
<1>1. CASE VaArg
  BY <1>1, ArgumentRead DEF ReadLive
<1>2. CASE VaStart
  <2>1. \E origin, area : list' = [origin |-> origin, area |-> area, at |-> 0]
    BY <1>2, Zenon DEF VaStart
  <2>2. list'.at = 0
    BY <2>1
  <2> QED BY <2>2 DEF ReadLive
<1>3. CASE list' = list
  BY <1>3 DEF ReadLive
<1>4. VaArg \/ VaStart \/ list' = list
  BY DEF Next, Run, vars, Start, Call, Ret, JRet, JmpIndirect, Fail, Unwind, Compute, Alloca,
         BStart, BEnd
<1> QED BY <1>1, <1>2, <1>3, <1>4

\* Every reachable state is laid out: the stacks of all frames along their
\* segments, the variadic lists along the frames.
THEOREM Invariance == Spec => []IInv
<1>1. IInv /\ [Next]_vars => IInv'
  BY NextKeeps
<1> QED BY Begins, <1>1, PTL DEF Spec

\* Whatever the interpreted program allocates, saves and restores in whatever
\* order, and wherever the allocator puts the segments: what ALLOCA returned is
\* intact and its frame's alone, BEND knows exactly the open marks, segments are
\* full of live blocks, the variadic lists follow the frames, and a frame's
\* program counter stays in its function (InterpreterStack, InterpreterFrame).
THEOREM FramesStayConsistent == Spec => []FramesConsistent
<1>1. IInv => FramesConsistent
  BY ImpliesFramesConsistent
<1> QED BY Invariance, <1>1, PTL

\* VA_ARG and VA_BLOCK_ARG advance a list only over arguments of active frames,
\* even when the list outlived the frame that started it (inside).
THEOREM ReadsLive == Spec => VaReadsLive
<1>1. IInv /\ [Next]_vars => [ReadLive]_vars
  BY NextReadsLive
<1>2. Spec => [][ReadLive]_vars
  BY Invariance, <1>1, PTL DEF Spec
<1> QED BY <1>2 DEF ReadLive, VaReadsLive
=============================================================================
