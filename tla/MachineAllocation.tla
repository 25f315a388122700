-------------------------- MODULE MachineAllocation --------------------------
(***************************************************************************)
(* MachineAllocation::assign.  Virtual registers are taken in order of     *)
(* priority; each gets the first hardware register that is free at all its *)
(* points, from level two on possibly one from which the whole-block       *)
(* ranges in the way (gaps) are spilled, or else a slot in the frame.      *)
(*                                                                         *)
(* A location is <<"hard", register>>, <<"slot", offset, units>> with the  *)
(* offset in units of eight bytes, or NoLocation.                          *)
(***************************************************************************)
EXTENDS MachineLiveness

CONSTANT WideRegisters      \* hardware registers for sixteen-byte values

NoLocation == <<>>
Hard(p) == <<"hard", p>>
Slot(offset, units) == <<"slot", offset, units>>
IsHard(l) == l # NoLocation /\ l[1] = "hard"
IsSlot(l) == l # NoLocation /\ l[1] = "slot"
SlotUnits(l) == l[2] .. l[2] + l[3] - 1

\* stack_units.
Units(v) == IF v \in Wide THEN 2 ELSE 1

\* TargetMachine::accepts.
AcceptsType(p, v) == (p \in WideRegisters) = (v \in Wide)

Advanced(level) == level >= 2

\* A value that some call happens in the lifetime of may not use a register
\* that calls keep only half of.
AcceptsValue(p, v, crossed) ==
    /\ p \notin Reserved /\ AcceptsType(p, v)
    /\ v \in crossed => (p \in CallClobbered \/ ~ClobbersValue(p, v))

----------------------------------------------------------------------------
AddressTaken(f) ==
    UNION {{f.body[b][k].in[1] : k \in {n \in DOMAIN f.body[b] : f.body[b][n].op = "addr"}} :
             b \in RealBlocks(f)}

\* new_stack: slots are aligned to their size.
NewSlot(size, v) == Slot(((size + Units(v) - 1) \div Units(v)) * Units(v), Units(v))

RangePoints(ranges) == UNION {Points(ranges[k]) : k \in DOMAIN ranges}

LiveLength(ranges) == FoldLeft(LAMBDA n, r : n + r.finish - r.start + 1, 0, ranges)

\* Bound registers first, then the most used, then the longest lived.
PriorityOrder(regs, frequency, ranges) ==
    Sorted(regs, LAMBDA v, w :
        LET boundV == v \in DOMAIN Binding
            boundW == w \in DOMAIN Binding
        IN  IF boundV # boundW THEN boundV
            ELSE IF boundV \/ (frequency[v] = frequency[w]
                               /\ LiveLength(ranges[v]) = LiveLength(ranges[w])) THEN v < w
            ELSE IF frequency[v] # frequency[w] THEN frequency[v] > frequency[w]
            ELSE LiveLength(ranges[v]) > LiveLength(ranges[w]))

(***************************************************************************)
(* The allocation: locations, and per point the hardware registers in use  *)
(* (used), those of them that cannot be had by spilling (busy) and the     *)
(* frame units in use; per block the registers that are in memory while it *)
(* runs (gen); the whole-block ranges that could still be spilled (gaps).  *)
(***************************************************************************)
StartAllocation(f, g, r, level) ==
    LET inMemory == (MemoryBacked \cup AddressTaken(f)) \cap VirtualRegisters
        slots == FoldLeft(LAMBDA acc, v : [loc |-> [acc.loc EXCEPT ![v] = NewSlot(acc.size, v)],
                                           size |-> NewSlot(acc.size, v)[2] + Units(v)],
                          [loc |-> [v \in VirtualRegisters |-> NoLocation], size |-> 0],
                          Sorted(inMemory, <))
        taken == [n \in 0 .. r.points |->
                    Globals \cup {p \in PhysicalRegisters : n \in RangePoints(r.ranges[p])}]
        frequency == [v \in VirtualRegisters |-> Frequency(f, g, level, v)]
    IN  [loc |-> slots.loc, size |-> slots.size, reusable |-> slots.size,
         used |-> taken, busy |-> taken, stack |-> [n \in 0 .. r.points |-> {}],
         gen |-> [b \in Blocks(f) |-> {}], gaps |-> {}, frequency |-> frequency,
         order |-> PriorityOrder(VirtualRegisters \ inMemory, frequency, r.ranges)]

----------------------------------------------------------------------------
(***************************************************************************)
(* Spilling a whole-block range costs a store or a load on every side on   *)
(* which the value leaves the blocks of the range.                         *)
(***************************************************************************)
SpillCost(g, range) ==
    LET side(b, neighbours) ==
          LET outside == neighbours \ range.blocks
              depths == {g.depth[n] + 1 : n \in outside}
          IN  IF outside = {} THEN 0 ELSE 2 * Min({g.depth[b] + 1, Max(depths)})
        both(b) == side(b, Successors(g.cfg, b)) + side(b, Predecessors(g.cfg, b))
    IN  FoldLeft(LAMBDA cost, b : cost + both(b), 0, Sorted(range.blocks, <))

Free(p, range, points) == \A n \in Points(range) : p \notin points[n]

Gap(p, v, n) == [hard |-> p, reg |-> v, range |-> n]
GapRange(r, gap) == r.ranges[gap.reg][gap.range]

\* find_gaps: the gaps on p that meet the range, in order; the one that the
\* previous range of the value ended in is not counted again.
FindGaps(a, r, p, range, found) ==
    LET meeting == {gap \in a.gaps : gap.hard = p
                                     /\ Points(GapRange(r, gap)) \cap Points(range) # {}}
        sorted == Sorted(meeting, LAMBDA x, y :
                             \/ GapRange(r, x).start < GapRange(r, y).start
                             \/ GapRange(r, x).start = GapRange(r, y).start /\ x.reg < y.reg)
    IN  IF found # <<>> /\ sorted # <<>> /\ Last(found) = Head(sorted) THEN Tail(sorted) ELSE sorted

\* What taking p for v would cost, one range of v after the other.
Trial(a, r, g, p, v) ==
    LET ranges == r.ranges[v]
        add(t, n) ==
          LET range == ranges[n]
              gaps == FindGaps(a, r, p, range, t.spilled)
          IN  IF ~t.possible \/ Free(p, range, a.used) THEN t
              ELSE IF Free(p, range, a.busy)
                THEN [t EXCEPT !.spilled = @ \o gaps, !.size = @ + Cardinality(Points(range)),
                               !.profit = FoldLeft(LAMBDA c, x : c - SpillCost(g, GapRange(r, x)),
                                                   @, gaps)]
              ELSE IF range.blocks = {} THEN [t EXCEPT !.possible = FALSE]
              ELSE [t EXCEPT !.spilled = Append(@, Gap(p, v, n)), !.profit = @ - SpillCost(g, range)]
    IN  FoldLeft(add, [possible |-> TRUE, spilled |-> <<>>, size |-> 0, profit |-> a.frequency[v],
                       hard |-> p],
                 [n \in 1 .. Len(ranges) |-> n])

\* Caller-saved registers are preferred; among equals the first is taken.
Preferred(candidates) ==
    IF candidates \cap CallClobbered # {} THEN Min(candidates \cap CallClobbered) ELSE Min(candidates)

Better(t, u) ==
    LET clobbered(x) == x.hard \in CallClobbered
    IN  CASE t.profit # u.profit -> t.profit > u.profit
          [] clobbered(t) # clobbered(u) -> clobbered(t)
          [] t.size # u.size -> t.size > u.size
          [] OTHER -> t.hard < u.hard

\* The choice for v: a register and the ranges to spill for it, if any.
NoChoice == [hard |-> -1, spilled |-> <<>>]

Choose(a, r, g, level, v) ==
    LET accepted == {p \in PhysicalRegisters : AcceptsValue(p, v, r.crossed)}
        free == {p \in accepted : \A n \in RangePoints(r.ranges[v]) : p \notin a.used[n]}
        trials == {t \in {Trial(a, r, g, p, v) : p \in accepted} : t.possible /\ t.profit >= 0}
    IN  IF free # {} THEN [NoChoice EXCEPT !.hard = Preferred(free)]
        ELSE IF Advanced(level) /\ trials # {}
          THEN LET best == CHOOSE t \in trials : \A u \in trials \ {t} : Better(t, u)
               IN  [hard |-> best.hard, spilled |-> best.spilled]
        ELSE NoChoice

\* Faulty form: units in use while v is live are offered again.
ReuseSlotTaken(a, points, v) ==
    LET starts == {o \in a.reusable .. a.size - Units(v) : o % Units(v) = 0}
    IN  IF starts # {} THEN Slot(Min(starts), Units(v)) ELSE NewSlot(a.size, v)

\* The first slot whose units nothing uses while v is live, or a new one.
ReuseSlot(a, points, v) ==
    LET taken == UNION {a.stack[n] : n \in points}
        starts == {o \in a.reusable .. a.size - Units(v) :
                     o % Units(v) = 0 /\ SlotUnits(Slot(o, Units(v))) \cap taken = {}}
    IN  IF starts # {} THEN Slot(Min(starts), Units(v)) ELSE NewSlot(a.size, v)

----------------------------------------------------------------------------
\* Spill what is in the way, then reserve the ranges of v that stay.
TakeHard(a, r, level, v, p, spilled) ==
    LET own == {x.range : x \in {y \in ToSet(spilled) : y.reg = v}}
        others == {x \in ToSet(spilled) : x.reg # v}
        kept == {n \in DOMAIN r.ranges[v] : n \notin own}
        whole == {n \in kept : r.ranges[v][n].blocks # {}}
        freed == UNION {Points(GapRange(r, x)) : x \in others}
        over(n, some) == \E k \in some : n \in Points(r.ranges[v][k])
    IN  [a EXCEPT !.loc[v] = Hard(p),
                  !.used = [n \in DOMAIN @ |-> (IF n \in freed THEN @[n] \ {p} ELSE @[n])
                                               \cup (IF over(n, kept) THEN {p} ELSE {})],
                  !.busy = [n \in DOMAIN @ |-> IF over(n, kept \ whole) THEN @[n] \cup {p} ELSE @[n]],
                  !.gen = [b \in DOMAIN @ |->
                             @[b] \cup {x.reg : x \in {y \in ToSet(spilled) :
                                                         b \in GapRange(r, y).blocks}}],
                  !.gaps = (@ \ others)
                             \cup (IF Advanced(level) THEN {Gap(p, v, n) : n \in whole} ELSE {})]

TakeSlot(a, r, v, slot) ==
    [a EXCEPT !.loc[v] = slot, !.size = Max({@, slot[2] + slot[3]}),
              !.stack = [n \in DOMAIN @ |-> IF n \in RangePoints(r.ranges[v])
                                              THEN @[n] \cup SlotUnits(slot) ELSE @[n]]]

Take(a, r, level, v, choice) ==
    IF choice.hard # NoChoice.hard THEN TakeHard(a, r, level, v, choice.hard, choice.spilled)
    ELSE TakeSlot(a, r, v, ReuseSlot(a, RangePoints(r.ranges[v]), v))

\* One virtual register.  A bound one has its location; an unused one none.
AssignNext(a, r, g, level) ==
    LET v == Head(a.order)
        next == [a EXCEPT !.order = Tail(@)]
    IN  IF v \in DOMAIN Binding THEN [next EXCEPT !.loc[v] = Hard(Binding[v])]
        ELSE IF r.ranges[v] = <<>> THEN next
        ELSE Take(next, r, level, v, Choose(a, r, g, level, v))
=============================================================================
