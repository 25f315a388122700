--------------------------- MODULE MachineExecution ---------------------------
(***************************************************************************)
(* What the code emitted for a function does, symbolically: which values   *)
(* of the function each hardware register and each frame unit holds.  The  *)
(* function itself runs beside it, so that a value read from a place that  *)
(* does not hold it, or an instruction out of turn, shows.                 *)
(*                                                                         *)
(* A token <<r, h>> is half h of the current value of register r; only     *)
(* sixteen-byte values have a second half.                                 *)
(***************************************************************************)
EXTENDS MachineRewrite

Halves(r) == IF r \in Wide \cup WideRegisters THEN 1 .. 2 ELSE 1 .. 1

HardPlace(p, h) == <<"hard", p, h>>
UnitPlace(u) == <<"unit", u, 1>>

\* The place of half h of what is kept at a location.
HalfAt(l, h) == IF IsHard(l) THEN HardPlace(l[2], h) ELSE UnitPlace(l[2] + h - 1)

Places(size) ==
    UNION {{HardPlace(p, h) : h \in Halves(p)} : p \in PhysicalRegisters}
    \cup {UnitPlace(u) : u \in 0 .. size - 1}

AnAddress == <<-1, 1>>
ASum == <<-2, 1>>

----------------------------------------------------------------------------
(***************************************************************************)
(* Coalescing changed the function that the code was made from: its steps  *)
(* get the positions their instructions have in the function as it was.    *)
(***************************************************************************)
IsSourceStep(x) == x.do \in {"insn", "gone"} /\ x.block # 0

Located(e, merged) ==
    [code |-> [n \in DOMAIN e.code |->
                 [k \in DOMAIN e.code[n] |->
                    IF IsSourceStep(e.code[n][k])
                      THEN [e.code[n][k] EXCEPT !.index = merged.origin[e.code[n][k].block][@]]
                      ELSE e.code[n][k]]],
     layout |-> e.layout, labels |-> e.labels, size |-> e.size, erased |-> merged.erased,
     error |-> e.error]

(***************************************************************************)
(* A run is a position in the emitted code (node and step), the position   *)
(* of the function beside it, the tokens each place holds, the registers   *)
(* that have a value at all, and the bindings whose value the next call or *)
(* return hands on: those written since a call last destroyed them.        *)
(***************************************************************************)
InitialRun(e) ==
    [node |-> Head(e.layout), step |-> 1, block |-> 2, index |-> 1,
     holds |-> [x \in Places(e.size) |->
                  IF x[1] = "hard" THEN {<<x[2], x[3]>>} ELSE {}],
     defined |-> PhysicalRegisters, implicit |-> {}]

\* The next instruction of the function; blocks end by falling into the next.
Normal(f, b, k) ==
    LET from[c \in b .. LastBlock(f) + 1] ==
          IF c > LastBlock(f) THEN <<Exit, 1>>
          ELSE IF (IF c = b THEN k ELSE 1) <= Len(f.body[c]) THEN <<c, IF c = b THEN k ELSE 1>>
          ELSE from[c + 1]
    IN  from[b]

Beside(run, b, k) == [run EXCEPT !.block = b, !.index = k]

Holds(run, r, l) == \A h \in Halves(r) : <<r, h>> \in run.holds[HalfAt(l, h)]

AtStep(e, run) == run.node # Exit /\ run.step <= Len(e.code[run.node])
StepAt(e, run) == e.code[run.node][run.step]
SourceOf(f, x) == f.body[x.block][x.index]

----------------------------------------------------------------------------
\* Effects on what the places hold.
Forget(holds, regs) == [x \in DOMAIN holds |-> {t \in holds[x] : t[1] \notin regs}]

Clear(holds, places) == [x \in DOMAIN holds |-> IF x \in places THEN {} ELSE holds[x]]

Whole(p) == {HardPlace(p, h) : h \in Halves(p)}

Put(holds, r, l) ==
    LET forgot == Forget(holds, {r})
        target == {HalfAt(l, h) : h \in Halves(r)} \cup (IF IsHard(l) THEN Whole(l[2]) ELSE {})
    IN  [x \in DOMAIN holds |->
           IF x \notin target THEN forgot[x]
           ELSE {<<r, h>> : h \in {n \in Halves(r) : HalfAt(l, n) = x}}]

\* A copy: wherever the source's value is, the destination's value is too.
Copied(holds, r, s) ==
    [x \in DOMAIN holds |-> holds[x] \cup {<<r, t[2]>> : t \in {u \in holds[x] : u[1] = s}}]

\* A call gives the bindings it keeps new values; what it destroys is lost.
Bound == DOMAIN Binding
KeptBindings == {v \in Bound : Binding[v] \notin CallClobbered}

AcrossCall(holds) ==
    LET changed == CallClobbered \cup {Binding[v] : v \in KeptBindings}
        lost == UNION {Whole(p) : p \in changed} \cup {HardPlace(p, 2) : p \in PartlyKept}
        kept == Forget(Clear(holds, lost), KeptBindings \cup CallClobbered)
    IN  [x \in DOMAIN holds |->
           kept[x] \cup {<<v, 1>> : v \in {w \in KeptBindings : x = HardPlace(Binding[w], 1)}}]

\* A move from location from to location to: what is found there goes along.
MoveTo(holds, r, s, from, to) ==
    LET forgot == IF r = s THEN holds ELSE Forget(holds, {r})
        carried == [x \in DOMAIN holds |->
                      IF \E h \in Halves(r) : x = HalfAt(to, h)
                        THEN forgot[HalfAt(from, CHOOSE h \in Halves(r) : x = HalfAt(to, h))]
                        ELSE forgot[x]]
    IN  Copied(carried, r, s)

Results(holds, i, x) ==
    IF IsMove(i) /\ i.mem = <<>> /\ i.in # <<>>
      THEN MoveTo(holds, i.out[1], i.in[1], x.in[1], x.out[1])
    ELSE FoldLeft(LAMBDA acc, k : Put(acc, i.out[k], x.out[k]), holds,
                  [k \in 1 .. Len(i.out) |-> k])

\* The instruction i at step x.  A copy of an undefined value is undefined.
Effect(run, i, x, level) ==
    LET early == Forget(Clear(run.holds, UNION {Whole(p) : p \in i.early}), i.early)
        called == IF IsCall(i) THEN AcrossCall(early) ELSE early
        lost == IF ~IsCall(i) THEN {}
                ELSE CallClobbered \cup (IF Advanced(level) THEN {} ELSE Bound \ KeptBindings)
        unknown == IF IsMove(i) /\ ~(Reads(i) \subseteq run.defined) THEN Defines(i) ELSE {}
    IN  [run EXCEPT !.holds = Results(called, i, x),
                    !.defined = ((@ \ (lost \cup i.early)) \cup Defines(i)) \ unknown,
                    !.implicit = ((IF IsCall(i) THEN @ \cap KeptBindings ELSE @)
                                    \cup (Defines(i) \cap Bound)) \ unknown]

\* The function goes on past the moves that coalescing erased: they copy a value
\* to where it is.
SamePlace == [in |-> <<Hard(0)>>, out |-> <<Hard(0)>>]

PassErased(f, e, level, run, at) ==
    IF at \notin e.erased THEN run
    ELSE Beside(Effect(run, f.body[at[1]][at[2]], SamePlace, level), at[1], at[2] + 1)

Settle(f, e, level, run) ==
    FoldLeft(LAMBDA acc, n : PassErased(f, e, level, acc, Normal(f, acc.block, acc.index)),
             run, [n \in 1 .. Cardinality(e.erased) |-> n])

StartRun(f, e, level) == Settle(f, e, level, InitialRun(e))

\* The steps that move values between places.
Transport(run, x) ==
    LET units == {n \in Halves(x.hard) : n <= x.slot[3]}
        addressing == Clear(run.holds, Whole(x.hard))
    IN  CASE x.do = "use" -> run
          [] x.do = "load" ->
               [run EXCEPT !.holds = [p \in DOMAIN @ |->
                  IF p \notin Whole(x.hard) THEN @[p]
                  ELSE IF p[3] \in units THEN @[HalfAt(x.slot, p[3])] ELSE {}]]
          [] x.do = "store" ->
               [run EXCEPT !.holds = [p \in DOMAIN @ |->
                  IF \E h \in units : p = HalfAt(x.slot, h)
                    THEN @[HardPlace(x.hard, CHOOSE h \in units : p = HalfAt(x.slot, h))]
                    ELSE @[p]]]
          [] x.do = "address" ->
               [run EXCEPT !.holds = [addressing EXCEPT ![HardPlace(x.hard, 1)] = {AnAddress}]]
          [] x.do = "sum" ->
               [run EXCEPT !.holds = [addressing EXCEPT ![HardPlace(x.hard, 1)] = {ASum}]]

----------------------------------------------------------------------------
(***************************************************************************)
(* What the next step must find.                                           *)
(***************************************************************************)
\* Operands that are undefined in the function may be anything.
Finds(run, r, l) == r \in run.defined => Holds(run, r, l)

ReadsItsInputs(run, i, x) ==
    /\ IF i.op = "addr" THEN AnAddress \in run.holds[HalfAt(x.in[1], 1)]
       ELSE \A k \in DOMAIN i.in : Finds(run, i.in[k], x.in[k])
    /\ IF Len(x.mem) = Len(i.mem) THEN \A k \in DOMAIN i.mem : Finds(run, i.mem[k], x.mem[k])
       ELSE ASum \in run.holds[HalfAt(x.mem[1], 1)]
    /\ \A p \in i.args : Finds(run, p, Hard(p))
    /\ IsCall(i) \/ i.op = "ret" => \A v \in run.implicit : Finds(run, v, Hard(Binding[v]))

\* Both registers of an address that is summed up are there to be added.
AddsItsInputs(run, f, e, x) ==
    LET later == {n \in run.step .. Len(e.code[run.node]) : e.code[run.node][n].do = "insn"}
        i == SourceOf(f, e.code[run.node][Min(later)])
    IN  Finds(run, i.mem[1], Hard(x.hard)) /\ Finds(run, i.mem[2], Hard(x.other))

StepIsSound(f, e, run) ==
    AtStep(e, run) =>
      LET x == StepAt(e, run) IN
      /\ IsSourceStep(x) =>
           /\ Normal(f, run.block, run.index) = <<x.block, x.index>>
           /\ x.do = "insn" => ReadsItsInputs(run, SourceOf(f, x), x)
      /\ x.do = "sum" => AddsItsInputs(run, f, e, x)

----------------------------------------------------------------------------
(***************************************************************************)
(* The run's successors: where the step may lead.                          *)
(***************************************************************************)
LayoutNext(e, n) ==
    LET at == SelectInSeq(e.layout, LAMBDA m : m = n)
    IN  IF at = Len(e.layout) THEN Exit ELSE e.layout[at + 1]

Enter(run, n) == [run EXCEPT !.node = n, !.step = 1]

\* Where control may go after the source instruction at step x.
AfterSource(f, e, run, x) ==
    LET i == SourceOf(f, x)
        on == Beside([run EXCEPT !.step = @ + 1], x.block, x.index + 1)
        taken == {Beside(Enter(run, e.labels[x.to[k]]), i.to[k], 1) : k \in DOMAIN i.to}
        indirect == {Beside(Enter(run, e.labels[b]), b, 1) : b \in f.addressed}
    IN  CASE i.op = "branch" -> {on} \cup taken
          [] i.op \in {"jmp", "switch"} -> taken
          [] i.op = "jmpi" -> indirect
          [] i.op = "ret" -> {Enter(run, Exit)}
          [] OTHER -> {on}

RunSuccessors(f, e, level, run) ==
    LET x == StepAt(e, run)
        next == [run EXCEPT !.step = @ + 1]
    IN  IF run.node = Exit THEN {}
        ELSE IF ~AtStep(e, run) THEN {Enter(run, LayoutNext(e, run.node))}
        ELSE IF IsSourceStep(x)
          THEN {Settle(f, e, level, n) :
                  n \in AfterSource(f, e, Effect(run, SourceOf(f, x), x, level), x)}
        ELSE IF x.do = "insn" THEN {Enter(run, e.labels[x.to[1]])}
        ELSE {Transport(next, x)}
=============================================================================
