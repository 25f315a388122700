---------------------------- MODULE MachineRewrite ----------------------------
(***************************************************************************)
(* rewrite_allocated: every operand is replaced by its location.  Values   *)
(* in the frame pass through two temporary registers per class, unless the *)
(* instruction takes its first operand from memory; from level two on,     *)
(* values in registers that a call destroys are saved before the call and  *)
(* restored after it.                                                      *)
(*                                                                         *)
(* The emitted code is a sequence of steps.  A step that stands for an     *)
(* instruction of the function names it and the places of its operands     *)
(* (locations); "gone" is a move that needs no code.                       *)
(***************************************************************************)
EXTENDS MachineAllocation

CONSTANTS
    NarrowTemporaries,  \* the two reload registers for eight-byte values
    WideTemporaries,    \* the two reload registers for sixteen-byte values
    NearUnits           \* frame offsets below this are encoded directly

Step(do, b, k, out, in, mem) ==
    [do |-> do, block |-> b, index |-> k, out |-> out, in |-> in, mem |-> mem, to |-> <<>>]
Anchor == [do |-> "use"]
Load(p, slot) == [do |-> "load", hard |-> p, slot |-> slot]
Store(p, slot) == [do |-> "store", hard |-> p, slot |-> slot]
ComputeAddress(p) == [do |-> "address", hard |-> p]
AddAddresses(p, q) == [do |-> "sum", hard |-> p, other |-> q]

\* MachineSpillEmitter::access: a far slot needs its address in a register.
AccessSlot(slot, p, address, store) ==
    (IF slot[2] + slot[3] <= NearUnits THEN <<>> ELSE <<ComputeAddress(address)>>)
    \o <<IF store THEN Store(p, slot) ELSE Load(p, slot)>>

----------------------------------------------------------------------------
WithSlot(s, ranges, v) ==
    IF v \in DOMAIN s.slots THEN s
    ELSE LET points == RangePoints(ranges[v])
             slot == ReuseSlot(s, points, v)
         IN  [s EXCEPT !.slots = With(@, v, slot), !.size = Max({@, slot[2] + slot[3]}),
                       !.stack = [n \in DOMAIN @ |->
                                    IF n \in points THEN @[n] \cup SlotUnits(slot) ELSE @[n]]]

Preserved(s, a, v, store) ==
    AccessSlot(s.slots[v], a.loc[v][2], NarrowTemporaries[1], store)

\* MachineSpillEmitter::preserve: v is saved to its slot or restored from it,
\* ahead of the code emitted so far.
Preserve(s, a, v, store) == [s EXCEPT !.after = Preserved(s, a, v, store) \o @]

----------------------------------------------------------------------------
(***************************************************************************)
(* The backward pass over a block, from level two on.  The state s has the *)
(* living registers, those to be saved where they are last touched before  *)
(* the call, and the code emitted after the instruction so far.            *)
(***************************************************************************)
Touch(s, a, r, v, output) ==
    LET touched == [s EXCEPT !.living = IF output THEN @ \ {v} ELSE @ \cup {v},
                             !.saves = @ \ {v}]
    IN  IF v \notin s.saves THEN touched
        ELSE Preserve(WithSlot(touched, r.ranges, v), a, v, TRUE)

TouchAll(s, a, r, regs, output) == FoldLeft(LAMBDA acc, v : Touch(acc, a, r, v, output), s, regs)

Restore(s, a, r, v) ==
    Preserve(WithSlot([s EXCEPT !.saves = @ \cup {v}], r.ranges, v), a, v, FALSE)

\* The values whose register the call destroys, the spilled ones excepted.
ToPreserve(s, a, b) ==
    {v \in (s.living \cap VirtualRegisters) \ (a.gen[b] \cup s.saves) :
        IsHard(a.loc[v]) /\ ClobbersValue(a.loc[v][2], v)}

RestoreAll(s, a, r, b) ==
    FoldLeft(LAMBDA acc, v : Restore(acc, a, r, v), s, Sorted(ToPreserve(s, a, b), <))

CrossCall(s, a, r, b, i) ==
    IF ~IsCall(i) THEN s
    ELSE RestoreAll([s EXCEPT !.living = (@ \ CallClobbered) \cup Globals \cup i.args], a, r, b)

Pass(s, a, r, level, b, i) ==
    LET written == TouchAll(s, a, r, i.out, TRUE)
        destroyed == [written EXCEPT !.living = @ \ i.early]
    IN  IF ~Advanced(level) THEN s
        ELSE TouchAll(CrossCall(destroyed, a, r, b, i), a, r, i.in \o i.mem, FALSE)

----------------------------------------------------------------------------
(***************************************************************************)
(* Replacing operands.  t is the translation of one instruction: the       *)
(* temporaries taken for inputs and outputs, the code before and after,    *)
(* and the places of the operands found so far.                            *)
(***************************************************************************)
NoRegister == -1
InFrame(a, v) == v \in VirtualRegisters /\ IsSlot(a.loc[v])
PlaceOf(a, v) == IF v \in VirtualRegisters THEN a.loc[v] ELSE Hard(v)

\* reload: the temporary that already stands for v, or the next free one.
Reload(taken, v, temporaries) ==
    LET same == {x \in ToSet(taken) : v # NoRegister /\ x.reg = v}
        busy == {x.hard : x \in ToSet(taken)}
    IN  IF same # {} THEN [hard |-> (CHOOSE x \in same : TRUE).hard, taken |-> taken, ok |-> TRUE]
        ELSE LET p == IF temporaries[1] \in busy THEN temporaries[2] ELSE temporaries[1]
             IN  [hard |-> p, taken |-> Append(taken, [reg |-> v, hard |-> p]),
                  ok |-> temporaries[2] \notin busy]

Taken(t, output) == IF output THEN t.outputs ELSE t.inputs

\* The temporaries for a value in the frame and for the address of its slot.
Changed(t, a, v, output, data, address) ==
    LET code == AccessSlot(a.loc[v], data.hard, address.hard, output)
    IN  [t EXCEPT !.inputs = IF output THEN @ ELSE address.taken,
                  !.outputs = IF output THEN address.taken ELSE @,
                  !.before = IF output THEN @ ELSE @ \o code,
                  !.after = IF output THEN code \o @ ELSE @,
                  !.place = Hard(data.hard),
                  !.exhausted = @ \/ ~data.ok \/ ~address.ok]

ChangeWith(t, a, v, output, data) ==
    Changed(t, a, v, output, data,
            IF output \/ v \in Wide THEN Reload(data.taken, NoRegister, NarrowTemporaries)
            ELSE data)

\* change: a value in the frame gets a temporary, and another one for the
\* address of its slot unless the first can serve.
Change(t, a, v, output) ==
    ChangeWith(t, a, v, output,
               Reload(Taken(t, output), v,
                      IF v \in Wide THEN WideTemporaries ELSE NarrowTemporaries))

\* One operand; folded is the register that the instruction takes from memory.
Operand(t, a, v, output, folded) ==
    IF v = folded \/ ~InFrame(a, v) THEN [t EXCEPT !.place = PlaceOf(a, v)]
    ELSE Change(t, a, v, output)

Placed(t) == [t EXCEPT !.places = Append(@, t.place)]

Operands(t, a, regs, output, folded) ==
    FoldLeft(LAMBDA acc, v : Placed(Operand(acc, a, v, output, folded)),
             [t EXCEPT !.places = <<>>], regs)

\* The eight-byte inputs in the frame; an address with both registers there
\* counts as two.
FrameInputs(a, i) ==
    Cardinality({k \in DOMAIN i.in : InFrame(a, i.in[k]) /\ i.in[k] \notin Wide})
    + (IF Len(i.mem) = 2 /\ \A k \in 1 .. 2 : InFrame(a, i.mem[k]) THEN 2 ELSE 0)

\* reload_address: the address is computed before anything else is reloaded,
\* and keeps the first temporary.
StartTranslation(a, i, after) ==
    LET empty == [inputs |-> <<>>, outputs |-> <<>>, before |-> <<>>, after |-> after,
                  place |-> NoLocation, places |-> <<>>, out |-> <<>>, in |-> <<>>, mem |-> <<>>,
                  exhausted |-> FALSE]
        both == NarrowTemporaries
    IN  IF FrameInputs(a, i) <= 2 THEN empty
        ELSE IF Len(i.mem) < 2 \/ ~InFrame(a, i.mem[1]) \/ ~InFrame(a, i.mem[2])
          THEN [empty EXCEPT !.exhausted = TRUE]
        ELSE [empty EXCEPT !.inputs = <<[reg |-> NoRegister, hard |-> both[1]]>>,
                           !.before = AccessSlot(a.loc[i.mem[1]], both[1], both[1], FALSE)
                                      \o AccessSlot(a.loc[i.mem[2]], both[2], both[2], FALSE)
                                      \o <<AddAddresses(both[1], both[2])>>,
                           !.mem = <<Hard(both[1])>>]

\* The register whose every occurrence the instruction takes from memory.
Folded(a, i) ==
    LET first == Head(i.out \o i.in)
    IN  IF i.folds /\ InFrame(a, first) /\ a.loc[first][2] + a.loc[first][3] <= NearUnits
          THEN first ELSE NoRegister

\* The places just found are those of the outputs, the inputs or the address.
WithOut(t) == [t EXCEPT !.out = t.places]
WithIn(t) == [t EXCEPT !.in = t.places]
WithMem(t) == [t EXCEPT !.mem = t.places]

\* ADDR: the address of a slot, not the value in it.
TranslateAddress(t, a, i) ==
    LET p == NarrowTemporaries[1]
        started == [t EXCEPT !.inputs = <<[reg |-> NoRegister, hard |-> p]>>,
                             !.before = <<ComputeAddress(p)>>, !.in = <<Hard(p)>>]
    IN  WithOut(Operands(started, a, i.out, TRUE, Folded(a, i)))

Translate(t, a, i) ==
    LET addressed(u) == IF t.mem # <<>> THEN u
                        ELSE WithMem(Operands(u, a, i.mem, FALSE, NoRegister))
        written(u) == WithOut(Operands(u, a, i.out, TRUE, Folded(a, i)))
        read(u) == WithIn(Operands(u, a, i.in, FALSE, Folded(a, i)))
    IN  IF i.op = "store" THEN read(addressed([t EXCEPT !.out = <<>>]))
        ELSE addressed(read(written(t)))

\* The instruction with its operands translated by t; a move between equal
\* places needs no code.
EmitInstruction(s, i, b, k, t) ==
    LET do == IF IsMove(i) /\ i.mem = <<>> /\ t.out = t.in THEN "gone" ELSE "insn"
        step == [Step(do, b, k, t.out, t.in, t.mem) EXCEPT !.to = i.to]
    IN  IF t.exhausted THEN [s EXCEPT !.error = "temporary reload registers exhausted"]
        ELSE [s EXCEPT !.after = t.before \o <<step>> \o t.after]

RewriteOperandsOf(s, a, i, b, k) ==
    LET start == StartTranslation(a, i, s.after)
    IN  EmitInstruction(s, i, b, k, IF i.op = "addr" THEN TranslateAddress(start, a, i)
                                    ELSE Translate(start, a, i))

RewriteInstruction(s, f, a, r, level, b, k) ==
    IF s.error # "" THEN s
    ELSE RewriteOperandsOf(Pass(s, a, r, level, b, f.body[b][k]), a, f.body[b][k], b, k)

RealSteps(code) == SelectSeq(code, LAMBDA x : x.do # "gone")

\* The saves that no instruction of the block precedes go to its start.
EntrySaves(s, a, r, b) ==
    FoldLeft(LAMBDA acc, v :
               IF v \notin r.kill[b] \/ RealSteps(acc.after) = <<>>
                 THEN [acc EXCEPT !.error = "invalid block-entry preservation"]
                 ELSE Preserve(WithSlot(acc, r.ranges, v), a, v, TRUE),
             s, Sorted(s.saves, <))

\* A block that is left without code keeps an anchor.
Anchored(code, f, b, level) ==
    IF level > 0 /\ b \notin f.labelled /\ f.body[b] # <<>> /\ RealSteps(code) = <<>>
      THEN <<Anchor>> \o code ELSE code

FinishBlock(s, f, level, b) == [s EXCEPT !.code[b] = Anchored(s.after, f, b, level)]

\* The scan has reached the top of the block.
CloseBlock(s, f, a, r, live, level, b) ==
    CASE s.error # "" -> s
      [] s.error = "" /\ ~Advanced(level) -> FinishBlock(s, f, level, b)
      [] s.error = "" /\ Advanced(level) ->
           IF s.living # live.in[b]
             THEN [s EXCEPT !.error = "reverse rewrite scan disagrees with live-in"]
             ELSE FinishBlock(EntrySaves(s, a, r, b), f, level, b)

RewriteBlock(s, f, a, r, live, level, b) ==
    LET start == [s EXCEPT !.living = live.out[b], !.saves = {}, !.after = <<>>]
    IN  CloseBlock(FoldRight(LAMBDA k, acc : RewriteInstruction(acc, f, a, r, level, b, k),
                             [k \in 1 .. Len(f.body[b]) |-> k], start),
                   f, a, r, live, level, b)

StartRewrite(f, a) ==
    [code |-> [b \in RealBlocks(f) |-> <<>>], slots |-> <<>>, stack |-> a.stack, size |-> a.size,
     reusable |-> a.reusable, living |-> {}, saves |-> {}, after |-> <<>>,
     error |-> IF \E b \in RealBlocks(f) : \E k \in DOMAIN f.body[b] :
                    \E v \in (Defines(f.body[b][k]) \cup Reads(f.body[b][k])) \cap VirtualRegisters :
                        a.loc[v] = NoLocation
                 THEN "unassigned register operand" ELSE ""]

Rewrite(f, a, r, live, level) ==
    FoldLeft(LAMBDA s, b : RewriteBlock(s, f, a, r, live, level, b), StartRewrite(f, a),
             Sorted(RealBlocks(f), <))

-----------------------------------------------------------------------------
(***************************************************************************)
(* split_allocated_spills: a value that is in memory in some blocks and in *)
(* its register in others is stored or restored on the edges between them. *)
(* Where all edges at one end agree the code goes to that end; elsewhere   *)
(* the edge is split by a block of its own.                                *)
(*                                                                         *)
(* The edited function keeps its nodes (0 entry, 1 exit, then the blocks,  *)
(* then the blocks made for edges), their code, their order in memory, the *)
(* node that each label is at, and the edges, whose ends move as the edges *)
(* are split.                                                              *)
(***************************************************************************)

FirstLabel(b) == b      \* the label of an original block

Targets(code) == IF RealSteps(code) # <<>> /\ Last(RealSteps(code)).do = "insn"
                   THEN Last(RealSteps(code)).to ELSE <<>>

StartEdges(f, g, live, a, rewritten) ==
    [code |-> rewritten.code, layout |-> Sorted(RealBlocks(f), <),
     labels |-> [b \in f.labelled |-> b], next |-> LastBlock(f) + 1,
     edges |-> g.cfg,
     slots |-> rewritten.slots, stack |-> rewritten.stack, size |-> rewritten.size,
     reusable |-> rewritten.reusable, error |-> ""]

In(s, n) == {e \in DOMAIN s.edges : s.edges[e].destination = n}
Out(s, n) == {e \in DOMAIN s.edges : s.edges[e].source = n}

\* The instruction that ends a node's code, and whether it may jump.
LastOp(s, f, n) ==
    LET code == RealSteps(s.code[n])
    IN  IF code = <<>> \/ Last(code).do # "insn" THEN ""
        ELSE IF Last(code).block = 0 THEN "jmp"
        ELSE f.body[Last(code).block][Last(code).index].op

EndsInBranch(s, f, n) == LastOp(s, f, n) \in Jumps

----------------------------------------------------------------------------
(***************************************************************************)
(* What each edge has to store and to restore.                             *)
(***************************************************************************)
Stores(s, a, e) ==
    IF s.edges[e].source < 2 THEN {}
    ELSE a.gen[s.edges[e].destination] \ a.gen[s.edges[e].source]

Restores(s, a, live, e) ==
    IF s.edges[e].destination < 2 THEN {}
    ELSE (a.gen[s.edges[e].source] \ a.gen[s.edges[e].destination])
           \cap live.in[s.edges[e].destination]

Moved(s, a, live, e) == Stores(s, a, e) \cup Restores(s, a, live, e)

\* The edges of a source agree when all of them move the same values and none
\* restores before a branch that could read the register; the edges into a
\* destination agree when all of them move the same values.
MayEndSource(s, f, a, live, e) ==
    /\ Moved(s, a, live, e) # {}
    /\ \/ Restores(s, a, live, e) = {}
       \/ ~EndsInBranch(s, f, s.edges[e].source)
       \/ LastOp(s, f, s.edges[e].source) = "jmp"

Agree(s, a, live, some) ==
    \A e \in some : Moved(s, a, live, e) = UNION {Moved(s, a, live, x) : x \in some}

SourceAgrees(s, f, a, live, e) ==
    LET out == Out(s, s.edges[e].source)
    IN  (\A x \in out : MayEndSource(s, f, a, live, x)) /\ Agree(s, a, live, out)

DestinationAgrees(s, a, live, e) ==
    LET in == In(s, s.edges[e].destination)
    IN  (\A x \in in : Moved(s, a, live, x) # {}) /\ Agree(s, a, live, in)

\* Where the code of an edge goes.  When both ends agree, the end with the
\* single edge gives way; with none the source has it.
Site(s, f, a, live, e) ==
    LET source == SourceAgrees(s, f, a, live, e)
        destination == DestinationAgrees(s, a, live, e)
        single == Cardinality(Out(s, s.edges[e].source)) = 1
    IN  CASE source /\ ~(destination /\ single) -> "source"
          [] destination -> "destination"
          [] OTHER -> "edge"

----------------------------------------------------------------------------
(***************************************************************************)
(* MachineEdgeEditor::split.                                               *)
(***************************************************************************)
Jump(label) == [Step("insn", 0, 0, <<>>, <<>>, <<>>) EXCEPT !.to = <<label>>]

After(layout, n, new) == InsertAt(layout, SelectInSeq(layout, LAMBDA x : x = n) + 1, new)
Before(layout, n, new) == InsertAt(layout, SelectInSeq(layout, LAMBDA x : x = n), new)

WithoutLast(code) == Front(code)

\* A block for the edge, right after its source.  A fallthrough gets an
\* anchor; a jump or return moves into the new block.
SplitAfterSource(s, e) ==
    LET edge == s.edges[e]
        falls == edge.kind = "fallthrough"
        code == s.code[edge.source]
        new == s.next
    IN  [s EXCEPT !.next = @ + 1, !.layout = After(@, edge.source, new),
                  !.code = With([@ EXCEPT ![edge.source] = IF falls THEN @ ELSE WithoutLast(code)],
                                new, IF falls THEN <<Anchor>> ELSE <<Last(code)>>),
                  !.edges = Append([@ EXCEPT ![e].destination = new, ![e].kind = "fallthrough",
                                             ![e].operand = NoOperand],
                                   [edge EXCEPT !.source = new])]

\* A block right before a destination with no other edge: it takes over the
\* label, so the jump need not change.
SplitBeforeDestination(s, e) ==
    LET d == s.edges[e].destination
        new == s.next
    IN  [s EXCEPT !.next = @ + 1, !.layout = Before(@, d, new), !.code = With(@, new, <<>>),
                  !.labels = [l \in DOMAIN @ |-> IF @[l] = d THEN new ELSE @[l]],
                  !.edges = Append([@ EXCEPT ![e].destination = new],
                                   Edge(new, d, "fallthrough", NoOperand))]

\* Code that falls into the destination of a critical edge has to jump over
\* the new block: at its own end, or from a trampoline behind a branch.
JumpOver(s, e) ==
    LET d == s.edges[e].destination
        label == CHOOSE l \in DOMAIN s.labels : s.labels[l] = d
        falling == {x \in In(s, d) : s.edges[x].kind = "fallthrough"}
        x == Min(falling)
        other == s.edges[x].source
        new == s.next
    IN  IF falling = {} THEN s
        ELSE IF Cardinality(Out(s, other)) = 1
          THEN [s EXCEPT !.code[other] = Append(@, Jump(label)),
                         !.edges[x].kind = "branch", !.edges[x].operand = 1]
        ELSE [s EXCEPT !.next = @ + 1, !.layout = After(@, other, new),
                       !.code = With(@, new, <<Jump(label)>>),
                       !.edges = Append([@ EXCEPT ![x].destination = new],
                                        Edge(new, d, "branch", 1))]

\* Faulty form: what falls into the destination now falls into the new block.
SplitCriticalOpen(s, e) ==
    LET d == s.edges[e].destination
        new == s.next
        source == s.edges[e].source
        at == Len(s.code[source])
    IN  [s EXCEPT !.next = @ + 1, !.layout = Before(@, d, new),
                  !.labels = With(@, new, new),
                  !.code = With([@ EXCEPT ![source][at].to[s.edges[e].operand] = new],
                                new, <<>>),
                  !.edges = Append([@ EXCEPT ![e].destination = new],
                                   Edge(new, d, "fallthrough", NoOperand))]

\* A block with a label of its own right before the destination; the branch
\* is redirected to it.
SplitCritical(s, e) ==
    LET over == JumpOver(s, e)
        d == s.edges[e].destination
        new == over.next
        source == s.edges[e].source
        at == Len(s.code[source])
    IN  [over EXCEPT !.next = @ + 1, !.layout = Before(@, d, new),
                     !.labels = With(@, new, new),
                     !.code = With([@ EXCEPT ![source][at].to[s.edges[e].operand] = new],
                                   new, <<>>),
                     !.edges = Append([@ EXCEPT ![e].destination = new],
                                      Edge(new, d, "fallthrough", NoOperand))]

\* The node that takes the edge's code: the source or destination itself when
\* the code can stand at its start.
Split(s, f, e) ==
    LET edge == s.edges[e]
        src == edge.source
        dst == edge.destination
        jumps == edge.operand # NoOperand
        falling == {x \in In(s, dst) : s.edges[x].kind = "fallthrough"}
        made(new) == [state |-> new, node |-> new.edges[e].destination, end |-> FALSE]
        kept(node) == [state |-> s, node |-> node, end |-> FALSE]
        failed(why) == [kept(src) EXCEPT !.state.error = why]
    IN  CASE edge.kind = "fallthrough" -> made(SplitAfterSource(s, e))
          [] edge.kind # "fallthrough" /\ Cardinality(Out(s, src)) = 1 ->
               IF Cardinality(In(s, src)) = 1 THEN kept(src)
               ELSE IF LastOp(s, f, src) \in {"jmp", "ret"} THEN made(SplitAfterSource(s, e))
               ELSE failed("single-destination split requires a jump/return")
          [] edge.kind # "fallthrough" /\ Cardinality(Out(s, src)) > 1
               /\ Cardinality(In(s, dst)) = 1 ->
               IF RealSteps(s.code[dst]) = <<>> THEN kept(dst)
               ELSE made(SplitBeforeDestination(s, e))
          [] OTHER ->
               IF ~jumps THEN failed("critical indirect edge cannot be redirected")
               ELSE IF \E x \in falling : Cardinality(Out(s, s.edges[x].source)) = 1
                                          /\ EndsInBranch(s, f, s.edges[x].source)
                 THEN failed("single fallthrough source ends in a branch")
               ELSE made(SplitCritical(s, e))

----------------------------------------------------------------------------
(***************************************************************************)
(* EdgeSpillEngine::run.  Sites are decided before the first edge is       *)
(* split; the code is then placed node by node, stores ahead of restores.  *)
(***************************************************************************)
Placement(v, node, end, store) == [reg |-> v, node |-> node, end |-> end, store |-> store]

PlacementsAt(s, a, live, e, node, end) ==
    {Placement(v, node, end, TRUE) : v \in Stores(s, a, e)}
    \cup {Placement(v, node, end, FALSE) : v \in Restores(s, a, live, e)}

\* at is the edited code and the node that takes the edge's code, at its end
\* or at its start.
PutAt(acc, s0, a, live, e, at) ==
    [state |-> at.state,
     placements |-> acc.placements \cup PlacementsAt(s0, a, live, e, at.node, at.end)]

PlaceEdge(acc, s0, f, a, live, e) ==
    LET site == Site(s0, f, a, live, e)
        edge == s0.edges[e]
        here(node, end) == [state |-> acc.state, node |-> node, end |-> end]
    IN  IF acc.state.error # "" THEN acc
        ELSE PutAt(acc, s0, a, live, e,
               CASE site = "source" -> here(edge.source, TRUE)
                 [] site = "destination" -> here(edge.destination, FALSE)
                 [] site = "edge" -> Split(acc.state, f, e))

\* Faulty form: stores are placed first at the start of a block too.
PrecedesForward(p, q) ==
    CASE p.node # q.node -> p.node < q.node
      [] p.end # q.end -> ~p.end
      [] p.store # q.store -> p.store
      [] OTHER -> p.reg < q.reg

\* Code at the start of a block is inserted in front of what is there, so
\* there the last to be placed runs first.
Precedes(p, q) ==
    CASE p.node # q.node -> p.node < q.node
      [] p.end # q.end -> ~p.end
      [] p.store # q.store -> IF p.end THEN p.store ELSE ~p.store
      [] OTHER -> p.reg < q.reg

EmitAccess(s, f, a, p) ==
    LET code == Preserved(s, a, p.reg, p.store)
        old == s.code[p.node]
    IN  [s EXCEPT !.code[p.node] =
            IF ~p.end THEN code \o old
            ELSE IF EndsInBranch(s, f, p.node) THEN Front(old) \o code \o <<Last(old)>>
            ELSE old \o code]

EmitPlacement(s, f, a, r, p) == EmitAccess(WithSlot(s, r.ranges, p.reg), f, a, p)

----------------------------------------------------------------------------
(***************************************************************************)
(* finish: the edited edges must be the ones that the code now has.        *)
(***************************************************************************)
CodeEdges(s, f) ==
    LET at(n) == SelectInSeq(s.layout, LAMBDA x : x = n)
        falls(n) == LastOp(s, f, n) \notin Exits \cup {"jmp"} /\ at(n) < Len(s.layout)
        kind(n) == IF LastOp(s, f, n) = "switch" THEN "switch" ELSE "branch"
        to(n) == IF EndsInBranch(s, f, n) THEN Targets(s.code[n]) ELSE <<>>
    IN  {Edge(n, s.layout[at(n) + 1], "fallthrough", NoOperand) :
            n \in {x \in ToSet(s.layout) : falls(x)}}
        \cup UNION {{Edge(n, s.labels[to(n)[k]], kind(n), k) : k \in DOMAIN to(n)} :
                      n \in ToSet(s.layout)}
        \cup {Edge(n, s.labels[FirstLabel(b)], "indirect", NoOperand) :
                n \in {x \in ToSet(s.layout) : LastOp(s, f, x) = "jmpi"}, b \in f.addressed}

InnerEdges(s) == {x \in ToSet(s.edges) : x.kind \notin {"entry", "exit"}}

Finish(s, f) ==
    IF InnerEdges(s) # CodeEdges(s, f) THEN [s EXCEPT !.error = "edited topology disagrees"] ELSE s

PlaceEdges(s0, f, g, a, live) ==
    FoldLeft(LAMBDA acc, e : PlaceEdge(acc, s0, f, a, live, e), [state |-> s0, placements |-> {}],
             SelectSeq([e \in DOMAIN g.cfg |-> e], LAMBDA e : Moved(s0, a, live, e) # {}))

EmitPlacements(placed, f, a, r) ==
    IF placed.state.error # "" THEN placed.state
    ELSE Finish(FoldLeft(LAMBDA s, p : EmitPlacement(s, f, a, r, p), placed.state,
                         Sorted(placed.placements, Precedes)), f)

SpillEdges(s0, f, g, live, a, r, level) ==
    IF ~Advanced(level) THEN Finish(s0, f)
    ELSE EmitPlacements(PlaceEdges(s0, f, g, a, live), f, a, r)

EdgeSpills(f, g, live, a, r, rewritten, level) ==
    SpillEdges(StartEdges(f, g, live, a, rewritten), f, g, live, a, r, level)
=============================================================================
