----------------------------- MODULE IRFunction -----------------------------
(***************************************************************************)
(* The body of one function in register form and the operations that edit  *)
(* it in place.  Blocks, labels and instructions are nodes: an address,    *)
(* which is what the code compares, and the count g of nodes made before,  *)
(* which it does not know; the allocator hands out the lowest free         *)
(* address.  Every edit returns [ok, f]: all of them check first and       *)
(* publish afterwards.                                                     *)
(***************************************************************************)
EXTENDS Naturals, Sequences, SequencesExt, FiniteSetsExt, TLC

CONSTANTS Registers,     \* the registers a function may have
          Hardware       \* those of them bound to a hardware register

None == [a |-> 0, g |-> 0]
NoReg == "none"

EmptyFunction ==
    [blocks |-> <<>>, regs |-> {}, backed |-> {}, data |-> {}, gen |-> 0, tracks |-> FALSE,
     erased |-> <<>>, rev |-> [i |-> 0, c |-> 0, r |-> 0]]

(* An operation, the register it writes, up to two it reads, its labels.   *)
Insn2(op, d, u, w, l) == [op |-> op, d |-> d, u |-> u, w |-> w, l |-> l]
Insn(op, d, u, l) == Insn2(op, d, u, NoReg, l)

Flow(op) == CASE op \in {"ret", "jret", "jmp", "jmpi", "switch"} -> "exit"
              [] op \in {"bt", "bo"} -> "branch"
              [] OTHER -> "next"

(* Faulty form: taking the address of a label is no change of control flow. *)
AffectsCfgJumpsOnly(op) == Flow(op) # "next"

AffectsCfg(op) == Flow(op) # "next" \/ op = "laddr"

NodesIn(blk) == {blk.n} \cup Range(blk.labels) \cup {i.n : i \in Range(blk.ins)}

Nodes(f) == UNION {NodesIn(f.blocks[b]) : b \in DOMAIN f.blocks}

Labels(f) == UNION {Range(f.blocks[b].labels) : b \in DOMAIN f.blocks}

BlockAt(f, n) == CHOOSE b \in DOMAIN f.blocks : f.blocks[b].n = n

BlockOf(f, n) == CHOOSE b \in DOMAIN f.blocks : \E i \in DOMAIN f.blocks[b].ins : f.blocks[b].ins[i].n = n

PlaceOf(f, n) == CHOOSE i \in DOMAIN f.blocks[BlockOf(f, n)].ins : f.blocks[BlockOf(f, n)].ins[i].n = n

InstructionAt(f, n) == f.blocks[BlockOf(f, n)].ins[PlaceOf(f, n)]

Target(f, l) == CHOOSE b \in DOMAIN f.blocks : l \in Range(f.blocks[b].labels)

Terminated(blk) == blk.ins # <<>> /\ Flow(Last(blk.ins).op) # "next"

(* The lowest address no node has now. *)
NewNode(f) ==
    [a |-> Min((1 .. Cardinality(Nodes(f)) + 1) \ {n.a : n \in Nodes(f)}), g |-> f.gen + 1]

Changed(f, cfg) == [f EXCEPT !.rev.i = @ + 1, !.rev.c = IF cfg THEN @ + 1 ELSE @]

RegistersChanged(f) == [f EXCEPT !.rev.r = @ + 1]

(* Erased nodes are remembered under their address with the revision the   *)
(* erasing edit is about to publish, once anything holds a handle.         *)
Erased(f, nodes) ==
    LET gone == {n.a : n \in nodes}
    IN  IF ~f.tracks THEN f
        ELSE [f EXCEPT !.erased = [a \in gone \cup DOMAIN @ |-> IF a \in gone THEN f.rev.i + 1 ELSE @[a]]]

WasErased(f, a, revision) == a \in DOMAIN f.erased /\ revision <= f.erased[a]

Done(f) == [ok |-> TRUE, f |-> f]
Refused(f) == [ok |-> FALSE, f |-> f]

(* The registers an instruction needs in a register: a move and addr take  *)
(* one that lives in memory; loads and stores are moves at a base.         *)
Direct(t) ==
    CASE t.op \in {"mov", "addr"} -> {}
      [] t.op = "load" -> {t.u}
      [] t.op = "store" -> {t.d}
      [] OTHER -> {t.d, t.u, t.w}

ValidInstruction(f, t) ==
    /\ Range(t.l) \subseteq Labels(f)
    /\ {t.d, t.u, t.w} \subseteq f.regs \cup {NoReg}
    /\ Direct(t) \cap f.backed = {}
    /\ t.op = "addr" => t.u \notin Hardware

(* What Function::verify demands of the shape of a body. *)
Ends(blk) == blk.ins # <<>> /\ (Last(blk.ins).op = "jcall" \/ Flow(Last(blk.ins).op) = "exit")

Has(f, op) == \E b \in DOMAIN f.blocks : \E i \in Range(f.blocks[b].ins) : i.op = op

(* What a branch on overflow tests: the last instruction that is no copy   *)
(* of a register, nothing after a label or where the stack scope changes.  *)
Flags(flags, blk) ==
    FoldLeft(LAMBDA x, i :
               [x EXCEPT !.ok = @ /\ (i.op = "bo" => x.source = "addo"),
                         !.source = IF i.op = "mov" /\ i.u # NoReg THEN @ ELSE i.op],
             IF blk.labels # <<>> \/ blk.scope # flags.scope
             THEN [flags EXCEPT !.source = "none", !.scope = blk.scope] ELSE flags,
             blk.ins)

FlagsVerified(f) ==
    Has(f, "bo") => FoldLeft(Flags, [ok |-> TRUE, source |-> "none", scope |-> 0], f.blocks).ok

Verified(f) ==
    /\ f.blocks # <<>>
    /\ \A b \in DOMAIN f.blocks : \A i \in DOMAIN f.blocks[b].ins :
         /\ ValidInstruction(f, f.blocks[b].ins[i])
         /\ i < Len(f.blocks[b].ins) => Flow(f.blocks[b].ins[i].op) = "next"
    /\ ~(Has(f, "ret") /\ Has(f, "jret"))
    /\ FlagsVerified(f)
    /\ Ends(Last(f.blocks))

-----------------------------------------------------------------------------
(* Creation. *)

Block(n, scope) == [n |-> n, labels |-> <<>>, ins |-> <<>>, scope |-> scope]

(* A new block in front of the place-th. *)
CreateBlock(f, place, scope) ==
    Changed([f EXCEPT !.blocks = InsertAt(@, place, Block(NewNode(f), scope)), !.gen = @ + 1], TRUE)

CreateLabel(f, b) ==
    Changed([f EXCEPT !.blocks[b].labels = Append(@, NewNode(f)), !.gen = @ + 1], TRUE)

CreateRegister(f, r) ==
    IF r \in f.regs THEN Refused(f) ELSE Done(RegistersChanged([f EXCEPT !.regs = @ \cup {r}]))

WithNode(t, n) == [n |-> n, op |-> t.op, d |-> t.d, u |-> t.u, w |-> t.w, l |-> t.l]

PlaceInstruction(f, b, place, t) ==
    Changed([f EXCEPT !.blocks[b].ins = InsertAt(@, place, WithNode(t, NewNode(f))), !.gen = @ + 1],
            AffectsCfg(t.op))

(* InstructionBuilder::emit and append_validated, at the end of a block. *)
EmitAt(f, b, t) ==
    IF Terminated(f.blocks[b]) \/ ~ValidInstruction(f, t) THEN Refused(f)
    ELSE Done(PlaceInstruction(f, b, Len(f.blocks[b].ins) + 1, t))

(* A value operation makes the register it defines, after it has checked   *)
(* the rest.                                                               *)
ValueOperation(f, b, t) ==
    IF Terminated(f.blocks[b]) \/ ~ValidInstruction(f, [t EXCEPT !.d = NoReg]) \/ t.d \in f.regs THEN Refused(f)
    ELSE Done(PlaceInstruction(CreateRegister(f, t.d).f, b, Len(f.blocks[b].ins) + 1, t))

(* Calls, conversions and accesses to variables are staged: all their      *)
(* instructions are checked, then the registers they define and then the   *)
(* instructions become part of the body.                                   *)
Staged(f, b, rs, ts) ==
    LET with == [f EXCEPT !.regs = @ \cup rs, !.rev.r = @ + Cardinality(rs)]
        placed[k \in 0 .. Len(ts)] ==
          IF k = 0 THEN with
          ELSE PlaceInstruction(placed[k - 1], b, Len(placed[k - 1].blocks[b].ins) + 1, ts[k])
    IN  IF Terminated(f.blocks[b]) \/ \E t \in Range(ts) : ~ValidInstruction(with, t) THEN Refused(f)
        ELSE Done(placed[Len(ts)])

-----------------------------------------------------------------------------
(* Rewriting. *)

InsertBefore(f, n, t) ==
    IF ~ValidInstruction(f, t) \/ Flow(t.op) # "next" THEN Refused(f)
    ELSE Done(PlaceInstruction(f, BlockOf(f, n), PlaceOf(f, n), t))

(* A new operand list that changes no label keeps the edges.               *)
KeepsEdges(old, t) == old.op = t.op /\ old.l = t.l

ReplaceOwned(f, n, t) ==
    LET b == BlockOf(f, n)
        i == PlaceOf(f, n)
        old == f.blocks[b].ins[i]
    IN  IF ~ValidInstruction(f, t) \/ (Flow(t.op) # "next" /\ i < Len(f.blocks[b].ins)) THEN Refused(f)
        ELSE Done(Changed([f EXCEPT !.blocks[b].ins[i] = WithNode(t, n)],
                          (AffectsCfg(old.op) \/ AffectsCfg(t.op)) /\ ~KeepsEdges(old, t)))

Erase(f, n) ==
    Done(Changed([Erased(f, {n}) EXCEPT !.blocks[BlockOf(f, n)].ins = RemoveAt(@, PlaceOf(f, n))],
                 AffectsCfg(InstructionAt(f, n).op)))

(* The body without an instruction, and with it again at its new place.    *)
MoveTo(f, insn, b, before) ==
    LET without == [f EXCEPT !.blocks[BlockOf(f, insn.n)].ins = RemoveAt(@, PlaceOf(f, insn.n))]
    IN  Changed([without EXCEPT !.blocks[b].ins =
                    InsertAt(@, IF before = None THEN Len(@) + 1 ELSE PlaceOf(without, before), insn)],
                AffectsCfg(insn.op))

MoveBefore(f, n, b, before) ==
    IF before = n THEN Done(f)
    ELSE IF \/ before # None /\ (BlockOf(f, before) # b \/ Flow(InstructionAt(f, n).op) # "next")
            \/ before = None /\ Terminated(f.blocks[b]) /\ Last(f.blocks[b].ins).n # n
    THEN Refused(f)
    ELSE Done(MoveTo(f, InstructionAt(f, n), b, before))

(* The instructions from this one on go to a new block right after.        *)
SplitBefore(f, n) ==
    LET b == BlockOf(f, n)
        i == PlaceOf(f, n)
        with == CreateBlock(f, b + 1, f.blocks[b].scope)
    IN  Done([with EXCEPT !.blocks[b].ins = SubSeq(@, 1, i - 1),
                          !.blocks[b + 1].ins = SubSeq(f.blocks[b].ins, i, Len(f.blocks[b].ins))])

MergeFallthrough(f, b) ==
    IF \/ b = Len(f.blocks) \/ Terminated(f.blocks[b])
       \/ f.blocks[b + 1].labels # <<>> \/ f.blocks[b].scope # f.blocks[b + 1].scope
    THEN Refused(f)
    ELSE LET joined == [f.blocks EXCEPT ![b].ins = @ \o f.blocks[b + 1].ins]
         IN  Done(Changed([Erased(f, {f.blocks[b + 1].n}) EXCEPT !.blocks = RemoveAt(joined, b + 1)], TRUE))

(* before is a position, one past the last block to move to the end.       *)
MoveBlockBefore(f, b, before) ==
    IF before \in {b, b + 1} THEN Done(f)
    ELSE LET place == IF before < b THEN before ELSE before - 1
         IN  Done(Changed([f EXCEPT !.blocks = InsertAt(RemoveAt(@, b), place, f.blocks[b])], TRUE))

(* One empty block in front for every label but the last.                  *)
SeparateLabels(f, b) ==
    LET count == Len(f.blocks[b].labels) - 1
        labels == f.blocks[b].labels
        step[k \in 0 .. count] ==
          IF k = 0 THEN f
          ELSE LET g == CreateBlock(step[k - 1], b + k - 1, f.blocks[b].scope)
               IN  [g EXCEPT !.blocks[b + k - 1].labels = <<labels[k]>>,
                             !.blocks[b + k].labels = Tail(@)]
    IN  IF Len(labels) < 2 THEN Done(f) ELSE Done(step[count])

UsedLabels(f) == f.data \cup UNION {UNION {Range(i.l) : i \in Range(f.blocks[b].ins)} : b \in DOMAIN f.blocks}

(* What an erasure leaves of a sequence: the members at these places.      *)
Remaining(s, places) ==
    LET rest[k \in 0 .. Len(s)] ==
          IF k = 0 THEN <<>> ELSE IF k \in places THEN Append(rest[k - 1], s[k]) ELSE rest[k - 1]
    IN  rest[Len(s)]

EraseUnusedLabels(f) ==
    LET unused == Labels(f) \ UsedLabels(f)
        used(labels) == Remaining(labels, {p \in DOMAIN labels : labels[p] \notin unused})
        kept == [b \in DOMAIN f.blocks |-> [f.blocks[b] EXCEPT !.labels = used(f.blocks[b].labels)]]
    IN  Done(IF unused = {} THEN f ELSE Changed([Erased(f, unused) EXCEPT !.blocks = kept], TRUE))

(* Faulty form: erasing a block logs the block, not what is in it.         *)
NodesOfHeads(f, bs) == {f.blocks[b].n : b \in bs}

(* The nodes that go with a set of blocks. *)
NodesOf(f, bs) == UNION {NodesIn(f.blocks[b]) : b \in bs}

EraseBlocks(f, bs) ==
    LET kept == [f EXCEPT !.blocks = Remaining(@, DOMAIN @ \ bs)]
    IN  IF bs = {} THEN Done(f)
        ELSE IF kept.blocks = <<>> \/ ~Ends(Last(kept.blocks)) \/ ~(UsedLabels(kept) \subseteq Labels(kept))
        THEN Refused(f)
        ELSE Done(Changed([Erased(f, NodesOf(f, bs)) EXCEPT !.blocks = kept.blocks], TRUE))

(* Only a change of scope is a change. *)
SetStackScope(f, b, scope) ==
    Done(IF f.blocks[b].scope = scope THEN f ELSE Changed([f EXCEPT !.blocks[b].scope = scope], TRUE))

ReplaceUses(f, old, new) ==
    LET use(r) == IF r = old THEN new ELSE r
        uses(i) == [i EXCEPT !.u = use(i.u), !.w = use(i.w)]
        ins(blk) == [i \in DOMAIN blk.ins |-> uses(blk.ins[i])]
        renamed == [b \in DOMAIN f.blocks |-> [f.blocks[b] EXCEPT !.ins = ins(f.blocks[b])]]
        invalid == \E b \in DOMAIN f.blocks : \E i \in Range(f.blocks[b].ins) :
                     uses(i) # i /\ ~ValidInstruction(f, uses(i))
    IN  IF old = new THEN Done(f)
        ELSE IF {old, new} \cap Hardware # {} \/ invalid THEN Refused(f)
        ELSE Done(IF renamed = f.blocks THEN f ELSE Changed([f EXCEPT !.blocks = renamed], FALSE))

(* Registers nothing needs in a register can live in memory.               *)
MaterializeStorage(f, rs) ==
    IF \/ rs \cap Hardware # {}
       \/ \E b \in DOMAIN f.blocks : \E i \in Range(f.blocks[b].ins) : Direct(i) \cap rs # {}
    THEN Refused(f)
    ELSE Done(IF rs \subseteq f.backed THEN f
              ELSE Changed(RegistersChanged([f EXCEPT !.backed = @ \cup rs]), FALSE))

(* A datum that holds the address of a label makes its block an entry.     *)
DefineLabelData(f, l) == [f EXCEPT !.data = @ \cup {l}, !.rev.c = @ + 1]
=============================================================================
