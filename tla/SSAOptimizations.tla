-------------------------- MODULE SSAOptimizations --------------------------
(***************************************************************************)
(* The passes that improve a renamed form: copy propagation, dead code,    *)
(* loop invariants and pressure relief.  A pass maps a form to [ok, s].    *)
(***************************************************************************)
EXTENDS SSAConstruction

(* What the passes demand before they start. *)
Optimizable(s) == FormVerified(s) /\ Verified(s.f) /\ s.renamed /\ ~s.conventional

DefinedBy(s, v) == InstructionAt(s.f, v.n)

-----------------------------------------------------------------------------
(* Copy propagation. *)

PropagationLimit == 30

(* A use of a copy becomes a use of what it copies. *)
RECURSIVE Propagate(_, _, _)
Propagate(r, x, hops) ==
    LET s == r.s
        v == s.use[x]
        copied == v.k = "insn" /\ IsCopy(DefinedBy(s, v))
        source == s.use[InSite(v.n, 1)]
    IN  IF ~r.ok \/ ~copied \/ hops = PropagationLimit THEN r
        ELSE IF RegOf(s, v) = RegOf(s, source) \/ Binding(RegOf(s, v)) # Binding(RegOf(s, source)) THEN r
        ELSE Propagate(Retarget(s, x, source), x, hops + 1)

PropagateAll(r, sites) == FoldLeft(LAMBDA a, x : Propagate(a, x, 0), r, sites)

(* A copy right behind what it copies disappears if the source is used     *)
(* once more, right after the copy; a phi is next to its anchor.           *)
Coalescible(s, n, previous, following) ==
    LET i == InstructionAt(s.f, n)
        source == s.use[InSite(n, 1)]
        next == NextInstruction(s.f, n)
    IN  /\ IsCopy(i) /\ Sites(s, InsnValue(n)) # {}
        /\ CASE source.k = "insn" -> previous = None /\ NextInstruction(s.f, source.n) = n
             [] source.k = "phi" -> source.n = previous
             [] OTHER -> FALSE
        /\ Cardinality(Sites(s, source)) = 2
        /\ next # None \/ following # None
        /\ \E x \in Sites(s, source) : \/ x.p = "insn" /\ following = None /\ x.n = next
                                       \/ x.p = "phi" /\ x.n = following

(* Doubling becomes a shift: a new instruction writes the same register,   *)
(* takes over the uses, and the old one goes.                              *)
StrengthReduce(s, n) ==
    LET i == InstructionAt(s.f, n)
        source == s.use[InSite(n, 1)]
        new == NewNode(s.f)
        with == InsertInstruction(s, s.f.blocks[BlockOf(s.f, n)].n, n, Insn("shift", i.d, RegOf(s, source), <<>>),
                                  <<source>>, None)
        used == ReplaceAllUses(with.s, InsnValue(n), InsnValue(new))
    IN  CASE i.op # "twice" -> [r |-> Kept(s), n |-> n]
          [] i.op = "twice" /\ ~(with.ok /\ used.ok) -> [r |-> Rejected(s), n |-> n]
          [] OTHER -> [r |-> EraseInstruction(used.s, n), n |-> new]

(* An extension of an extension reads what that one reads. *)
Extends(s, n) ==
    LET v == s.use[InSite(n, 1)]
    IN  InstructionAt(s.f, n).op = "ext" /\ v.k = "insn" /\ DefinedBy(s, v).op = "ext"

Extend(s, n) ==
    LET i == InstructionAt(s.f, n)
        original == s.use[InSite(s.use[InSite(n, 1)].n, 1)]
    IN  Replace(s, n, Insn("ext", i.d, RegOf(s, original), <<>>), <<original>>)

(* The phis of a block are met where they are anchored: those from p on    *)
(* with this anchor come next.                                             *)
RECURSIVE PropagatePhis(_, _, _, _)
PropagatePhis(r, phis, p, before) ==
    IF p \in DOMAIN phis /\ r.s.phi[phis[p]].before = before
    THEN PropagatePhis(PropagateAll(r, [k \in DOMAIN r.s.phi[phis[p]].preds |-> PhiSite(phis[p], k)]), phis, p + 1, before)
    ELSE [r |-> r, p |-> p, n |-> before]

AnchoredPhi(s, phis, p, before) ==
    IF p \in DOMAIN phis /\ s.phi[phis[p]].before = before THEN phis[p] ELSE None

(* reduced = [r, n]; an extension that was rewritten is met again. *)
Extended(reduced, next) ==
    IF reduced.r.ok /\ Extends(reduced.r.s, reduced.n)
    THEN [r |-> Extend(reduced.r.s, reduced.n), next |-> reduced.n]
    ELSE [r |-> reduced.r, next |-> next]

CopyStep(r, n, previous, following, next) ==
    IF ~r.ok THEN [r |-> r, next |-> next]
    ELSE IF Coalescible(r.s, n, previous, following) THEN [r |-> CoalesceCopy(r.s, n), next |-> next]
    ELSE Extended(StrengthReduce(r.s, n), next)

(* Instruction n once the phis in front of it are done; next comes after   *)
(* it.  The address of a register is left alone.                           *)
CopyAt(s, phis, p, n, next) ==
    IF InstructionAt(s.f, n).op = "addr" THEN [r |-> Kept(s), next |-> next]
    ELSE LET read == PropagateAll(Kept(s), InputList(InstructionAt(s.f, n)))
         IN  CopyStep(read, n, IF p = 1 THEN None ELSE AnchoredPhi(s, phis, p - 1, n),
                      AnchoredPhi(s, phis, p, next), next)

\* at = [r, p, n]: the phis in front of instruction n are done.
CopyOn(phis, at) ==
    LET done == CopyAt(at.r.s, phis, at.p, at.n, NextInstruction(at.r.s.f, at.n))
    IN  PropagatePhis(done.r, phis, at.p, done.next)

RECURSIVE CopyWalk(_, _)
CopyWalk(phis, at) == IF at.r.ok /\ at.n # None THEN CopyWalk(phis, CopyOn(phis, at)) ELSE at.r

CopyBlock(r, b) ==
    LET phis == PhisOf(r.s, b)
        ins == r.s.f.blocks[BlockAt(r.s.f, b)].ins
    IN  CopyWalk(phis, PropagatePhis(r, phis, 1, IF ins = <<>> THEN None ELSE Head(ins).n))

CopyPropagation(s) ==
    Checked(FoldLeft(CopyBlock, Kept(s), [b \in DOMAIN s.f.blocks |-> s.f.blocks[b].n]))

-----------------------------------------------------------------------------
(* Dead code. *)

Node(p, n) == [p |-> p, n |-> n]

(* The phis and instructions of a block in order. *)
NodeList(s, b) ==
    LET phis(before) ==
          LET here == SelectSeq(PhisOf(s, b), LAMBDA p : s.phi[p].before = before)
          IN  [k \in DOMAIN here |-> Node("phi", here[k])]
        ins == s.f.blocks[BlockAt(s.f, b)].ins
    IN  FlattenSeq([k \in DOMAIN ins |-> Append(phis(ins[k].n), Node("insn", ins[k].n))]) \o phis(None)

(* Faulty form: the flags of an instruction do not matter.                 *)
FlagsReadNever(s, n) == FALSE

(* A branch tests the flags of an instruction with only copies and         *)
(* extensions between them.                                                *)
FlagsRead(s, n) ==
    LET list == NodeList(s, s.f.blocks[BlockOf(s.f, n)].n)
        at == CHOOSE k \in DOMAIN list : list[k] = Node("insn", n)
        op(k) == IF list[k].p = "phi" THEN "phi" ELSE InstructionAt(s.f, list[k].n).op
    IN  \E k \in at + 1 .. Len(list) : op(k) = "bo" /\ \A j \in at + 1 .. k - 1 : op(j) \in {"mov", "ext"}

(* off: sites about to go. *)
Dead(s, x, off) ==
    IF x.p = "phi" THEN Sites(s, PhiValue(x.n)) \subseteq off
    ELSE LET i == InstructionAt(s.f, x.n)
         IN  /\ i.op # "call" /\ HasOutput(i) /\ Sites(s, InsnValue(x.n)) \subseteq off
             /\ i.op = "addo" => ~FlagsRead(s, x.n)

Enqueue(w, x, off) ==
    IF x \notin w.queued /\ Dead(w.s, x, off) THEN [w EXCEPT !.pending = Append(@, x), !.queued = @ \cup {x}] ELSE w

EraseNode(w, x) == Put(w, IF x.p = "phi" THEN ErasePhi(w.s, x.n) ELSE EraseInstruction(w.s, x.n))

(* What an erased node read is looked at again, one input after the other. *)
EraseDead(w, x) ==
    LET sites == IF x.p = "phi" THEN [k \in DOMAIN w.s.phi[x.n].preds |-> PhiSite(x.n, k)]
                 ELSE InputList(InstructionAt(w.s.f, x.n))
        look(a, k) == LET v == w.s.use[sites[k]]
                      IN  IF v.k \in {"insn", "phi"} THEN Enqueue(a, Node(v.k, v.n), {sites[j] : j \in 1 .. k}) ELSE a
    IN  EraseNode(FoldLeft(look, [w EXCEPT !.pending = Front(@)], [k \in DOMAIN sites |-> k]), x)

RECURSIVE DeadWalk(_)
DeadWalk(w) == IF w.pending = <<>> \/ ~w.ok THEN w ELSE DeadWalk(EraseDead(w, Last(w.pending)))

DeadCode(s) ==
    LET nodes == FlattenSeq([b \in DOMAIN s.f.blocks |-> NodeList(s, s.f.blocks[b].n)])
        start == FoldLeft(LAMBDA w, x : Enqueue(w, x, {}),
                          [ok |-> TRUE, s |-> s, pending |-> <<>>, queued |-> {}], nodes)
    IN  Checked(DeadWalk(start))

-----------------------------------------------------------------------------
(***************************************************************************)
(* Moving instructions of a renamed form: loop invariants in front of the  *)
(* loop, and constants next to the one place that uses them.               *)
(***************************************************************************)

-----------------------------------------------------------------------------
(* The block in front of an innermost loop. *)

LoopsOf(g, t) == {n \in DOMAIN t.roots : n > g.count}

Innermost(g, t) == {l \in LoopsOf(g, t) : \A m \in LoopsOf(g, t) : t.parent[m] # l}

LogicallyEmpty(s, blk) == blk.ins = <<>> /\ blk.labels = <<>> /\ PhisOf(s, blk.n) = <<>>

(* The one edge that enters the loop, 0 if there are more. *)
EnteringEdge(g, header) ==
    LET in == Range(Incoming(g.edges, header)) \ g.back
    IN  IF Cardinality(in) = 1 THEN CHOOSE e \in in : TRUE ELSE 0

(* [ok, s, at]: the block invariants go to, if there is one, made if it    *)
(* has to be.  nodes names the blocks of the graph.                        *)
Preheader(s, g, nodes, edge) ==
    LET from == s.f.blocks[BlockAt(s.f, nodes[g.edges[edge].source])]
        to == s.f.blocks[BlockAt(s.f, nodes[g.edges[edge].destination])]
        phis == PhisOf(s, from.n)
        last == Last(from.ins)
        tail == phis # <<>> /\ s.phi[Last(phis)].before = None
        split == SplitFallthrough(s, from.n, to.n)
        none == [ok |-> TRUE, s |-> s, at |-> None]
    IN  CASE g.edges[edge].kind # "fallthrough" /\ from.ins # <<>> /\ last.op # "jmp" -> none
          [] /\ ~LogicallyEmpty(s, from) /\ ~LogicallyEmpty(s, to)
             /\ BlockAt(s.f, to.n) # BlockAt(s.f, from.n) + 1 -> none
          [] from.ins = <<>> \/ tail \/ last.op = "jmp" \/ Flow(last.op) = "next" -> [none EXCEPT !.at = from.n]
          [] OTHER -> [ok |-> split.ok, s |-> split.s, at |-> IF split.ok THEN NewNode(s.f) ELSE None]

-----------------------------------------------------------------------------
(* Loop invariants.  A loop is l = [in, above]: its own blocks and the     *)
(* blocks right in the loops around it; a new block in front of a loop is  *)
(* among the latter.                                                       *)

ValueBlock(s, v) ==
    CASE v.k = "insn" -> s.f.blocks[BlockOf(s.f, v.n)].n
      [] v.k = "phi" -> s.phi[v.n].block
      [] OTHER -> None

(* The operation may run where the loop is entered. *)
MayMove(i) ==
    /\ Flow(i.op) = "next" /\ i.op \notin {"call", "load"}
    /\ {i.d, i.u, i.w} \cap Hardware = {}

Eligible(s, l, i, invariant) ==
    /\ MayMove(i)
    /\ \A x \in InputSites(i) :
         LET v == s.use[x]
         IN  (v.k = "insn" /\ v.n \in invariant) \/ ValueBlock(s, v) \in l.above \cup {None}

InLoop(s, l) ==
    FlattenSeq([b \in DOMAIN s.f.blocks |-> IF s.f.blocks[b].n \in l.in THEN s.f.blocks[b].ins ELSE <<>>])

Users(s, n) == {x.n : x \in {y \in Sites(s, InsnValue(n)) : y.p = "insn"}}

(* Invariants first, then what reads them, as long as there is more.       *)
RECURSIVE Invariants(_, _, _, _)
Invariants(s, l, order, p) ==
    LET more == {n \in Users(s, order[p]) \ Range(order) : Eligible(s, l, InstructionAt(s.f, n), Range(order))}
    IN  IF p > Len(order) THEN order ELSE Invariants(s, l, order \o SetToSeq(more), p + 1)

(* A site that is no operand of an invariant. *)
VariantUse(s, order, n) == \E x \in Sites(s, InsnValue(n)) : ~(x.p = "insn" /\ x.n \in Range(order))

(* An invariant that is marked takes the invariants it needs along.        *)
RECURSIVE MarkFrom(_, _, _, _)
MarkFrom(s, order, marked, next) ==
    LET reads == {s.use[x] : x \in UNION {InputSites(InstructionAt(s.f, n)) : n \in next}}
        more == {v.n : v \in {r \in reads : r.k = "insn"}} \cap Range(order)
    IN  IF next \subseteq marked THEN marked ELSE MarkFrom(s, order, marked \cup next, more)

(* Moving pays if it frees the operands for good. *)
Profitable(s, order, marked, i) ==
    /\ InputSites(i) # {}
    /\ \A x \in InputSites(i) :
         LET v == s.use[x] IN ~(v.k = "insn" /\ v.n \in Range(order) \ marked /\ VariantUse(s, order, v.n))

Marked(s, order) ==
    FoldLeft(LAMBDA marked, n :
               LET i == InstructionAt(s.f, n)
               IN  IF n \notin marked /\ (i.op = "mul" \/ Profitable(s, order, marked, i))
                   THEN MarkFrom(s, order, marked, {n}) ELSE marked,
             {}, Reverse(order))

Hoist(w, at, order) ==
    LET marked == Marked(w.s, order)
        blk(a) == a.s.f.blocks[BlockAt(a.s.f, at)]
        move(a, n) ==
          IF ~a.ok THEN a
          ELSE Put(a, MoveInstruction(a.s, n, at, IF Terminated(blk(a)) THEN Last(blk(a).ins).n ELSE None))
    IN  FoldLeft(move, w, SelectSeq(order, LAMBDA n : n \in marked))

ProcessLoop(w, l, at) ==
    LET first == SelectSeq(InLoop(w.s, l), LAMBDA i : Eligible(w.s, l, i, {}))
        order == Invariants(w.s, l, [k \in DOMAIN first |-> first[k].n], 1)
    IN  IF ~w.ok \/ at = None THEN w ELSE Hoist(w, at, order)

(* The loops around loop n, 0 for the whole function. *)
RECURSIVE Around(_, _)
Around(t, n) == IF t.parent[n] = 0 THEN {0} ELSE {t.parent[n]} \cup Around(t, t.parent[n])

LoopRecord(g, t, nodes, l, made) ==
    [in |-> {nodes[b] : b \in {x \in 3 .. g.count : t.parent[x] = l}},
     above |-> {nodes[b] : b \in {x \in 3 .. g.count : t.parent[x] \in Around(t, l)}}
               \cup {m.n : m \in {x \in made : x.up \in Around(t, l)}}]

(* a.at: for every loop so far the block its invariants go to. *)
Prepare(a, g, nodes, edge) ==
    LET ready(p) == [ok |-> p.ok, s |-> p.s, at |-> Append(a.at, p.at)]
    IN  IF ~a.ok \/ edge = 0 THEN [a EXCEPT !.at = Append(@, None)] ELSE ready(Preheader(a.s, g, nodes, edge))

ProcessLoops(ready, g, t, nodes, loops) ==
    LET made == {[n |-> ready.at[k], up |-> t.parent[loops[k]]] : k \in DOMAIN loops}
        process(w, k) == ProcessLoop(w, LoopRecord(g, t, nodes, loops[k], made), ready.at[k])
    IN  IF ~ready.ok THEN Rejected(ready.s)
        ELSE Checked(FoldLeft(process, Kept(ready.s), [k \in DOMAIN loops |-> k]))

(* All blocks in front of loops are found before anything moves.  The      *)
(* graph and the loops come from the analyses.                             *)
LoopInvariantMotion(s, g, t) ==
    LET nodes == [b \in 1 .. g.count |-> IF b <= 2 THEN None ELSE s.f.blocks[b - 2].n]
        loops == SetToSortSeq(Innermost(g, t), <)
    IN  ProcessLoops(FoldLeft(LAMBDA a, l : Prepare(a, g, nodes, EnteringEdge(g, t.block[l])),
                              [ok |-> TRUE, s |-> s, at |-> <<>>], loops),
                     g, t, nodes, loops)

-----------------------------------------------------------------------------
(* Pressure relief: a constant with one use in another block moves there.  *)

UserOf(s, n) == CHOOSE x \in Sites(s, InsnValue(n)) : TRUE

Relief(w, n) ==
    LET i == InstructionAt(w.s.f, n)
        user == UserOf(w.s, n)
        to == w.s.f.blocks[BlockOf(w.s.f, user.n)].n
    IN  IF ~w.ok \/ i.op # "mov" \/ i.u # NoReg \/ Cardinality(Sites(w.s, InsnValue(n))) # 1 THEN w
        ELSE IF user.p = "phi" THEN w
        ELSE IF to = w.s.f.blocks[BlockOf(w.s.f, n)].n THEN w
        ELSE Put(w, MoveInstruction(w.s, n, to, user.n))

(* A constant that moves to a later block is met there once more and stays. *)
PressureRelief(s) ==
    LET all == FlattenSeq([b \in DOMAIN s.f.blocks |-> [k \in DOMAIN s.f.blocks[b].ins |-> s.f.blocks[b].ins[k].n]])
    IN  Checked(FoldLeft(Relief, Kept(s), all))
=============================================================================
