--------------------------- MODULE SSAConstruction ---------------------------
(***************************************************************************)
(* The passes that lead into the SSA phase and out of it: BuildSSA,        *)
(* ConventionalSSA and DestroySSA.  A pass maps a body or a form to        *)
(* [ok, s]; what it has done when a step is refused stays done.            *)
(***************************************************************************)
EXTENDS SSAForm

(* A walk over a form keeps what it has come to and whether every edit was *)
(* accepted.                                                               *)
Put(w, r) == [w EXCEPT !.ok = @ /\ r.ok, !.s = r.s]

(* The end of a pass. *)
Checked(w) == [ok |-> w.ok /\ FormVerified(w.s), s |-> w.s]

GraphOf(f) == FunctionGraph(f, [edges |-> BodyEdges(f)])

(* Once a prologue is a block of the body, block b of the graph is block   *)
(* b - 2 of the body, and the edges of the graph are the same.             *)
WithPrologue(f) == IF f.blocks[1].labels # <<>> THEN CreateBlock(f, 1, f.blocks[1].scope) ELSE f

-----------------------------------------------------------------------------
(* BuildSSA: the value of a register at the end of a block is looked up    *)
(* where it is read, and phis appear where the search meets a join.        *)

(* Where the search for register r from block b ends: at a definition, in  *)
(* a join, at the entry or, in a cycle without a join, nowhere.            *)
RECURSIVE Reach(_, _, _, _, _)
Reach(w, g, r, b, path) ==
    LET in == Incoming(g.edges, b)
        found(k, v) == [k |-> k, v |-> v, at |-> b, path |-> IF k \in {"entry", "join"} THEN path \cup {b} ELSE path]
    IN  CASE <<b, r>> \in DOMAIN w.defs -> found("def", w.defs[<<b, r>>])
          [] b \in path \/ b = 1 -> found("undef", Val("undef", None, r))
          [] Len(in) = 1 -> IF g.edges[in[1]].source = 1 THEN found("entry", Val("entry", None, r))
                            ELSE Reach(w, g, r, g.edges[in[1]].source, path \cup {b})
          [] b = 2 -> found("undef", Val("undef", None, r))
          [] OTHER -> found("join", PhiValue(NextPhi(w.s)))

Predecessors(f, g, b) ==
    LET in == Incoming(g.edges, b) IN [k \in DOMAIN in |-> f.blocks[g.edges[in[k]].source - 2].n]

Found(w, g, r, x) ==
    CASE x.k = "def" -> w
      [] x.k = "join" -> [Put(w, AddPhi(w.s, w.s.f.blocks[x.at - 2].n, r, Predecessors(w.s.f, g, x.at))) EXCEPT
                            !.phis = Append(@, NextPhi(w.s)), !.defs = @ @@ (<<x.at, r>> :> x.v)]
      [] OTHER -> Put(w, Initial(w.s, x.k, r))

(* The path is remembered once all instructions have been seen. *)
Remembered(w, r, x) == IF w.cache THEN [w EXCEPT !.defs = @ @@ [k \in x.path \X {r} |-> x.v]] ELSE w

ReadAs(w, g, r, x) == [w |-> Remembered(Found(w, g, r, x), r, x), v |-> x.v]
Read(w, g, b, r) == ReadAs(w, g, r, Reach(w, g, r, b, {}))

ReadHardware(w, g, b, i) ==
    LET each(a, r) == LET x == Read(a, g, b, r) IN Put(x.w, AddHardwareInput(x.w.s, i, r, x.v))
    IN  IF i.op = "ret" THEN FoldLeft(each, w, SetToSeq(Boundary(w.s.f))) ELSE w

ReadInputs(w, g, b, i) ==
    LET each(a, site) == LET x == Read(a, g, b, InputRegister(i, site)) IN Put(x.w, AddInput(x.w.s, i, site, x.v))
    IN  FoldLeft(each, w, InputList(i))

Define(w, b, i) ==
    IF ~HasOutput(i) THEN w
    ELSE [Put(w, AddDefinition(w.s, i)) EXCEPT !.defs = (<<b, i.d>> :> InsnValue(i.n)) @@ @]

BuildBlock(w, g, b) ==
    FoldLeft(LAMBDA a, i : Define(ReadInputs(ReadHardware(a, g, b, i), g, b, i), b, i), w, w.s.f.blocks[b - 2].ins)

(* Reading the inputs of a phi may make more phis. *)
RECURSIVE FillPhis(_, _, _)
FillPhis(w, g, p) ==
    LET n == w.phis[p]
        each(a, e) == LET x == Read(a, g, g.edges[e].source, a.s.val[PhiValue(n)].origin)
                      IN  Put(x.w, AddPhiInput(x.w.s, n, x.v))
    IN  IF p > Len(w.phis) THEN w
        ELSE FillPhis(FoldLeft(each, w, Incoming(g.edges, BlockAt(w.s.f, w.s.phi[n].block) + 2)), g, p + 1)

(* The values a phi merges apart from itself. *)
Merged(s, n) == {InputOf(s, n, k) : k \in DOMAIN s.phi[n].preds} \ {PhiValue(n)}

MinimizePhi(w, n) ==
    LET none == Val("undef", None, w.s.val[PhiValue(n)].origin)
    IN  CASE n \notin DOMAIN w.s.phi \/ Cardinality(Merged(w.s, n)) > 1 -> w
          [] Merged(w.s, n) = {} -> Put(w, ErasePhiFor(Initial(w.s, "undef", none.r).s, n, none))
          [] OTHER -> Put(w, ErasePhiFor(w.s, n, CHOOSE v \in Merged(w.s, n) : TRUE))

Sweep(w) == FoldLeft(MinimizePhi, w, w.phis)

RECURSIVE Minimize(_, _)
Minimize(w, next) == IF next.s.phi = w.s.phi THEN next ELSE Minimize(next, Sweep(next))

Minimized(w) == Minimize(w, Sweep(w))

(* The first value of a register keeps it, the value on entry before any.  *)
RenameValue(w, v) ==
    LET o == w.s.val[v].origin
        fresh == FreshRegister(w.s, o)
        counted == [w EXCEPT !.count[o] = @ + 1]
    IN  IF w.count[o] = 0 THEN counted ELSE Put(counted, Rename(fresh.s, v, fresh.r, FALSE))

RenameBlock(w, b) ==
    LET phis == PhisOf(w.s, w.s.f.blocks[b].n)
        defs == SelectSeq(w.s.f.blocks[b].ins, HasOutput)
    IN  FoldLeft(RenameValue, FoldLeft(RenameValue, w, [k \in DOMAIN phis |-> PhiValue(phis[k])]),
                 [k \in DOMAIN defs |-> InsnValue(defs[k].n)])

RenameAll(w) ==
    Put(w, MarkRenamed(FoldLeft(RenameBlock,
                                [w EXCEPT !.count = [r \in w.s.f.regs |->
                                                       IF Val("entry", None, r) \in DOMAIN w.s.val THEN 1 ELSE 0]],
                                [b \in DOMAIN w.s.f.blocks |-> b]).s))

Separated(w, rename) == IF rename THEN RenameAll(w) ELSE w

BuildForm(f, g, rename) ==
    LET start == [ok |-> TRUE, s |-> NewForm(f), defs |-> <<>>, phis |-> <<>>, cache |-> FALSE, count |-> <<>>]
        scanned == FoldLeft(LAMBDA w, b : IF b <= 2 THEN w ELSE BuildBlock(w, g, b), start, g.order)
        filled == FillPhis([scanned EXCEPT !.cache = TRUE], g, 1)
    IN  Checked(Separated(Minimized(filled), rename))

(* A block has one label at most, and the body verifies. *)
Buildable(f) == Verified(f) /\ \A b \in DOMAIN f.blocks : Len(f.blocks[b].labels) <= 1

BuildSSA(f, rename) ==
    IF ~Buildable(f) THEN Rejected(NewForm(f))
    ELSE BuildForm(WithPrologue(f), GraphOf(WithPrologue(f)), rename)

-----------------------------------------------------------------------------
(* ConventionalSSA: the inputs of a phi are copied on its edges into one   *)
(* register, which the phi then stands for.                                *)

(* Copies go in front of what leaves the block. *)
CopyPlace(blk) == IF Terminated(blk) /\ Last(blk.ins).op \notin {"ret", "jret"} THEN Last(blk.ins).n ELSE None

(* Sites read a copy once it is there. *)
ReadCopy(w, sites, copy) == IF w.ok THEN Put(w, ReplaceSites(w.s, sites, copy)) ELSE w

CopyOnEdge(w, n, edge, k) ==
    LET pred == w.s.f.blocks[BlockAt(w.s.f, w.s.phi[n].preds[k])]
        source == InputOf(w.s, n, k)
        with == Put(w, InsertInstruction(w.s, pred.n, CopyPlace(pred), Insn("mov", edge, RegOf(w.s, source), <<>>),
                                         <<source>>, None))
    IN  ReadCopy(with, {PhiSite(n, k)}, InsnValue(NewNode(w.s.f)))

(* Every use of the phi is in the block of the phi. *)
LocalUse(s, n) == \A x \in Sites(s, PhiValue(n)) : UseBlock(s, x) = s.phi[n].block

(* A phi that is used elsewhere is copied back into its own register right *)
(* behind it.                                                              *)
CopyBack(w, n, original, users) ==
    LET with == Put(w, InsertInstruction(w.s, w.s.phi[n].block, w.s.phi[n].before,
                                         Insn("mov", original, RegOf(w.s, PhiValue(n)), <<>>), <<PhiValue(n)>>, n))
    IN  ReadCopy(with, users, InsnValue(NewNode(w.s.f)))

CopyEdges(w, n, edge) ==
    FoldLeft(LAMBDA a, k : IF a.ok THEN CopyOnEdge(a, n, edge, k) ELSE a, w, [k \in 1 .. Inputs(w.s, n) |-> k])

(* The phi takes the register of the edges; users and local are from       *)
(* before that.                                                            *)
StandFor(w, n, original, users, local) == IF ~w.ok \/ local THEN w ELSE CopyBack(w, n, original, users)

TakeEdge(w, n, original, edge) ==
    StandFor(Put(w, Rename(w.s, PhiValue(n), edge, FALSE)), n, original, Sites(w.s, PhiValue(n)), LocalUse(w.s, n))

WithEdge(w, n, original, fresh) == TakeEdge(CopyEdges([w EXCEPT !.s = fresh.s], n, fresh.r), n, original, fresh.r)

MakeConventional(w, n) ==
    IF ~w.ok THEN w
    ELSE WithEdge(w, n, RegOf(w.s, PhiValue(n)), FreshRegister(w.s, RegOf(w.s, PhiValue(n))))

MarkedConventional(w) == IF w.ok THEN MarkConventional(w.s) ELSE Rejected(w.s)

ConventionalSSA(s) ==
    IF s.conventional THEN Kept(s)
    ELSE MarkedConventional(FoldLeft(MakeConventional, [ok |-> TRUE, s |-> s],
                                     FlattenSeq([b \in DOMAIN s.f.blocks |-> PhisOf(s, s.f.blocks[b].n)])))

-----------------------------------------------------------------------------
(* DestroySSA: the body goes on alone; registers whose address is taken    *)
(* have to live in memory from then on.                                    *)
DestroySSA(s) ==
    LET taken == {i.u : i \in {x \in Instructions(s.f) : x.op = "addr"}}
    IN  IF ~Completable(s) THEN Refused(s.f)
        ELSE IF s.f.backed = {} THEN Done(s.f)
        ELSE MaterializeStorage(s.f, taken)
=============================================================================
