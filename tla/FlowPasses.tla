----------------------------- MODULE FlowPasses -----------------------------
(***************************************************************************)
(* The passes that change the control flow of a body outside of the SSA    *)
(* phase: PrepareCFG and JumpOptimization.  The latter keeps the graph of  *)
(* the function up to date by itself and stores it for the passes to come. *)
(***************************************************************************)
EXTENDS IRAnalyses

-----------------------------------------------------------------------------
(* PrepareCFG: one label per block, no fallthrough into a block without    *)
(* one, no empty block without one, and nothing unreachable on request.    *)

(* A block a separation put in front has one label and is left alone.      *)
RECURSIVE SeparateFrom(_, _)
SeparateFrom(f, b) ==
    IF b > Len(f.blocks) THEN f
    ELSE SeparateFrom(SeparateLabels(f, b).f, b + Max({1, Len(f.blocks[b].labels)}))

RECURSIVE MergeFrom(_, _)
MergeFrom(f, b) ==
    IF b >= Len(f.blocks) THEN f
    ELSE IF MergeFallthrough(f, b).ok THEN MergeFrom(MergeFallthrough(f, b).f, b)
    ELSE MergeFrom(f, b + 1)

EmptyBlocks(f) == {b \in DOMAIN f.blocks : f.blocks[b].ins = <<>> /\ f.blocks[b].labels = <<>>}

Unreachable(f) == DOMAIN f.blocks \ Range(ControlFlowGraph(f).order)

PrepareCFG(f, prune) ==
    LET merged == MergeFrom(SeparateFrom(f, 1), 1)
        full == EraseBlocks(merged, EmptyBlocks(merged))
    IN  IF ~full.ok THEN Refused(merged)
        ELSE IF prune THEN EraseBlocks(full.f, Unreachable(full.f)) ELSE full

-----------------------------------------------------------------------------
(* JumpOptimization.  j = [f, nodes, edges, in, out, alive, taken, refs,   *)
(* moved]: the body, which block is which in the graph (a prologue is      *)
(* none), the edges and the lists of them at every block, the blocks that  *)
(* are left, those whose address is taken, the labels in use at the start, *)
(* and whether a branch was sent elsewhere.                                *)

StartJumps(f, g) ==
    [f |-> f, edges |-> g.edges, alive |-> 1 .. g.count, refs |-> {}, moved |-> FALSE,
     nodes |-> [b \in 1 .. g.count |-> IF b <= Offset(f) THEN None ELSE f.blocks[b - Offset(f)].n],
     taken |-> {b + Offset(f) : b \in AddressTaken(f)},
     in |-> [b \in 1 .. g.count |-> Incoming(g.edges, b)], out |-> [b \in 1 .. g.count |-> Outgoing(g.edges, b)]]

NoBlock == Block(None, 0)
BodyOf(j, b) == IF j.nodes[b] = None THEN NoBlock ELSE j.f.blocks[BlockAt(j.f, j.nodes[b])]
BlockOfLabel(j, l) == CHOOSE b \in DOMAIN j.nodes : l \in Range(BodyOf(j, b).labels)

Less(seq, id) == SelectSeq(seq, LAMBDA x : x # id)

EraseEdge(j, id) ==
    [j EXCEPT !.out[j.edges[id].source] = Less(@, id), !.in[j.edges[id].destination] = Less(@, id)]

EraseBlock(j, b) == [FoldLeft(EraseEdge, j, j.in[b] \o j.out[b]) EXCEPT !.alive = @ \ {b}]

Following(j, b) == LET later == {n \in j.alive : n > b} IN IF later = {} THEN 0 ELSE Min(later)

RECURSIVE Reached(_, _)
Reached(j, seen) ==
    LET more == seen \cup {j.edges[id].destination : id \in UNION {Range(j.out[b]) : b \in seen}}
    IN  IF more = seen THEN seen ELSE Reached(j, more)

Listed(j, blocks) == SelectSeq([b \in DOMAIN j.nodes |-> b], LAMBDA b : b \in blocks)

Prune(j) ==
    LET seen == Reached(j, {3} \cup (j.taken \cap j.alive))
    IN  FoldLeft(EraseBlock, j, Listed(j, {b \in j.alive : b > 3} \ seen))

(* The label control falls into behind block b. *)
RECURSIVE NextLabel(_, _)
NextLabel(j, b) ==
    IF b = 0 THEN None
    ELSE IF BodyOf(j, b).labels # <<>> THEN BodyOf(j, b).labels[1]
    ELSE IF BodyOf(j, b).ins # <<>> THEN None ELSE NextLabel(j, Following(j, b))

(* Where a jump to a label leads: through empty blocks to the last label,  *)
(* or to what the first instruction there jumps to.                        *)
RECURSIVE Chain(_, _, _)
Chain(j, b, l) ==
    LET blk == BodyOf(j, b)
        n == Following(j, b)
    IN  IF blk.ins # <<>> THEN (IF blk.ins[1].op = "jmp" THEN blk.ins[1].l[1] ELSE l)
        ELSE IF n = 0 THEN l
        ELSE Chain(j, n, IF BodyOf(j, n).labels # <<>> THEN Last(BodyOf(j, n).labels) ELSE l)

(* An empty block with one way in, whose label nobody names, is skipped:   *)
(* the edge into it takes the place of the edge out of it.                 *)
Skippable(j, b) ==
    LET blk == BodyOf(j, b)
    IN  b # 3 /\ Len(j.in[b]) = 1 /\ blk.ins = <<>> /\ (blk.labels = <<>> \/ blk.labels[1] \notin j.refs)

Skip(j, b) ==
    LET id == j.in[b][1]
        to == j.edges[j.out[b][1]].destination
    IN  EraseBlock([j EXCEPT !.in[b] = <<>>, !.edges[id].destination = to,
                             !.in[to] = FlattenSeq([k \in DOMAIN @ |-> IF @[k] = j.out[b][1] THEN <<id, @[k]>>
                                                                       ELSE <<@[k]>>])], b)

(* A branch to where control falls anyway goes; one edge is left.          *)
DropBranch(j, b, n) ==
    LET first == [j EXCEPT !.edges[j.out[b][1]].kind = "fallthrough", !.f = Erase(j.f, n).f]
    IN  FoldLeft(EraseEdge, first, Tail(j.out[b]))

(* Faulty form: the edge keeps its old end.                                *)
RedirectBodyOnly(j, b, i, id, to) ==
    [j EXCEPT !.f = ReplaceOwned(j.f, i.n, [i EXCEPT !.l[1] = to]).f, !.moved = TRUE]

Redirect1(j, b, i, id, to) ==
    LET old == j.edges[id].destination
        new == BlockOfLabel(j, to)
    IN  [j EXCEPT !.f = ReplaceOwned(j.f, i.n, [i EXCEPT !.l[1] = to]).f, !.moved = TRUE,
                  !.edges[id].destination = new,
                  !.in = [[@ EXCEPT ![old] = Less(@, id)] EXCEPT ![new] = Append(@, id)]]

(* A branch to a jump goes where the jump goes, round a ring once.         *)
RECURSIVE FollowJumps(_, _, _, _)
FollowJumps(j, b, n, visited) ==
    LET i == InstructionAt(j.f, n)
        to == Chain(j, BlockOfLabel(j, i.l[1]), i.l[1])
        ids == SelectSeq(j.out[b], LAMBDA id : j.edges[id].destination = BlockOfLabel(j, i.l[1]))
    IN  IF to = i.l[1] \/ to \in visited THEN j
        ELSE FollowJumps(Redirect1(j, b, i, ids[1], to), b, n, visited \cup {i.l[1], to})

JumpInstruction(blk) == blk.ins # <<>> /\ Last(blk.ins).op \in {"jmp", "bt", "bo"}

RECURSIVE JumpWalk(_, _)
JumpWalk(j, b) ==
    LET blk == BodyOf(j, b)
        after == Following(j, b)
    IN  IF b = 0 THEN j
        ELSE IF Skippable(j, b) THEN JumpWalk(Skip(j, b), after)
        ELSE IF ~JumpInstruction(blk) THEN JumpWalk(j, after)
        ELSE IF NextLabel(j, after) = Last(blk.ins).l[1] THEN JumpWalk(DropBranch(j, b, Last(blk.ins).n), b)
        ELSE JumpWalk(FollowJumps(j, b, Last(blk.ins).n, {Last(blk.ins).l[1]}), after)

References(j) ==
    UNION {UNION {Range(i.l) : i \in Range(BodyOf(j, b).ins)} : b \in {x \in j.alive : x > 2}} \cup j.f.data

(* Numbered anew, block by block. *)
Compact(j) ==
    LET kept == Listed(j, j.alive)
        number(b) == CHOOSE k \in DOMAIN kept : kept[k] = b
        edge(id) == Edge(number(j.edges[id].source), number(j.edges[id].destination), j.edges[id].kind)
    IN  FlattenSeq([k \in DOMAIN kept |-> [n \in DOMAIN j.out[kept[k]] |-> edge(j.out[kept[k]][n])]])

WalkJumps(j) == JumpWalk([j EXCEPT !.refs = References(j)], 3)
PruneAgain(j) == IF j.moved THEN Prune(j) ELSE j

(* [ok, f, edges]: the body and the edges of the graph that is stored.     *)
Stored(j, body) == [ok |-> body.ok, f |-> body.f, edges |-> Compact(j)]

EraseGone(f, j) ==
    Stored(j, EraseBlocks(j.f, {BlockAt(f, j.nodes[b]) :
                                  b \in {x \in DOMAIN j.nodes \ j.alive : j.nodes[x] # None}}))

(* Of a body that verifies, with one label a block at most. *)
JumpOptimization(f) ==
    EraseGone(f, PruneAgain(WalkJumps(Prune(StartJumps(f, FunctionGraph(f, [edges |-> BodyEdges(f)]))))))
=============================================================================
