-------------------------- MODULE MachineCoalescing --------------------------
(***************************************************************************)
(* coalesce_registers: from level two on, the two ends of a move between   *)
(* virtual registers become one register when nothing in their groups      *)
(* conflicts.  Conflicts come from a backward scan of its own over the     *)
(* ends of the moves, from the live-out sets of a compact liveness         *)
(* analysis, which does not see what calls do.  Moves in deep loops are    *)
(* merged first.                                                           *)
(***************************************************************************)
EXTENDS MachineLiveness

CONSTANT ScanLimit      \* from this many ends on nothing is merged

RegisterMove(i) ==
    IsMove(i) /\ i.mem = <<>> /\ Defines(i) \cup Reads(i) \subseteq VirtualRegisters

\* The positions of the moves, and the registers they connect.
Moves(f) ==
    {x \in UNION {{b} \X DOMAIN f.body[b] : b \in RealBlocks(f)} : RegisterMove(f.body[x[1]][x[2]])}

MoveAt(f, x) == f.body[x[1]][x[2]]
Ends(f) == UNION {Defines(MoveAt(f, x)) \cup Reads(MoveAt(f, x)) : x \in Moves(f)}

Coalesces(f, level) ==
    level >= 2 /\ Ends(f) # {} /\ Cardinality(Ends(f)) < ScanLimit

\* Deepest loops first, then in the order in which they were created.
MoveOrder(f, g) ==
    Sorted(Moves(f), LAMBDA x, y :
             CASE g.depth[x[1]] # g.depth[y[1]] -> g.depth[x[1]] > g.depth[y[1]]
               [] x[1] # y[1] -> x[1] < y[1]
               [] OTHER -> x[2] < y[2])

----------------------------------------------------------------------------
(***************************************************************************)
(* Conflicts: what is written while something else is alive conflicts with *)
(* it, except that a move does not conflict with its own source.           *)
(***************************************************************************)
Written(s, r, spared) ==
    [s EXCEPT !.alive = @ \ {r}, !.pairs = @ \cup {{r, o} : o \in s.alive \ ({r} \cup spared)}]

ScanBack(s, i, scan) ==
    LET spared == IF RegisterMove(i) THEN Reads(i) ELSE {}
        written == FoldLeft(LAMBDA acc, r : Written(acc, r, spared), s,
                            SelectSeq(i.out, LAMBDA r : r \in scan))
    IN  [written EXCEPT !.alive = @ \cup (Reads(i) \cap scan)]

\* The scan of a block must arrive at the live-in set of the analysis.
ScanMoves(s, f, live, scan, b) ==
    LET top == FoldRight(LAMBDA i, acc : ScanBack(acc, i, scan), f.body[b],
                         [s EXCEPT !.alive = live.out[b]])
    IN  IF f.body[b] # <<>> /\ top.alive # live.in[b]
          THEN [top EXCEPT !.error = "compact live-in disagrees with reverse instruction scan"]
          ELSE top

Conflicts(f, live, scan) ==
    FoldLeft(LAMBDA s, b : ScanMoves(s, f, live, scan, b),
             [alive |-> {}, pairs |-> {}, error |-> ""], Sorted(RealBlocks(f), <))

----------------------------------------------------------------------------
(***************************************************************************)
(* Groups: first maps the ends to their representatives.                   *)
(***************************************************************************)
GroupOf(first, a) == {r \in DOMAIN first : first[r] = a}

GroupsConflict(first, pairs, a, b) ==
    \E x \in GroupOf(first, a), y \in GroupOf(first, b) : {x, y} \in pairs

IsBound(r) == r \in DOMAIN Binding

\* A bound representative stays; otherwise the smaller one does.
Representative(a, b) == IF IsBound(b) \/ (~IsBound(a) /\ b < a) THEN b ELSE a

Join(first, pairs, i) ==
    LET a == first[i.in[1]]
        b == first[i.out[1]]
    IN  IF a = b \/ GroupsConflict(first, pairs, a, b) \/ (IsBound(a) /\ IsBound(b)) THEN first
        ELSE [r \in DOMAIN first |-> IF first[r] \in {a, b} THEN Representative(a, b) ELSE first[r]]

MergeMoves(f, g, pairs) ==
    FoldLeft(LAMBDA first, x : Join(first, pairs, MoveAt(f, x)),
             [r \in Ends(f) |-> r], MoveOrder(f, g))

----------------------------------------------------------------------------
(***************************************************************************)
(* The function afterwards; what it was is kept, with the positions of the *)
(* erased moves and, for what is left, the positions it had.               *)
(***************************************************************************)
Substitute(first, regs) ==
    [k \in DOMAIN regs |-> IF regs[k] \in DOMAIN first THEN first[regs[k]] ELSE regs[k]]

Renamed(first, i) ==
    [i EXCEPT !.out = Substitute(first, @), !.in = Substitute(first, @),
              !.mem = Substitute(first, @)]

Erased(f, first) ==
    {x \in Moves(f) : first[MoveAt(f, x).out[1]] = first[MoveAt(f, x).in[1]]}

\* The positions of a block that stay, in order.
Kept(f, gone, b) == SelectSeq([k \in DOMAIN f.body[b] |-> k], LAMBDA k : <<b, k>> \notin gone)

\* A block that loses all its instructions keeps its place by a label.
WithoutMoves(f, first, origin) ==
    [f EXCEPT !.body = [b \in DOMAIN @ |->
                          [k \in DOMAIN origin[b] |-> Renamed(first, @[b][origin[b][k]])]],
              !.labelled = @ \cup {b \in RealBlocks(f) : f.body[b] # <<>> /\ origin[b] = <<>>}]

Merged(f, gone) ==
    [was |-> f, erased |-> gone, origin |-> [b \in RealBlocks(f) |-> Kept(f, gone, b)]]
=============================================================================
