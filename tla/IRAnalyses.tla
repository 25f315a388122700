----------------------------- MODULE IRAnalyses -----------------------------
(***************************************************************************)
(* The analyses of a function body: its control flow, the graph with an    *)
(* entry and an exit around it, dominators, liveness, loops, and where     *)
(* registers occur.                                                        *)
(***************************************************************************)
EXTENDS IRFunction

-----------------------------------------------------------------------------
(* Control flow between the blocks of the body. *)

AddressTaken(f) ==
    {Target(f, l) : l \in f.data}
    \cup UNION {{Target(f, Head(i.l)) : i \in {x \in Range(f.blocks[b].ins) : x.op = "laddr"}} : b \in DOMAIN f.blocks}

Edge(source, destination, kind) == [source |-> source, destination |-> destination, kind |-> kind]

FallsTo(f, b) == IF b < Len(f.blocks) THEN <<Edge(b, b + 1, "fallthrough")>> ELSE <<>>

DirectEdges(f, b) ==
    IF ~Terminated(f.blocks[b]) THEN FallsTo(f, b)
    ELSE LET t == Last(f.blocks[b].ins)
             targets(kind) == [n \in DOMAIN t.l |-> Edge(b, Target(f, t.l[n]), kind)]
         IN  CASE t.op = "switch" -> targets("switch")
               [] t.op = "jmp" -> targets("branch")
               [] t.op \in {"bt", "bo"} -> FallsTo(f, b) \o targets("branch")
               [] OTHER -> <<>>

(* Every block whose address is taken, in order. *)
IndirectTargets(f) == SelectSeq([b \in DOMAIN f.blocks |-> b], LAMBDA b : b \in AddressTaken(f))

IndirectEdges(f, b) ==
    IF Terminated(f.blocks[b]) /\ Last(f.blocks[b].ins).op = "jmpi"
    THEN [n \in DOMAIN IndirectTargets(f) |-> Edge(b, IndirectTargets(f)[n], "indirect")] ELSE <<>>

(* Indirect edges come after all the others, which decides the order of    *)
(* the operands of phis.                                                   *)
BodyEdges(f) ==
    FlattenSeq([b \in DOMAIN f.blocks |-> DirectEdges(f, b)])
    \o FlattenSeq([b \in DOMAIN f.blocks |-> IndirectEdges(f, b)])

Outgoing(edges, b) == SelectSeq([e \in DOMAIN edges |-> e], LAMBDA e : edges[e].source = b)
Incoming(edges, b) == SelectSeq([e \in DOMAIN edges |-> e], LAMBDA e : edges[e].destination = b)

(* One step of the walk with an explicit stack: follow the next edge of    *)
(* the top frame, or leave it.  A block has a preorder number once it is   *)
(* met and is in post once it is left.                                     *)
WalkStep(edges, w) ==
    LET top == Last(w.stack)
        out == Outgoing(edges, top.block)
    IN  IF top.next > Len(out)
        THEN [w EXCEPT !.stack = Front(@), !.post = Append(@, top.block)]
        ELSE LET e == out[top.next]
                 to == edges[e].destination
                 on == [w EXCEPT !.stack[Len(w.stack)].next = @ + 1]
             IN  IF to \notin Range(w.pre)
                 THEN [on EXCEPT !.stack = Append(@, [block |-> to, next |-> 1]), !.pre = Append(@, to)]
                 ELSE IF to \notin Range(w.post) THEN [on EXCEPT !.back = @ \cup {e}] ELSE on

Walks == [stack : Seq([block : Nat, next : Nat]), pre : Seq(Nat), post : Seq(Nat), back : SUBSET Nat]

Walk(edges, start) ==
    LET walk[w \in Walks] == IF w.stack = <<>> THEN w ELSE walk[WalkStep(edges, w)] IN walk[start]

WalkFrom(edges, root, seen) ==
    IF root \in Range(seen.pre) THEN seen
    ELSE Walk(edges, [stack |-> <<[block |-> root, next |-> 1]>>, pre |-> Append(seen.pre, root),
                      post |-> seen.post, back |-> seen.back])

Unwalked == [pre |-> <<>>, post |-> <<>>, back |-> {}]

ControlFlowGraph(f) ==
    LET roots == <<1>> \o SelectSeq(IndirectTargets(f), LAMBDA b : b # 1)
        parts[k \in 0 .. Len(roots)] ==
          IF k = 0 THEN [seen |-> Unwalked, order |-> <<>>]
          ELSE LET last == parts[k - 1]
                   now == WalkFrom(BodyEdges(f), roots[k], last.seen)
               IN  [seen |-> now,
                    order |-> last.order \o Reverse(SubSeq(now.post, Len(last.seen.post) + 1, Len(now.post)))]
    IN  [blocks |-> [b \in DOMAIN f.blocks |-> f.blocks[b].n], edges |-> BodyEdges(f), roots |-> roots,
         order |-> parts[Len(roots)].order]

-----------------------------------------------------------------------------
(* The graph of a function: block 1 is the entry, 2 the exit, then a       *)
(* prologue if the first block has a label, then the body.                 *)

Offset(f) == IF f.blocks[1].labels # <<>> THEN 3 ELSE 2

(* A block nothing leads to is entered, a block that leads nowhere left.   *)
Close(edges, b) ==
    LET entered == IF b # 1 /\ Incoming(edges, b) = <<>> THEN Append(edges, Edge(1, b, "entry")) ELSE edges
    IN  IF b # 2 /\ Outgoing(entered, b) = <<>> THEN Append(entered, Edge(b, 2, "exit")) ELSE entered

GraphEdges(f, flow) ==
    LET body == [e \in DOMAIN flow.edges |->
                   [flow.edges[e] EXCEPT !.source = @ + Offset(f), !.destination = @ + Offset(f)]]
        first == IF Offset(f) = 3 THEN <<Edge(3, 4, "fallthrough")>> ELSE <<>>
    IN  FoldLeft(Close, first \o body, [b \in 1 .. Len(f.blocks) + Offset(f) |-> b])

(* The walk from the entry, as numbers: rpost counts down as blocks are    *)
(* left, and blocks the walk did not meet have number 0.                   *)
Enumerated(edges, count) ==
    LET w == WalkFrom(edges, 1, Unwalked)
        number(seq, b) == IF b \in Range(seq) THEN CHOOSE i \in DOMAIN seq : seq[i] = b ELSE 0
        rpost == [b \in 1 .. count |-> IF b \in Range(w.post) THEN count + 1 - number(w.post, b) ELSE 0]
    IN  [count |-> count, edges |-> edges, back |-> w.back, pre |-> [b \in 1 .. count |-> number(w.pre, b)],
         rpost |-> rpost,
         order |-> SelectSeq([b \in 1 .. count |-> b], LAMBDA b : rpost[b] = 0) \o Reverse(w.post)]

FunctionGraph(f, flow) == Enumerated(GraphEdges(f, flow), Len(f.blocks) + Offset(f))

-----------------------------------------------------------------------------
(* Immediate dominators by iteration in the order of the walk; 0 is none.  *)

Intersect(g, idom, a, b) ==
    LET meet[p \in (1 .. g.count) \X (1 .. g.count)] ==
          IF p[1] = p[2] THEN p[1]
          ELSE IF g.rpost[p[1]] > g.rpost[p[2]] THEN meet[<<idom[p[1]], p[2]>>]
          ELSE meet[<<p[1], idom[p[2]]>>]
    IN  meet[<<a, b>>]

ParentOf(g, idom, b) ==
    LET join(parent, e) ==
          LET p == g.edges[e].source
          IN  IF idom[p] = 0 THEN parent ELSE IF parent = 0 THEN p ELSE Intersect(g, idom, parent, p)
    IN  FoldLeft(join, 0, Incoming(g.edges, b))

DominatorSweep(g, idom) ==
    FoldLeft(LAMBDA d, b : IF b = 1 \/ g.rpost[b] = 0 THEN d ELSE [d EXCEPT ![b] = ParentOf(g, d, b)],
             idom, g.order)

Dominators(g) ==
    LET sweeps[k \in Nat] ==
          IF k = 0 THEN [b \in 1 .. g.count |-> IF b = 1 THEN 1 ELSE 0] ELSE DominatorSweep(g, sweeps[k - 1])
    IN  sweeps[g.count]

(* The numbering of the tree makes ancestry a comparison of intervals.     *)
Dominates(idom, a, b) ==
    LET above[k \in Nat] == IF k = 0 THEN {b} ELSE above[k - 1] \cup {idom[x] : x \in above[k - 1]}
    IN  idom[b] = 0 \/ (idom[a] # 0 /\ a \in above[Cardinality(DOMAIN idom)])

-----------------------------------------------------------------------------
(* Liveness of registers at the blocks of the graph. *)

(* The scan takes the destination of a label address for an input. *)
Reads(i) == (IF i.op = "laddr" THEN {i.d, i.u} ELSE {i.u, i.w}) \ {NoReg}
Writes(i) == IF i.op = "laddr" THEN {} ELSE {i.d} \ {NoReg}

Scan(f, b) ==
    FoldLeft(LAMBDA s, i :
               LET reads == Reads(i) \cup (IF i.op = "ret" THEN (Hardware \cap f.regs) \ f.backed ELSE {})
               IN  [gen |-> s.gen \cup (reads \ s.kill), kill |-> s.kill \cup Writes(i)],
             [gen |-> {}, kill |-> {}], f.blocks[b].ins)

Facts(f, g) ==
    [b \in 1 .. g.count |-> IF b <= Offset(f) THEN [gen |-> {}, kill |-> {}] ELSE Scan(f, b - Offset(f))]

(* Blocks wait in a queue without repetition; a block whose facts at its   *)
(* start grew puts its predecessors back.                                  *)
Transfer(g, facts, s) ==
    LET b == Head(s.queue)
        out == s.out[b] \cup UNION {s.in[g.edges[e].destination] : e \in Range(Outgoing(g.edges, b))}
        in == (out \ facts[b].kill) \cup facts[b].gen
        preds == FoldLeft(LAMBDA q, e : IF g.edges[e].source \in Range(q) THEN q ELSE Append(q, g.edges[e].source),
                          Tail(s.queue), Incoming(g.edges, b))
    IN  IF in = s.in[b] THEN [s EXCEPT !.queue = Tail(@), !.out[b] = out]
        ELSE [queue |-> preds, out |-> [s.out EXCEPT ![b] = out], in |-> [s.in EXCEPT ![b] = in]]

Settled(g, facts, start) ==
    LET sets == [1 .. g.count -> SUBSET Registers]
        settled[s \in [queue : Seq(1 .. g.count), in : sets, out : sets]] ==
          IF s.queue = <<>> THEN s ELSE settled[Transfer(g, facts, s)]
    IN  settled[start]

Liveness(f, g) ==
    LET final == Settled(g, Facts(f, g), [queue |-> Reverse(g.order), in |-> [b \in 1 .. g.count |-> {}],
                                          out |-> [b \in 1 .. g.count |-> {}]])
    IN  [in |-> final.in, out |-> final.out]

-----------------------------------------------------------------------------
(* Loops: a node per block, then one per loop, then the root.  roots[n] is *)
(* where the search for the outermost node above n goes on.                *)

Top(t, n) ==
    LET up[k \in Nat] == IF k = 0 THEN n ELSE t.roots[up[k - 1]] IN up[Len(t.roots)]

Headers(g) ==
    SortSeq(SelectSeq([b \in 1 .. g.count |-> b], LAMBDA b : Range(Incoming(g.edges, b)) \cap g.back # {}),
            LAMBDA a, b : g.rpost[a] > g.rpost[b])

AddMember(g, t, s, b) ==
    IF g.pre[b] = 0 \/ Top(t, b) \in Range(s.members) THEN s
    ELSE [s EXCEPT !.members = Append(@, Top(t, b)), !.pending = Append(@, Top(t, b))]

(* The blocks before a pending node join it, a loop through its header.    *)
Grow(g, t, header, s) ==
    LET node == Last(s.pending)
        b == t.block[node]
        rest == [s EXCEPT !.pending = Front(@)]
        preds == SelectSeq([n \in DOMAIN Incoming(g.edges, b) |-> g.edges[Incoming(g.edges, b)[n]].source],
                           LAMBDA p : p # header)
    IN  IF b = 1 THEN [rest EXCEPT !.entry = TRUE]
        ELSE FoldLeft(LAMBDA q, p : AddMember(g, t, q, p), rest, preds)

Grown(g, t, header, start) ==
    LET grown[s \in [members : Seq(Nat), pending : Seq(Nat), entry : BOOLEAN]] ==
          IF s.pending = <<>> \/ s.entry THEN s ELSE grown[Grow(g, t, header, s)]
    IN  grown[start]

Members(g, t, header) ==
    LET sources == SelectSeq(Incoming(g.edges, header), LAMBDA e : e \in g.back /\ g.edges[e].source # header)
        start == FoldLeft(LAMBDA s, e : AddMember(g, t, s, g.edges[e].source),
                          [members |-> <<>>, pending |-> <<>>, entry |-> FALSE], sources)
    IN  Grown(g, t, header, start)

(* A loop the entry reaches without its header is no loop of the tree.     *)
AddLoop(g, t, header) ==
    LET s == Members(g, t, header)
        inside == Range(s.members) \cup {header}
        loop == Len(t.roots) + 1
    IN  IF s.entry THEN t
        ELSE [block |-> Append(t.block, header),
              parent |-> [n \in 1 .. loop |-> IF n \in inside THEN loop ELSE IF n = loop THEN 0 ELSE t.parent[n]],
              roots |-> [n \in 1 .. loop |-> IF n \in inside \cup {loop} THEN loop ELSE t.roots[n]]]

LoopTree(g) ==
    LET single == [n \in 1 .. g.count |-> n]
    IN  FoldLeft(LAMBDA t, h : AddLoop(g, t, h),
                 [block |-> single, parent |-> [n \in 1 .. g.count |-> 0], roots |-> single], Headers(g))

-----------------------------------------------------------------------------
(* Every occurrence of a register as <<register, instruction, writes>>.    *)
RegisterUses(f) ==
    UNION {UNION {{x \in {<<i.d, i.n, TRUE>>, <<i.u, i.n, FALSE>>, <<i.w, i.n, FALSE>>} : x[1] # NoReg} :
                    i \in Range(f.blocks[b].ins)} : b \in DOMAIN f.blocks}
=============================================================================
