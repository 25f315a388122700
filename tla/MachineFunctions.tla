-------------------------- MODULE MachineFunctions --------------------------
(***************************************************************************)
(* The machine function that the allocation stages of the code generator   *)
(* work on: typed registers in one dense numbering (hardware registers     *)
(* first, then the virtual ones), block-owned instructions in layout       *)
(* order, and the control-flow graph derived from them.                    *)
(*                                                                         *)
(* A function is a record: body maps the blocks 2 .. n+1 to sequences of   *)
(* instructions (0 and 1 are the derived entry and exit), labelled is the  *)
(* set of blocks with a label, addressed the set of those whose label has  *)
(* its address taken.  An instruction keeps only what allocation tells     *)
(* apart: its kind, the registers it writes and reads, the address         *)
(* registers of its memory operand, the hardware registers it destroys     *)
(* before reading its inputs, the hidden argument registers of a call, its *)
(* label operands, and whether the target has a form of it that takes its  *)
(* first operand from memory.                                              *)
(*                                                                         *)
(* The last part is the analysis of the graph: a record, with its steps as *)
(* operators on it, which RegisterAllocation takes one at a time.          *)
(***************************************************************************)
EXTENDS Integers, Sequences, FiniteSets, SequencesExt, TLC

CONSTANTS
    Physical,       \* number of hardware registers: 0 .. Physical - 1
    Virtual,        \* number of virtual registers, numbered after them
    CallClobbered,  \* hardware registers that a call destroys
    PartlyKept,     \* hardware registers a call keeps only the low half of
    Reserved,       \* hardware registers never assigned
    Binding,        \* virtual register -> hardware register, partial
    Globals,        \* hardware registers bound anywhere in the module
    Wide,           \* virtual registers of sixteen bytes
    MemoryBacked    \* virtual registers that must live in memory

\* The elements of a finite set in a strict total order.  (SetToSortSeq finds
\* its sequence among all functions into the set: too many for the edges of a
\* function.)
Sorted(S, Before(_, _)) ==
    [k \in 1 .. Cardinality(S) |->
       CHOOSE x \in S : Cardinality({y \in S : Before(y, x)}) = k - 1]

\* The function with one more value, or another one, at k.
With(fn, k, value) == [n \in DOMAIN fn \cup {k} |-> IF n = k THEN value ELSE fn[n]]

PhysicalRegisters == 0 .. Physical - 1
VirtualRegisters == Physical .. Physical + Virtual - 1
Registers == 0 .. Physical + Virtual - 1

ASSUME MachineAssumption ==
    /\ Physical \in Nat /\ Virtual \in Nat
    /\ CallClobbered \subseteq PhysicalRegisters
    /\ PartlyKept \subseteq PhysicalRegisters
    /\ Reserved \subseteq PhysicalRegisters
    /\ DOMAIN Binding \subseteq VirtualRegisters
    /\ {Binding[v] : v \in DOMAIN Binding} \subseteq Globals
    /\ Globals \subseteq PhysicalRegisters \ Reserved
    /\ Wide \subseteq VirtualRegisters
    /\ MemoryBacked \subseteq VirtualRegisters

Calls == {"call"}
Exits == {"ret", "switch", "jmpi"}          \* flow Exit
Jumps == {"branch"} \cup Exits \cup {"jmp"}     \* flow other than Next

Insn(op, out, in) ==
    [op |-> op, out |-> out, in |-> in, mem |-> <<>>,
     early |-> {}, args |-> {}, to |-> <<>>, folds |-> FALSE]

\* visit_registers: what an instruction writes, and what it reads.
Defines(i) == ToSet(i.out)
Reads(i) == ToSet(i.in) \cup ToSet(i.mem)

IsCall(i) == i.op \in Calls
IsMove(i) == i.op = "mov"
IsJump(i) == i.op \in Jumps

\* TargetMachine::call_clobbers for a value of v's width.
ClobbersValue(p, v) == p \in CallClobbered \/ (p \in PartlyKept /\ v \in Wide)

(***************************************************************************)
(* MachineControlFlow::build.                                              *)
(***************************************************************************)
Entry == 0
Exit == 1
RealBlocks(f) == DOMAIN f.body
Blocks(f) == {Entry, Exit} \cup RealBlocks(f)
LastBlock(f) == Cardinality(RealBlocks(f)) + 1

Edge(s, d, kind, operand) ==
    [source |-> s, destination |-> d, kind |-> kind, operand |-> operand]

NoOperand == 0

FallsThrough(body) ==
    body = <<>> \/ (Last(body).op \notin Exits /\ Last(body).op # "jmp")

DirectEdges(f, b) ==
    LET body == f.body[b]
        last == Last(body)
        kind == IF last.op = "switch" THEN "switch" ELSE "branch"
    IN  (IF FallsThrough(body) /\ b < LastBlock(f)
           THEN <<Edge(b, b + 1, "fallthrough", NoOperand)>> ELSE <<>>)
        \o (IF body = <<>> \/ ~IsJump(last) THEN <<>>
            ELSE [k \in 1 .. Len(last.to) |-> Edge(b, last.to[k], kind, k)])

IndirectEdges(f, b) ==
    LET to == Sorted(f.addressed, <)
    IN  IF f.body[b] # <<>> /\ Last(f.body[b]).op = "jmpi"
          THEN [k \in 1 .. Len(to) |-> Edge(b, to[k], "indirect", NoOperand)]
          ELSE <<>>

\* The edges of each block, given by edges, in the order of the layout.
InLayout(f, edges) ==
    FlattenSeq([k \in 1 .. Cardinality(RealBlocks(f)) |-> edges[k + 1]])

\* Blocks that no edge enters hang from the entry; blocks that no edge leaves,
\* and the entry itself, lead to the exit.
BoundaryEdges(f, inner) ==
    <<Edge(Entry, Exit, "exit", NoOperand)>>
    \o InLayout(f, [b \in RealBlocks(f) |->
         (IF \E e \in ToSet(inner) : e.destination = b THEN <<>>
            ELSE <<Edge(Entry, b, "entry", NoOperand)>>)
         \o (IF \E e \in ToSet(inner) : e.source = b THEN <<>>
               ELSE <<Edge(b, Exit, "exit", NoOperand)>>)])

ControlFlow(f) ==
    LET inner == InLayout(f, [b \in RealBlocks(f) |-> DirectEdges(f, b)])
                 \o InLayout(f, [b \in RealBlocks(f) |-> IndirectEdges(f, b)])
    IN  inner \o BoundaryEdges(f, inner)

Outgoing(cfg, b) == {e \in DOMAIN cfg : cfg[e].source = b}
Incoming(cfg, b) == {e \in DOMAIN cfg : cfg[e].destination = b}
Successors(cfg, b) == {cfg[e].destination : e \in Outgoing(cfg, b)}
Predecessors(cfg, b) == {cfg[e].source : e \in Incoming(cfg, b)}
-----------------------------------------------------------------------------
(* MachineGraphAnalysis::analyze: one depth-first walk from the entry      *)
(* numbers the blocks and marks the back edges, then every block that a    *)
(* back edge enters becomes a loop, inner loops first, and the loops form  *)
(* a tree whose height above a block is the block's loop depth.            *)

NoNode == -1

StartGraph(f) ==
    LET cfg == ControlFlow(f)
        zero == [b \in Blocks(f) |-> 0]
    IN  [cfg |-> cfg, blocks |-> Blocks(f),
         stack |-> <<[block |-> Entry, left |-> Sorted(Outgoing(cfg, Entry), <)]>>,
         preorder |-> [zero EXCEPT ![Entry] = 1], rpost |-> zero,
         pre |-> 2, post |-> Cardinality(Blocks(f)), back |-> {},
         entries |-> <<>>,
         nodes |-> [b \in Blocks(f) |-> [block |-> b, entry |-> b, parent |-> NoNode,
                                         children |-> {}]],
         top |-> [b \in Blocks(f) |-> b],
         depth |-> zero, phase |-> "walk"]

----------------------------------------------------------------------------
\* The walk: follow the next outgoing edge of the block on top of the stack.
FollowEdge(g) ==
    LET at == Last(g.stack)
        e == Head(at.left)
        to == g.cfg[e].destination
        rest == Front(g.stack) \o <<[at EXCEPT !.left = Tail(at.left)]>>
    IN  IF g.preorder[to] = 0
          THEN [g EXCEPT !.preorder[to] = g.pre, !.pre = g.pre + 1,
                         !.stack = Append(rest, [block |-> to,
                             left |-> Sorted(Outgoing(g.cfg, to), <)])]
          ELSE [g EXCEPT !.stack = rest,
                         !.back = IF g.rpost[to] = 0 THEN @ \cup {e} ELSE @]

\* The block's edges are exhausted: it gets the next number from the back.
LeaveBlock(g) ==
    [g EXCEPT !.rpost[Last(g.stack).block] = g.post, !.post = g.post - 1,
              !.stack = Front(g.stack)]

\* The walk is over: the targets of back edges, innermost first.
OrderEntries(g) ==
    [g EXCEPT !.phase = "loops",
              !.entries = Sorted({g.cfg[e].destination : e \in g.back},
                                       LAMBDA a, b : g.rpost[a] > g.rpost[b])]

----------------------------------------------------------------------------
Reached(g, b) == g.preorder[b] # 0 \/ g.rpost[b] # 0

\* The outermost node that block b belongs to so far.
Outermost(g, b) ==
    LET root[n \in DOMAIN g.top] == IF g.top[n] = n THEN n ELSE root[g.top[n]]
    IN  root[b]

NodeBlock(g, n) == IF g.nodes[n].block = NoNode THEN g.nodes[n].entry ELSE g.nodes[n].block

\* Faulty form: the scan for the loop's members runs on past its entry.
PastTheEntry(g, n, entry) ==
    {Outermost(g, s) : s \in {p \in Predecessors(g.cfg, NodeBlock(g, n)) : Reached(g, p)}}

\* The nodes that precede a member of the loop, the entry excepted.
MembersBefore(g, n, entry) ==
    {Outermost(g, s) : s \in {p \in Predecessors(g.cfg, NodeBlock(g, n)) :
                                p # entry /\ Reached(g, p)}}

\* The sources of the back edges into the entry, closed under predecessors.
LoopMembers(g, entry) ==
    LET tails == {g.cfg[e].source : e \in g.back \cap Incoming(g.cfg, entry)}
        first == {Outermost(g, s) : s \in {t \in tails \ {entry} : Reached(g, t)}}
        grown[k \in 0 .. Cardinality(DOMAIN g.nodes)] ==
            IF k = 0 THEN first
            ELSE LET m == grown[k - 1]
                 IN  m \cup UNION {MembersBefore(g, n, entry) : n \in m \ {Entry}}
    IN  grown[Cardinality(DOMAIN g.nodes)]

\* One loop: unless the scan reached the function's entry, its members and its
\* entry become the children of a new node.
FormLoop(g) ==
    LET entry == Head(g.entries)
        members == LoopMembers(g, entry) \cup {entry}
        node == Cardinality(DOMAIN g.nodes)
        joined == With([n \in DOMAIN g.nodes |->
                          IF n \in members THEN [g.nodes[n] EXCEPT !.parent = node]
                                           ELSE g.nodes[n]],
                       node, [block |-> NoNode, entry |-> entry, parent |-> NoNode,
                              children |-> members])
    IN  IF Entry \in LoopMembers(g, entry)
          THEN [g EXCEPT !.entries = Tail(@)]
          ELSE [g EXCEPT !.entries = Tail(@), !.nodes = joined,
                         !.top = [n \in DOMAIN joined |->
                                    IF n \in members \cup {node} THEN node ELSE g.top[n]]]

\* Whatever has no parent hangs from the root; depths follow from the root down.
FinishTree(g) ==
    LET root == Cardinality(DOMAIN g.nodes)
        orphans == {Outermost(g, b) : b \in g.blocks}
        tree == With([n \in DOMAIN g.nodes |->
                        IF n \in orphans THEN [g.nodes[n] EXCEPT !.parent = root] ELSE g.nodes[n]],
                     root, [block |-> NoNode, entry |-> NoNode, parent |-> NoNode,
                            children |-> orphans])
        height[n \in DOMAIN tree] ==
            IF tree[n].parent = NoNode THEN 0
            ELSE height[tree[n].parent] + (IF tree[n].parent = root THEN 0 ELSE 1)
    IN  [g EXCEPT !.nodes = tree, !.depth = [b \in g.blocks |-> height[b]],
                  !.top = [n \in DOMAIN tree |->
                             IF n \in orphans \cup {root} THEN root ELSE g.top[n]],
                  !.phase = "done"]

GraphStep(g) ==
    CASE g.phase = "walk" /\ g.stack # <<>> /\ Last(g.stack).left # <<>> -> FollowEdge(g)
      [] g.phase = "walk" /\ g.stack # <<>> /\ Last(g.stack).left = <<>> -> LeaveBlock(g)
      [] g.phase = "walk" /\ g.stack = <<>> -> OrderEntries(g)
      [] g.phase = "loops" /\ g.entries # <<>> -> FormLoop(g)
      [] g.phase = "loops" /\ g.entries = <<>> -> FinishTree(g)
      [] OTHER -> g

=============================================================================
