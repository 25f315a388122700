-------------------------- MODULE RegisterAllocation --------------------------
(***************************************************************************)
(* MachineCompilation from coalescing to the edge spills, for one function *)
(* at one optimisation level, and then a run of the code it emitted beside *)
(* the function as it was.  Each stage consumes what the one before left;  *)
(* the first error ends the compilation.                                   *)
(***************************************************************************)
EXTENDS MachineExecution, MachineCoalescing

CONSTANT Compilations      \* pairs of a function and an optimisation level

VARIABLES
    func,       \* the function as it is now: while code is made for it,
                \* with its moves coalesced
    level,      \* its optimisation level
    stage,      \* what is done next: "start", a stage, "run" or "failed"
    merged,     \* the function before coalescing, and what that erased
    graph,      \* the graph analysis so far; NoGraph before it and after its use
    live,       \* the liveness analysis
    ranges,     \* the live ranges
    allocation, \* the register assignment
    emitted,    \* the code: rewritten, then with its edge spills
    run,        \* the run of the emitted code
    error       \* the first error

before == <<func, level, merged>>
stageVars == <<graph, live, ranges, allocation>>
vars == <<before, stage, stageVars, emitted, run, error>>

None == <<>>

NoGraph == <<>>

(***************************************************************************)
(* The graph analysis takes one step of its walk or of its loop tree at a  *)
(* time.                                                                   *)
(***************************************************************************)
Walk ==
    /\ graph.phase = "walk"
    /\ graph' = GraphStep(graph)

Nest ==
    /\ graph.phase = "loops"
    /\ graph' = GraphStep(graph)

Analysed == graph # NoGraph /\ graph.phase = "done"

Init ==
    /\ \E c \in Compilations : func = c[1] /\ level = c[2]
    /\ merged = None
    /\ stage = "start"
    /\ graph = NoGraph /\ live = None /\ ranges = None /\ allocation = None
    /\ emitted = None /\ run = None /\ error = ""

\* A stage ends with an error or hands on to the next one.
Proceed(why, next) ==
    /\ error' = why
    /\ stage' = IF why = "" THEN next ELSE "failed"

BeginGraph ==
    /\ stage = "start"
    /\ graph' = StartGraph(func)
    /\ stage' = "graph"
    /\ UNCHANGED <<before, live, ranges, allocation, emitted, run, error>>

AnalyseGraph ==
    /\ stage = "graph"
    /\ Walk \/ Nest
    /\ UNCHANGED <<before, stage, live, ranges, allocation, emitted, run, error>>

\* Coalescing has an analysis of its own; after it the graph is built again.
StartScan ==
    /\ stage = "graph" /\ Analysed /\ merged = None /\ Coalesces(func, level)
    /\ live' = StartLiveness(func, Ends(func), TRUE)
    /\ stage' = "scan"
    /\ UNCHANGED <<before, graph, ranges, allocation, emitted, run, error>>

Scan ==
    /\ stage = "scan" /\ ~LivenessDone(live)
    /\ live' = LivenessRound(live, graph)
    /\ UNCHANGED <<before, stage, graph, ranges, allocation, emitted, run, error>>

Coalesce ==
    /\ stage = "scan" /\ LivenessDone(live)
    /\ LET conflicts == Conflicts(func, live, Ends(func))
           first == MergeMoves(func, graph, conflicts.pairs)
       IN  /\ merged' = Merged(func, Erased(func, first))
           /\ func' = WithoutMoves(func, first, merged'.origin)
           /\ Proceed(conflicts.error, "start")
    /\ live' = None /\ graph' = NoGraph
    /\ UNCHANGED <<level, ranges, allocation, emitted, run>>

StartLive ==
    /\ stage = "graph" /\ Analysed /\ (merged # None \/ ~Coalesces(func, level))
    /\ live' = StartLiveness(func, Registers, FALSE)
    /\ stage' = "liveness"
    /\ UNCHANGED <<before, graph, ranges, allocation, emitted, run, error>>

Liveness ==
    /\ stage = "liveness"
    /\ live' = LivenessRound(live, graph)
    /\ stage' = IF LivenessDone(live') THEN "ranges" ELSE stage
    /\ UNCHANGED <<before, graph, ranges, allocation, emitted, run, error>>

LiveRanges ==
    /\ stage = "ranges"
    /\ ranges' = BuildRanges(func, graph, live, level)
    /\ Proceed(ranges'.error, "allocate")
    /\ allocation' = IF ranges'.error = "" THEN StartAllocation(func, graph, ranges', level) ELSE None
    /\ UNCHANGED <<before, graph, live, emitted, run>>

Assign ==
    /\ stage = "allocate"
    /\ IF allocation.order # <<>>
         THEN allocation' = AssignNext(allocation, ranges, graph, level) /\ UNCHANGED stage
         ELSE stage' = "rewrite" /\ UNCHANGED allocation
    /\ UNCHANGED <<before, graph, live, ranges, emitted, run, error>>

RewriteOperands ==
    /\ stage = "rewrite"
    /\ emitted' = Rewrite(func, allocation, ranges, live, level)
    /\ Proceed(emitted'.error, "edges")
    /\ UNCHANGED <<before, stageVars, run>>

\* The rewrite passed its inputs on; with the edges done they are dropped, and
\* the code runs beside the function as it was.
SplitEdges ==
    /\ stage = "edges"
    /\ LET done == IF merged = None THEN Merged(func, {}) ELSE merged IN
         /\ func' = done.was
         /\ emitted' = Located(EdgeSpills(func, graph, live, allocation, ranges, emitted, level), done)
    /\ Proceed(emitted'.error, "run")
    /\ run' = IF emitted'.error = "" THEN StartRun(func', emitted', level) ELSE None
    /\ graph' = NoGraph /\ live' = None /\ ranges' = None /\ allocation' = None /\ merged' = None
    /\ UNCHANGED level

Compile ==
    BeginGraph \/ AnalyseGraph \/ StartScan \/ Scan \/ Coalesce \/ StartLive
    \/ Liveness \/ LiveRanges \/ Assign \/ RewriteOperands \/ SplitEdges

RunCode ==
    /\ stage = "run"
    /\ run' \in RunSuccessors(func, emitted, level, run)
    /\ UNCHANGED <<before, stage, stageVars, emitted, error>>

Next == Compile \/ RunCode

Spec == Init /\ [][Next]_vars

----------------------------------------------------------------------------
ReachedBlocks == {b \in graph.blocks : Reached(graph, b)}

\* Blocks reachable from block a without entering a block of avoided, a included.
ReachableAvoiding(a, avoided) ==
    LET near[k \in 0 .. Cardinality(graph.blocks)] ==
          IF k = 0 THEN {a} \ avoided
          ELSE near[k - 1] \cup (UNION {Successors(graph.cfg, b) : b \in near[k - 1]} \ avoided)
    IN  near[Cardinality(graph.blocks)]

Dominates(d, b) == b \notin ReachableAvoiding(Entry, {d})

\* Every back edge leads to a block on all paths to its source.
Reducible ==
    \A e \in graph.back : Dominates(graph.cfg[e].destination, graph.cfg[e].source)

\* The blocks from which a back edge into h is reached without passing h.
NaturalLoop(h) ==
    {h} \cup {b \in ReachedBlocks \ {h} :
                \E e \in graph.back :
                    /\ graph.cfg[e].destination = h
                    /\ graph.cfg[e].source \in ReachableAvoiding(b, {h})}

LoopEntries == {graph.cfg[e].destination : e \in graph.back}

(***************************************************************************)
(* The numbers that order the data-flow passes: among the blocks the walk  *)
(* reached, every edge that is not a back edge goes from a smaller to a    *)
(* larger number and every back edge does not.                             *)
(***************************************************************************)
ReversePostorder ==
    Analysed =>
      \A e \in DOMAIN graph.cfg :
        LET s == graph.cfg[e].source
            d == graph.cfg[e].destination
        IN  s \in ReachedBlocks =>
              (e \in graph.back <=> graph.rpost[s] >= graph.rpost[d])

(***************************************************************************)
(* The loop depth that weighs frequencies and spill costs: in a reducible  *)
(* function the depth of a block is the number of natural loops around it, *)
(* whatever the order in which the entries were met.                       *)
(***************************************************************************)
DepthCountsLoops ==
    Analysed /\ Reducible =>
      \A b \in ReachedBlocks :
        graph.depth[b] = Cardinality({h \in LoopEntries : b \in NaturalLoop(h)})

(***************************************************************************)
(* The loop tree stays a tree in every function, irreducible ones          *)
(* included: a node is the child of its parent and of no other node, and   *)
(* every node but the root has a parent in the end.                        *)
(***************************************************************************)
LoopsNest ==
    graph # NoGraph =>
    /\ \A n \in DOMAIN graph.nodes :
         {p \in DOMAIN graph.nodes : n \in graph.nodes[p].children}
           = {graph.nodes[n].parent} \ {NoNode}
    /\ Analysed => Cardinality({n \in DOMAIN graph.nodes : graph.nodes[n].parent = NoNode}) = 1

(***************************************************************************)
(* What every later stage takes from the analysis: an order of the blocks, *)
(* the loops and how deep they nest.                                       *)
(***************************************************************************)
GraphExact == ReversePostorder /\ DepthCountsLoops /\ LoopsNest

(***************************************************************************)
(* The live-in sets everything later rests on, against its definition by  *)
(* paths: a register is live into a block when some path from its start    *)
(* reads the register before anything writes it.                           *)
(***************************************************************************)
Uses(i) == (Reads(i) \ i.early) \cup i.args \cup (IF IsCall(i) THEN Globals \ i.early ELSE {})
Overwrites(i) == Defines(i) \cup i.early \cup (IF IsCall(i) THEN CallClobbered ELSE {})

ReadsFirst(b, r) ==
    \/ b = Exit /\ r \in Globals
    \/ b \in RealBlocks(func) /\ \E k \in DOMAIN func.body[b] :
          /\ r \in Uses(func.body[b][k])
          /\ \A j \in 1 .. k - 1 : r \notin Overwrites(func.body[b][j])

PassesThrough(b, r) ==
    b \in RealBlocks(func) =>
      \A k \in DOMAIN func.body[b] : r \notin Overwrites(func.body[b][k])

\* The blocks control may be in before r is first written, starting with b.
BeforeWrite(b, r) ==
    LET near[n \in 0 .. Cardinality(Blocks(func))] ==
          IF n = 0 THEN {b}
          ELSE near[n - 1] \cup UNION {Successors(graph.cfg, c) :
                                        c \in {d \in near[n - 1] : PassesThrough(d, r)}}
    IN  near[Cardinality(Blocks(func))]

LiveInExact ==
    stage = "ranges" =>
      \A b \in Blocks(func) \ {Exit} : \A r \in Registers :
        r \in live.in[b] <=> \E c \in BeforeWrite(b, r) : ReadsFirst(c, r)

(***************************************************************************)
(* The deaths that let later stages reuse a register: from level one on an *)
(* instruction is the last reader of exactly those registers it reads      *)
(* whose value no path from it reads again before something writes them.   *)
(***************************************************************************)
ReadOnward(b, k, r) ==
    LET body == func.body[b]
        kept(j) == r \notin Overwrites(body[j])
    IN  \/ \E j \in k + 1 .. Len(body) : r \in Uses(body[j]) /\ \A m \in k + 1 .. j - 1 : kept(m)
        \/ /\ \A m \in k + 1 .. Len(body) : kept(m)
           /\ \E d \in Successors(graph.cfg, b) : \E c \in BeforeWrite(d, r) : ReadsFirst(c, r)

ReadAgain(b, k, r) ==
    LET i == func.body[b][k]
    IN  \/ IsCall(i) /\ r \in Globals
        \/ /\ r \notin Defines(i) \cup (IF IsCall(i) THEN CallClobbered ELSE {})
           /\ ReadOnward(b, k, r)

DeathsExact ==
    stage = "ranges" /\ level > 0 =>
      \A b \in RealBlocks(func) : \A k \in DOMAIN func.body[b] :
        Deaths(func.body[b], live.out[b])[k]
          = {r \in Reads(func.body[b][k]) : ~ReadAgain(b, k, r)}

(***************************************************************************)
(* The two scans that find live values, over blocks and within a block,    *)
(* both tell what the paths of the function tell.                          *)
(***************************************************************************)
LivenessExact == LiveInExact /\ DeathsExact

(***************************************************************************)
(* Registers that hold values at the same time conflict, before and after  *)
(* the points are merged: whatever an instruction writes has a point in    *)
(* common with whatever is live after it, and merging makes no conflict    *)
(* and loses none.                                                         *)
(***************************************************************************)
Meet(some, r, s) == RangePoints(some[r]) \cap RangePoints(some[s]) # {}

ConflictsKept ==
    stage = "allocate" =>
      /\ \A r, s \in Registers : Meet(ranges.raw, r, s) <=> Meet(ranges.ranges, r, s)
      /\ \A b \in RealBlocks(func) :
           LET body == func.body[b]
               after == LiveAfter(body, live.out[b])
           IN  \A k \in DOMAIN body : \A r \in Defines(body[k]) :
                 \A s \in (after[k] \cup Defines(body[k])) \ {r} : Meet(ranges.ranges, r, s)

(***************************************************************************)
(* At every step of the assignment two values share a place at a point     *)
(* only if one of them is spilled there, in every block of the range; and  *)
(* a value shares its register with no use of that register by the         *)
(* function's own instructions.                                            *)
(***************************************************************************)
Overlap(l, m) ==
    \/ IsHard(l) /\ l = m
    \/ IsSlot(l) /\ IsSlot(m) /\ SlotUnits(l) \cap SlotUnits(m) # {}

SpilledIn(v, range) ==
    range.blocks # {} /\ \A b \in range.blocks : v \in allocation.gen[b]

LocationsDisjoint ==
    stage \in {"allocate", "rewrite"} =>
      \A v \in VirtualRegisters \ Bound : \A x \in ToSet(ranges.ranges[v]) :
        /\ \A w \in VirtualRegisters \ {v} : Overlap(allocation.loc[v], allocation.loc[w]) =>
             \A y \in ToSet(ranges.ranges[w]) :
               Points(x) \cap Points(y) # {} => SpilledIn(v, x) \/ SpilledIn(w, y)
        /\ \A p \in PhysicalRegisters : allocation.loc[v] = Hard(p) =>
             \A y \in ToSet(ranges.ranges[p]) : Points(x) \cap Points(y) # {} => SpilledIn(v, x)

(***************************************************************************)
(* Every instruction of the emitted code finds the value of each register  *)
(* it reads in the place the code names for it, on every path, and the     *)
(* instructions come in the order of the function's.                       *)
(***************************************************************************)
CodeSound == stage = "run" => StepIsSound(func, emitted, run)

(***************************************************************************)
(* The stages agree about every function: none of the cross-checks between *)
(* them fires (live-in sets, saves at block entries, edited edges), and    *)
(* the temporary registers suffice.                                        *)
(***************************************************************************)
StagesAgree == error = ""

=============================================================================
