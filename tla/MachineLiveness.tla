--------------------------- MODULE MachineLiveness ---------------------------
(***************************************************************************)
(* MachineLiveness::analyze_retained_topology.  Each block is scanned      *)
(* backwards once for what it reads first (gen) and what it writes (kill); *)
(* a worklist ordered by reverse postorder then spreads the live-in sets   *)
(* against the edges until a round changes nothing.                        *)
(*                                                                         *)
(* A scan set restricts the analysis to some registers: the coalescing     *)
(* stage scans only the ends of its moves (compact), the allocation stages *)
(* scan every register, and only they see calls and hardware effects.      *)
(***************************************************************************)
EXTENDS MachineFunctions

----------------------------------------------------------------------------
(***************************************************************************)
(* One instruction, backwards, on the local sets of its block.             *)
(***************************************************************************)
Transfer(i, s, scan, compact) ==
    LET full == ~compact
        defs == Defines(i) \cap scan
        early == IF full THEN i.early ELSE {}
        called == IF full /\ IsCall(i)
                    THEN [gen |-> (s.gen \ CallClobbered) \cup Globals,
                          kill |-> s.kill \cup CallClobbered]
                    ELSE s
    IN  [gen |-> (((called.gen \ defs) \cup (Reads(i) \cap scan)) \ early)
                   \cup (IF full THEN i.args ELSE {}),
         kill |-> called.kill \cup defs \cup early]

LocalSets(body, scan, compact) ==
    LET after[k \in 1 .. Len(body) + 1] ==
          IF k = Len(body) + 1 THEN [gen |-> {}, kill |-> {}]
          ELSE Transfer(body[k], after[k + 1], scan, compact)
    IN  after[1]

(***************************************************************************)
(* The worklist.  A state of the analysis has the four sets of every       *)
(* block, the blocks of this round and whether it is the first.            *)
(***************************************************************************)
StartLiveness(f, scan, compact) ==
    LET local == [b \in RealBlocks(f) |-> LocalSets(f.body[b], scan, compact)]
    IN  [gen |-> [b \in Blocks(f) |-> IF b \in RealBlocks(f) THEN local[b].gen ELSE {}],
         kill |-> [b \in Blocks(f) |-> IF b \in RealBlocks(f) THEN local[b].kill ELSE {}],
         in |-> [b \in Blocks(f) |-> {}],
         out |-> [b \in Blocks(f) |-> IF b = Exit /\ ~compact THEN Globals ELSE {}],
         work |-> Blocks(f), first |-> TRUE]

\* Faulty form: a changed live-in set is not handed to the predecessors.
VisitBlockOnce(s, b, g) ==
    LET out == s.out[b] \cup UNION {s.in[d] : d \in Successors(g.cfg, b)}
    IN  [s EXCEPT !.out[b] = out, !.in[b] = (out \ s.kill[b]) \cup s.gen[b]]

\* One block of a round: live-out grows by the successors' live-in; when the
\* live-in changes the predecessors are scheduled for the next round.
VisitBlock(s, b, g) ==
    LET out == s.out[b] \cup UNION {s.in[d] : d \in Successors(g.cfg, b)}
        in == (out \ s.kill[b]) \cup s.gen[b]
        changed == s.first \/ out # s.out[b]
    IN  IF ~changed \/ in = s.in[b]
          THEN [s EXCEPT !.out[b] = out]
          ELSE [s EXCEPT !.out[b] = out, !.in[b] = in,
                         !.pending = @ \cup Predecessors(g.cfg, b)]

RoundOrder(blocks, g) ==
    Sorted(blocks, LAMBDA a, b : \/ g.rpost[a] > g.rpost[b]
                                 \/ g.rpost[a] = g.rpost[b] /\ a < b)

LivenessRound(s, g) ==
    LET swept == FoldLeft(LAMBDA acc, b : VisitBlock(acc, b, g),
                          [gen |-> s.gen, kill |-> s.kill, in |-> s.in, out |-> s.out,
                           first |-> s.first, pending |-> {}],
                          RoundOrder(s.work, g))
    IN  [gen |-> s.gen, kill |-> s.kill, in |-> swept.in, out |-> swept.out,
         work |-> swept.pending, first |-> FALSE]

LivenessDone(s) == s.work = {}

----------------------------------------------------------------------------
(***************************************************************************)
(* Deaths: the registers an instruction is the last to read, found by a    *)
(* second backward scan from the live-out set.                             *)
(***************************************************************************)
LiveBefore(i, live) ==
    LET kept == live \ Defines(i)
        called == IF IsCall(i) THEN (kept \ CallClobbered) \cup Globals ELSE kept
    IN  ((called \cup Reads(i)) \ i.early) \cup i.args

DeathsAt(i, live) ==
    LET kept == live \ Defines(i)
    IN  Reads(i) \ (IF IsCall(i) THEN (kept \ CallClobbered) \cup Globals ELSE kept)

\* LiveAfter(body, out)[k] is what is live after the k-th instruction.
LiveAfter(body, out) ==
    LET after[k \in 0 .. Len(body)] ==
          IF k = Len(body) THEN out ELSE LiveBefore(body[k + 1], after[k + 1])
    IN  after

Deaths(body, out) ==
    [k \in 1 .. Len(body) |-> DeathsAt(body[k], LiveAfter(body, out)[k])]

(***************************************************************************)
(* Reference frequencies: every operand occurrence of a virtual register   *)
(* counts five times more for each loop around its block, from level one.  *)
(***************************************************************************)
Occurrences(i, r) ==
    LET operands == i.out \o i.in \o i.mem
    IN  Cardinality({k \in DOMAIN operands : operands[k] = r})

Weight(g, b, level) == IF level = 0 THEN 1 ELSE 5 ^ g.depth[b]

Frequency(f, g, level, r) ==
    LET count(b) == FoldLeft(LAMBDA n, i : n + Occurrences(i, r), 0, f.body[b])
        upTo[b \in 1 .. LastBlock(f)] ==
          IF b = 1 THEN 0 ELSE upTo[b - 1] + Weight(g, b, level) * count(b)
    IN  upTo[LastBlock(f)]

-----------------------------------------------------------------------------
(***************************************************************************)
(* MachineLiveRanges::build.  Blocks are scanned backwards; a point is     *)
(* counted whenever something was born or died, and every register gets    *)
(* the intervals of points in which it is live.  A register that is live   *)
(* through a block without being mentioned in it gets an interval of its   *)
(* own, tagged with the block: the allocator may take the register away    *)
(* for the whole block.  Points that separate nothing are then merged.     *)
(***************************************************************************)

Unfinished == -1

LiveRange(start, finish) == [start |-> start, finish |-> finish, blocks |-> {}]
Points(range) == range.start .. range.finish

----------------------------------------------------------------------------
(***************************************************************************)
(* The scan's state: what is living, what the block's instructions have    *)
(* mentioned, the ranges found (latest last), the current point and the    *)
(* virtual registers that some call happens in the lifetime of.            *)
(***************************************************************************)
StartRanges ==
    [living |-> {}, mentioned |-> {}, point |-> 0, crossed |-> {},
     ranges |-> [r \in Registers |-> <<>>], error |-> ""]

\* Faulty form: a value that nothing reads gets no range.
DiesUnread(s, regs) ==
    [s EXCEPT !.living = @ \ regs,
              !.ranges = [r \in Registers |->
                  IF r \notin regs \cap s.living THEN s.ranges[r]
                  ELSE Front(s.ranges[r]) \o <<[Last(s.ranges[r]) EXCEPT !.finish = s.point]>>]]

Dies(s, regs) ==
    [s EXCEPT !.living = @ \ regs,
              !.ranges = [r \in Registers |->
                  IF r \notin regs THEN s.ranges[r]
                  ELSE IF r \in s.living
                    THEN Front(s.ranges[r]) \o <<[Last(s.ranges[r]) EXCEPT !.finish = s.point]>>
                    ELSE Append(s.ranges[r], LiveRange(s.point, s.point))]]

\* A range that ended here or one point ago is resumed, unless it is the
\* range of a whole block.
Resumes(s, r) ==
    /\ s.ranges[r] # <<>>
    /\ Last(s.ranges[r]).blocks = {}
    /\ Last(s.ranges[r]).finish \in {s.point, s.point - 1}

Born(s, regs, resume) ==
    [s EXCEPT !.living = @ \cup regs,
              !.ranges = [r \in Registers |->
                  IF r \notin regs \ s.living \/ (resume /\ Resumes(s, r)) THEN s.ranges[r]
                  ELSE Append(s.ranges[r], LiveRange(s.point, Unfinished))]]

Mention(s, regs) == [s EXCEPT !.mentioned = @ \cup regs]

AdvanceIf(moved, s) == IF moved THEN [s EXCEPT !.point = @ + 1] ELSE s

\* The virtual registers that live across the call.
CrossedAt(s) == [s EXCEPT !.crossed = @ \cup (s.living \cap VirtualRegisters)]

\* A call destroys its clobbered registers, then reads the global bindings
\* and its hidden arguments.
ScanCall(s, i) ==
    IF ~IsCall(i) THEN s
    ELSE LET implicit == Globals \cup i.args
             reading == Born(Dies(s, CallClobbered), implicit, TRUE)
         IN  AdvanceIf(CallClobbered # {},
                       CrossedAt(Mention(reading, CallClobbered \cup implicit)))

ScanReads(s, i) ==
    LET read == Born(Mention(s, Reads(i)), Reads(i), TRUE)
        early == Dies(Born(Mention(read, i.early), i.early, TRUE), i.early)
    IN  AdvanceIf(~(Reads(i) \subseteq s.living) \/ i.early # {}, early)

ScanInstruction(s, i) ==
    LET written == AdvanceIf(Defines(i) # {}, Dies(Mention(s, Defines(i)), Defines(i)))
    IN  ScanReads(ScanCall(written, i), i)

\* The registers still living at the start of the block end their ranges
\* there; those the block did not mention were live through all of it.
LeaveTop(s, b, in) ==
    LET ended == Dies(s, in)
        tagged == [r \in Registers |->
                     IF r \notin in \ s.mentioned THEN ended.ranges[r]
                     ELSE Front(ended.ranges[r])
                          \o <<[Last(ended.ranges[r]) EXCEPT !.blocks = {b}]>>]
    IN  AdvanceIf(in # {}, [ended EXCEPT !.ranges = tagged])

CloseScan(s, b, in) ==
    IF s.living # in THEN [s EXCEPT !.error = "live-in disagrees"] ELSE LeaveTop(s, b, in)

ScanBlock(s, f, b, live) ==
    LET bottom == Born([s EXCEPT !.living = {}, !.mentioned = {}], live.out[b], FALSE)
    IN  IF s.error # "" \/ (f.body[b] = <<>> /\ b \notin f.labelled) THEN s
        ELSE CloseScan(FoldRight(LAMBDA i, acc : ScanInstruction(acc, i), f.body[b], bottom),
                       b, live.in[b])

\* Blocks are scanned in layout order, at level one from the last in reverse
\* postorder.
ScanOrder(f, g, level) ==
    Sorted(RealBlocks(f),
                 LAMBDA a, b : IF level = 1 /\ g.rpost[a] # g.rpost[b]
                                 THEN g.rpost[a] > g.rpost[b] ELSE a < b)

\* The virtual registers a block mentions: the only ones it may have to save.
Mentioned(f, b) ==
    UNION {Defines(f.body[b][k]) \cup Reads(f.body[b][k]) : k \in DOMAIN f.body[b]}
      \cap VirtualRegisters

----------------------------------------------------------------------------
(***************************************************************************)
(* Compression: a new point opens at a birth that follows a death.         *)
(***************************************************************************)
AllRanges(ranges) == UNION {ToSet(ranges[r]) : r \in Registers}

\* The points at which a compressed point begins.
Opens(births, deaths) ==
    LET events == births \cup deaths
        before(p) == {q \in events : q < p}
    IN  {p \in births : before(p) = {} \/ Max(before(p)) \in deaths}

PointMap(ranges) ==
    LET births == {r.start : r \in AllRanges(ranges)}
        deaths == {r.finish : r \in AllRanges(ranges)}
        opens == Opens(births, deaths)
    IN  [p \in births \cup deaths |-> Cardinality({q \in opens : q <= p}) - 1]

\* Neighbours of a kind become one range.  Ranges are listed latest first.
Compress(ranges, map) ==
    LET move(r) == [r EXCEPT !.start = map[@], !.finish = map[@]]
        join(merged, range) ==
          LET last == Last(merged)
          IN  IF \/ merged = <<>>
                 \/ range.finish \notin {last.start, last.start - 1}
                 \/ (last.blocks = {}) # (range.blocks = {})
                THEN Append(merged, range)
                ELSE Front(merged) \o <<[last EXCEPT !.start = range.start,
                                                     !.blocks = @ \cup range.blocks]>>
    IN  FoldLeft(LAMBDA merged, r : join(merged, move(r)), <<>>, Reverse(ranges))

FinishRanges(scan, f, map) ==
    [error |-> "", raw |-> scan.ranges, crossed |-> scan.crossed,
     points |-> Cardinality({map[p] : p \in DOMAIN map}),
     ranges |-> [r \in Registers |-> Compress(scan.ranges[r], map)],
     kill |-> [b \in Blocks(f) |-> IF b \in RealBlocks(f) THEN Mentioned(f, b) ELSE {}]]

CompressRanges(scan, f) ==
    IF scan.error # "" THEN [error |-> scan.error]
    ELSE FinishRanges(scan, f, PointMap(scan.ranges))

BuildRanges(f, g, live, level) ==
    CompressRanges(FoldLeft(LAMBDA s, b : ScanBlock(s, f, b, live), StartRanges,
                            ScanOrder(f, g, level)), f)
=============================================================================
