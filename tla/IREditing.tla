------------------------------ MODULE IREditing ------------------------------
(***************************************************************************)
(* Editing one function.  Clients write through batches (ProgramEditor,    *)
(* MIRBuilder); each keeps an error, the block it inserts at, the entry    *)
(* block it saw and a label per block it jumped to.  The program counts    *)
(* the open batches and keeps the first error of any of them for good.     *)
(* Handles to nodes outlive edits and are checked against a log of erased  *)
(* addresses.  Analyses are cached with the revisions they were made for;  *)
(* a pass edits and analyses in one scope.                                 *)
(***************************************************************************)
EXTENDS IRAnalyses

CONSTANTS Batches,      \* the batches clients may open
          Starts,       \* [f, making, edits, asks, holds, opens]: a body, whether it
                        \* is under construction, and the bounds of the session:
                        \* calls that may write, calls on the cache, handles kept
                        \* and batches opened
          Templates,    \* instructions without labels that clients write
          Names         \* names clients declare in the module

(* Bodies: what a block or an instruction is made of, and that every node  *)
(* is in one place of the body and has an address of its own.              *)
LiveNodes == [a : Nat \ {0}, g : Nat \ {0}]
Operands == Registers \cup {NoReg}
Opcodes == {"mov", "addr", "laddr", "load", "store", "ext", "addo", "vector", "alloca", "restore", "vaarg", "vastart",
            "call", "jcall", "ret", "jret", "jmp", "jmpi", "switch", "bt", "bo"}
Instructions == [n : LiveNodes, op : Opcodes, d : Operands, u : Operands, w : Operands, l : Seq(LiveNodes)]
BodyBlocks == [n : LiveNodes, labels : Seq(LiveNodes), ins : Seq(Instructions), scope : {0, 1}]

Bodies(logs) ==
    [blocks : Seq(BodyBlocks), regs : SUBSET Registers, backed : SUBSET Registers, data : SUBSET LiveNodes,
     gen : Nat, tracks : BOOLEAN, erased : logs, rev : [i : Nat, c : Nat, r : Nat]]

Kinds == {"block", "label", "ins"}

OfKind(kind, blk) ==
    CASE kind = "block" -> {blk.n}
      [] kind = "label" -> Range(blk.labels)
      [] OTHER -> {i.n : i \in Range(blk.ins)}

CleanBlock(blk) ==
    /\ \A i, j \in DOMAIN blk.labels : blk.labels[i] = blk.labels[j] => i = j
    /\ \A i, j \in DOMAIN blk.ins : blk.ins[i].n = blk.ins[j].n => i = j
    /\ \A k, l \in Kinds : k # l => OfKind(k, blk) \cap OfKind(l, blk) = {}

Clean(f) ==
    /\ \A b \in DOMAIN f.blocks : CleanBlock(f.blocks[b])
    /\ \A b, c \in DOMAIN f.blocks : b # c => NodesIn(f.blocks[b]) \cap NodesIn(f.blocks[c]) = {}
    /\ \A m, n \in Nodes(f) : m.a = n.a => m = n
    /\ \A n \in Nodes(f) : n.g <= f.gen

(* A body nobody is making was loaded or finished, so that it verifies.    *)
ASSUME StartAssumption ==
    \A s \in Starts : s.f \in Bodies({<<>>}) /\ Clean(s.f) /\ (s.making \/ Verified(s.f))

ASSUME TemplateAssumption ==
    Templates \subseteq [op : Opcodes, d : Operands, u : Operands, w : Operands, l : {<<>>}]

VARIABLES fn,           \* the function
          names,        \* the symbols declared in its module
          batch,        \* the batches
          editError,    \* the program's edit_error is set
          handles,      \* handles somebody keeps
          cache,        \* the analysis manager of the function
          pass,         \* the batch of the pass that runs, or "none"
          stale,        \* a call went through a pointer to an erased node
          left          \* what remains of the bounds

vars == <<fn, names, batch, editError, handles, cache, pass, stale, left>>

Analyses == {"cfg", "graph", "dom", "live", "loops", "uses"}
NoEntry == [kept |-> FALSE, rev |-> EmptyFunction.rev, value |-> <<>>]

Closed == [status |-> "closed", error |-> FALSE, borrowed |-> FALSE, entry |-> None, insert |-> None,
           scope |-> 0, anchors |-> <<>>, gone |-> {}]

Init ==
    /\ \E s \in Starts, maker \in Batches :
         /\ fn = s.f
         /\ batch = [b \in Batches |-> [Closed EXCEPT !.status = IF s.making /\ b = maker THEN "open" ELSE "none"]]
         /\ left = [edits |-> s.edits, asks |-> s.asks, holds |-> s.holds, opens |-> s.opens]
    /\ names = {}
    /\ editError = FALSE
    /\ handles = {}
    /\ cache = [a \in Analyses |-> NoEntry]
    /\ pass = "none"
    /\ stale = FALSE

-----------------------------------------------------------------------------
(* Batches. *)

Pending == {b \in Batches : batch[b].status = "open"}

Ready(b) == batch[b].status = "open" /\ ~batch[b].error /\ ~editError

Usable(b) == Ready(b) /\ batch[b].borrowed /\ left.edits > 0 /\ ~stale

(* Program::status. *)
StatusOk == ~editError /\ Pending = {}

OpenBatch(b) ==
    /\ batch[b].status # "open" /\ pass = "none" /\ left.opens > 0 /\ ~stale
    /\ batch' = [batch EXCEPT ![b] = [Closed EXCEPT !.status = "open", !.error = editError]]
    /\ handles' = {h \in handles : h.batch # b}
    /\ left' = [left EXCEPT !.opens = @ - 1]
    /\ UNCHANGED <<fn, names, editError, cache, pass, stale>>

(* The batch's view of a function: its first block, made if there is none. *)
Entered(f) == IF f.blocks = <<>> THEN CreateBlock(f, 1, 0) ELSE f

Viewing(view, f) ==
    [view EXCEPT !.borrowed = TRUE, !.entry = f.blocks[1].n, !.insert = f.blocks[1].n, !.scope = f.blocks[1].scope]

BorrowFunction(b) ==
    /\ Ready(b) /\ ~batch[b].borrowed /\ ~stale
    /\ fn' = Entered(fn)
    /\ batch' = [batch EXCEPT ![b] = Viewing(@, Entered(fn))]
    /\ UNCHANGED <<names, editError, handles, cache, pass, stale, left>>

(* Any call on a batch that is not ready: it notes the program's error,    *)
(* and a finished batch without one is itself an error of the program.     *)
LateCall(b) ==
    /\ batch[b].status # "none" /\ ~Ready(b) /\ ~stale
    /\ batch' = [batch EXCEPT ![b].error = TRUE]
    /\ editError' = (editError \/ (batch[b].status = "closed" /\ ~batch[b].error))
    /\ UNCHANGED <<fn, names, handles, cache, pass, stale, left>>

(* What closing a batch says: it must be ready, the last one open, and     *)
(* leave a body that verifies.                                             *)
FinishFails(b) == ~Ready(b) \/ Pending # {b} \/ ~Verified(fn)

Finish(b) ==
    /\ batch[b].status = "open" /\ pass # b /\ ~stale
    /\ batch' = [batch EXCEPT ![b] = [Closed EXCEPT !.error = FinishFails(b)]]
    /\ editError' = (editError \/ FinishFails(b))
    /\ UNCHANGED <<fn, names, handles, cache, pass, stale, left>>

(* Faulty form: dropping an unfinished batch is no error. *)
DropQuietly(b) ==
    /\ batch[b].status = "open" /\ pass # b /\ ~stale
    /\ batch' = [batch EXCEPT ![b] = [Closed EXCEPT !.status = "none"]]
    /\ handles' = {h \in handles : h.batch # b}
    /\ UNCHANGED <<fn, names, editError, cache, pass, stale, left>>

(* The destructor of a batch that was not finished. *)
Drop(b) ==
    /\ batch[b].status = "open" /\ pass # b /\ ~stale
    /\ batch' = [batch EXCEPT ![b] = [Closed EXCEPT !.status = "none"]]
    /\ editError' = (editError \/ ~batch[b].error)
    /\ handles' = {h \in handles : h.batch # b}
    /\ UNCHANGED <<fn, names, cache, pass, stale, left>>

(* A call of a MIRBuilder before a function was selected.                  *)
Unselected(b) ==
    /\ Ready(b) /\ ~batch[b].borrowed /\ left.edits > 0 /\ ~stale
    /\ batch' = [batch EXCEPT ![b].error = TRUE]
    /\ editError' = TRUE
    /\ UNCHANGED <<fn, names, handles, cache, pass, stale, left>>

(* Declarations in the module need no function; a name has one.            *)
Declare(b) ==
    /\ Ready(b) /\ left.edits > 0 /\ ~stale
    /\ \E n \in Names :
         /\ names' = names \cup {n}
         /\ batch' = [batch EXCEPT ![b].error = n \in names]
         /\ editError' = (n \in names)
    /\ left' = [left EXCEPT !.edits = @ - 1]
    /\ UNCHANGED <<fn, handles, cache, pass, stale>>

-----------------------------------------------------------------------------
(* Handles. *)

Handle(b, kind, n) == [batch |-> b, kind |-> kind, node |-> n, rev |-> fn.rev.i]

Resolves(h) == ~WasErased(fn, h.node.a, h.rev)

(* Kept handles, and one made for the call from a node of the body. *)
BlockArgs(b) ==
    {h \in handles : h.kind = "block"} \cup {Handle(b, "block", fn.blocks[n].n) : n \in DOMAIN fn.blocks}
LabelArgs(b) == {h \in handles : h.kind = "label"} \cup {Handle(b, "label", n) : n \in Labels(fn)}
InstructionArgs(b) ==
    {h \in handles : h.kind = "ins"}
    \cup UNION {{Handle(b, "ins", i.n) : i \in Range(fn.blocks[n].ins)} : n \in DOMAIN fn.blocks}

(* Blocks and labels must be the batch's own; instructions any batch's.    *)
Owned(b, h) == Resolves(h) /\ (h.kind = "ins" \/ h.batch = b)

BlockNumber(h) == BlockAt(fn, h.node)

Hold(b) ==
    /\ Ready(b) /\ batch[b].borrowed /\ ~stale /\ left.holds > 0
    /\ \E h \in BlockArgs(b) \cup LabelArgs(b) \cup InstructionArgs(b) :
         /\ h.batch = b
         /\ handles' = handles \cup {h}
    /\ fn' = [fn EXCEPT !.tracks = TRUE]
    /\ left' = [left EXCEPT !.holds = @ - 1]
    /\ UNCHANGED <<names, batch, editError, cache, pass, stale>>

-----------------------------------------------------------------------------
(* Calls that write.  A refused one is an error of batch and program.      *)

Publish(b, r, view) ==
    /\ fn' = r.f
    /\ batch' = [batch EXCEPT ![b] = [view EXCEPT !.error = ~r.ok]]
    /\ editError' = ~r.ok
    /\ left' = [left EXCEPT !.edits = @ - 1]
    /\ UNCHANGED <<names, handles, cache, pass, stale>>

Apply(b, r) == Publish(b, r, batch[b])

(* A call that goes through a pointer to a node that is gone.              *)
Astray ==
    /\ stale' = TRUE
    /\ UNCHANGED <<fn, names, batch, editError, handles, cache, pass, left>>

(* The block a batch inserts at: None when there is none.                  *)
InsertStale(b) == batch[b].insert # None /\ batch[b].insert \notin Nodes(fn)

EmitOn(f, n, t) == IF n = None THEN Refused(f) ELSE EmitAt(f, BlockAt(f, n), t)

(* The outcomes of the calls that write at the end of block n. *)
Emits(n) == {EmitAt(fn, n, t) : t \in Templates}

(* Operations with a result name its register, or leave it without a name, *)
(* which never clashes with another.                                       *)
Unnamed(count) == {rs \in SUBSET (Registers \ fn.regs) : Cardinality(rs) = count}

ResultOf(n, op, inputs) ==
    {ValueOperation(fn, n, Insn(op, CHOOSE r \in rs : TRUE, u, <<>>)) : rs \in Unnamed(1), u \in inputs}

Values(n) == {ValueOperation(fn, n, Insn("mov", r, NoReg, <<>>)) : r \in Registers}

Vectors(n) == ResultOf(n, "vector", Registers)

Loads(n) == ResultOf(n, "load", Registers)

Stores(n) == {EmitAt(fn, n, Insn("store", d, u, <<>>)) : d \in fn.regs, u \in Registers}

RetCalls(n) == {EmitAt(fn, n, Insn("ret", NoReg, u, <<>>)) : u \in Registers \cup {NoReg}}

JumpCalls(n) == {EmitAt(fn, n, Insn(op, NoReg, u, <<>>)) : op \in {"jcall", "jret"}, u \in fn.regs \cup {NoReg}}

Stack(n) == ResultOf(n, "alloca", fn.regs) \cup {EmitAt(fn, n, Insn("restore", NoReg, u, <<>>)) : u \in Registers}

Variadics(n) == ResultOf(n, "vaarg", fn.regs) \cup {EmitAt(fn, n, Insn("vastart", NoReg, u, <<>>)) : u \in fn.regs}

Addresses(b, n) ==
    {IF Owned(b, h) THEN ValueOperation(fn, n, Insn("laddr", r, NoReg, <<h.node>>)) ELSE Refused(fn) :
       h \in LabelArgs(b), r \in Registers}

Calls(n) ==
    {Staged(fn, n, rs, <<Insn("call", CHOOSE r \in rs : TRUE, u, <<>>)>>) :
       rs \in Unnamed(1), u \in Registers \cup {NoReg}}

(* One extension after the other. *)
Converts(n) ==
    {Staged(fn, n, rs, <<Insn("ext", CHOOSE r \in rs : TRUE, u, <<>>),
                         Insn("ext", CHOOSE s \in rs : s # CHOOSE r \in rs : TRUE, CHOOSE r \in rs : TRUE, <<>>)>>) :
       rs \in Unnamed(2), u \in fn.regs}

(* The address of a variable, and what is stored there. *)
Variables(n) ==
    {Staged(fn, n, rs, <<Insn("mov", CHOOSE r \in rs : TRUE, NoReg, <<>>),
                         Insn("store", u, CHOOSE r \in rs : TRUE, <<>>)>>) :
       rs \in Unnamed(1), u \in fn.regs \cup {NoReg}}

(* Faulty form: the lane is extracted before the store is checked. *)
StoreLaneUnchecked(f, n, a, v, r) ==
    LET extracted == ValueOperation(f, n, Insn("vector", r, v, <<>>))
    IN  IF ~extracted.ok THEN Refused(f) ELSE EmitAt(extracted.f, n, Insn("store", a, r, <<>>))

(* Storing a lane checks the store before it extracts the lane.            *)
StoreLane(f, n, a, v, r) ==
    LET extracted == ValueOperation(f, n, Insn("vector", r, v, <<>>))
    IN  IF ~ValidInstruction(f, Insn("store", a, NoReg, <<>>)) \/ ~extracted.ok THEN Refused(f)
        ELSE EmitAt(extracted.f, n, Insn("store", a, r, <<>>))

(* Loading one writes the load first: when vector v lives in memory the    *)
(* insertion is refused, and the load and its register stay.  Loads of a   *)
(* splat insert into no vector, those of a single lane into a constant.    *)
LoadLane(f, n, a, v, r, d) ==
    LET loaded == ValueOperation(f, n, Insn("load", r, a, <<>>))
    IN  IF ~loaded.ok THEN Refused(f) ELSE ValueOperation(loaded.f, n, Insn2("vector", d, v, r, <<>>))

LaneOperations(n) ==
    {StoreLane(fn, n, a, v, CHOOSE r \in rs : TRUE) : rs \in Unnamed(1), a \in Registers \cup {NoReg}, v \in fn.regs}
    \cup {LoadLane(fn, n, a, v, CHOOSE r \in rs : TRUE, CHOOSE d \in rs : d # CHOOSE r \in rs : TRUE) :
             rs \in Unnamed(2), a \in Registers \cup {NoReg}, v \in fn.regs \cup {NoReg}}

Outcomes(b, n) ==
    Emits(n) \cup Values(n) \cup Vectors(n) \cup Loads(n) \cup Stores(n) \cup RetCalls(n) \cup JumpCalls(n) \cup Stack(n)
    \cup Variadics(n) \cup Addresses(b, n) \cup Calls(n) \cup Converts(n) \cup Variables(n) \cup LaneOperations(n)

WriteAtInsert(b) ==
    /\ Usable(b)
    /\ IF InsertStale(b) THEN Astray
       ELSE \E r \in IF batch[b].insert = None THEN {Refused(fn)} ELSE Outcomes(b, BlockAt(fn, batch[b].insert)) :
              Apply(b, r)

Local(b) == Usable(b) /\ \E r \in Registers : Apply(b, CreateRegister(fn, r))

NewBlock(b) == Usable(b) /\ Apply(b, Done(CreateBlock(fn, Len(fn.blocks) + 1, batch[b].scope)))

NewLabel(b) ==
    /\ Usable(b)
    /\ \E h \in BlockArgs(b) : Apply(b, IF Owned(b, h) THEN Done(CreateLabel(fn, BlockNumber(h))) ELSE Refused(fn))

PositionAt(b) ==
    /\ Usable(b)
    /\ \E h \in BlockArgs(b) :
         IF Owned(b, h)
         THEN Publish(b, Done(fn), [batch[b] EXCEPT !.insert = h.node, !.scope = fn.blocks[BlockNumber(h)].scope])
         ELSE Apply(b, Refused(fn))

(* The label a batch jumps to a block by, made the first time and found    *)
(* again by the address of the block.                                      *)
Anchored(f, view, n) ==
    IF n.a \in DOMAIN view.anchors THEN [f |-> f, view |-> view, label |-> view.anchors[n.a]]
    ELSE LET with == CreateLabel(f, BlockAt(f, n))
             label == Last(with.blocks[BlockAt(f, n)].labels)
         IN  [f |-> with, label |-> label,
             view |-> [view EXCEPT !.anchors = [a \in DOMAIN @ \cup {n.a} |-> IF a = n.a THEN label ELSE @[a]]]]

JumpVia(b, to, t) ==
    IF InsertStale(b) \/ \E l \in Range(t.l) : l \notin Labels(to.f) THEN Astray
    ELSE Publish(b, EmitOn(to.f, batch[b].insert, t), to.view)

Jump(b) ==
    /\ Usable(b)
    /\ \E h \in BlockArgs(b), op \in {"jmp", "bt"} :
         IF ~Owned(b, h) THEN Apply(b, Refused(fn))
         ELSE LET to == Anchored(fn, batch[b], h.node) IN JumpVia(b, to, Insn(op, NoReg, NoReg, <<to.label>>))

Switch(b) ==
    /\ Usable(b)
    /\ \E h1, h2 \in BlockArgs(b) :
         IF ~Owned(b, h1) \/ ~Owned(b, h2) THEN Apply(b, Refused(fn))
         ELSE LET first == Anchored(fn, batch[b], h1.node)
                  second == Anchored(first.f, first.view, h2.node)
              IN  JumpVia(b, second, Insn("switch", NoReg, NoReg, <<first.label, second.label>>))

(* A scope of the stack opens with a block of its own after this one and   *)
(* ends with one more, or with none after a return.                        *)
BeginScope(b) ==
    /\ Usable(b) /\ batch[b].scope = 0
    /\ IF InsertStale(b) THEN Astray
       ELSE IF batch[b].insert = None \/ Terminated(fn.blocks[BlockAt(fn, batch[b].insert)])
       THEN Apply(b, Refused(fn))
       ELSE LET n == BlockAt(fn, batch[b].insert) + 1
                f == CreateBlock(fn, n, 1)
            IN  Publish(b, Done(f), [batch[b] EXCEPT !.insert = f.blocks[n].n, !.scope = 1])

EndScope(b) ==
    /\ Usable(b)
    /\ IF InsertStale(b) THEN Astray
       ELSE IF batch[b].scope = 0 THEN Apply(b, Refused(fn))
       ELSE IF batch[b].insert = None \/ (fn.blocks[BlockAt(fn, batch[b].insert)].ins # <<>>
                  /\ Last(fn.blocks[BlockAt(fn, batch[b].insert)].ins).op \in {"ret", "jret"})
       THEN Publish(b, Done(fn), [batch[b] EXCEPT !.insert = None, !.scope = 0])
       ELSE LET n == BlockAt(fn, batch[b].insert) + 1
                f == CreateBlock(fn, n, 0)
            IN  Publish(b, Done(f), [batch[b] EXCEPT !.insert = f.blocks[n].n, !.scope = 0])

(* A datum may be a label; its handle is not resolved, only its owner.     *)
DefineData(b) ==
    /\ Usable(b)
    /\ \E h \in LabelArgs(b) :
         IF h.batch = b /\ h.node \notin Labels(fn) THEN Astray
         ELSE Apply(b, IF h.batch = b THEN Done(DefineLabelData(fn, h.node)) ELSE Refused(fn))

-----------------------------------------------------------------------------
(* Rewriting. *)

(* What a batch forgets of nodes its own call erased: the labels of erased *)
(* blocks, the block it inserts at, and, for erase_blocks, the entry.      *)
Forgets(view, f, blocks) ==
    [view EXCEPT !.anchors = [a \in DOMAIN @ \ {n.a : n \in blocks} |-> @[a]],
                 !.insert = IF @ \in blocks THEN None ELSE @]

Replace(b) ==
    /\ Usable(b)
    /\ \E h \in InstructionArgs(b) :
         \E t \in Templates \cup {Insn("jmp", NoReg, NoReg, <<l>>) : l \in Labels(fn)} :
           Apply(b, IF Owned(b, h) THEN ReplaceOwned(fn, h.node, t) ELSE Refused(fn))

EraseInstruction(b) ==
    /\ Usable(b)
    /\ \E h \in InstructionArgs(b) :
         IF Owned(b, h) THEN Publish(b, Erase(fn, h.node), [batch[b] EXCEPT !.gone = @ \cup {h.node.a}])
         ELSE Apply(b, Refused(fn))

Insert(b) ==
    /\ Usable(b)
    /\ \E h \in InstructionArgs(b), t \in Templates :
         Apply(b, IF Owned(b, h) THEN InsertBefore(fn, h.node, t) ELSE Refused(fn))

(* The destination of a move is checked for its owner only.                *)
Move(b) ==
    /\ Usable(b)
    /\ \E h \in InstructionArgs(b), to \in BlockArgs(b) :
         IF ~Owned(b, h) \/ to.batch # b THEN Apply(b, Refused(fn))
         ELSE IF to.node \notin Nodes(fn) THEN Astray
         ELSE \E before \in {None} \cup {i.n : i \in Range(fn.blocks[BlockNumber(to)].ins)} :
                Apply(b, MoveBefore(fn, h.node, BlockNumber(to), before))

Split(b) ==
    /\ Usable(b)
    /\ \E h \in InstructionArgs(b) : Apply(b, IF Owned(b, h) THEN SplitBefore(fn, h.node) ELSE Refused(fn))

Merge(b) ==
    /\ Usable(b)
    /\ \E h \in BlockArgs(b) :
         LET r == IF Owned(b, h) THEN MergeFallthrough(fn, BlockNumber(h)) ELSE Refused(fn)
             next == IF r.ok THEN {fn.blocks[BlockNumber(h) + 1].n} ELSE {}
         IN  Publish(b, r, [Forgets(batch[b], fn, next) EXCEPT !.gone = @ \cup {n.a : n \in next}])

MoveBlock(b) ==
    /\ Usable(b)
    /\ \E h \in BlockArgs(b), before \in 1 .. Len(fn.blocks) + 1 :
         Apply(b, IF Owned(b, h) THEN MoveBlockBefore(fn, BlockNumber(h), before) ELSE Refused(fn))

Separate(b) ==
    /\ Usable(b)
    /\ \E h \in BlockArgs(b) : Apply(b, IF Owned(b, h) THEN SeparateLabels(fn, BlockNumber(h)) ELSE Refused(fn))

DropBlocks(b) ==
    /\ Usable(b)
    /\ \E h1, h2 \in BlockArgs(b) :
         LET r == IF Owned(b, h1) /\ Owned(b, h2) THEN EraseBlocks(fn, {BlockNumber(h1), BlockNumber(h2)})
                  ELSE Refused(fn)
             nodes == IF r.ok THEN Nodes(fn) \ Nodes(r.f) ELSE {}
         IN  Publish(b, r, [Forgets(batch[b], fn, nodes) EXCEPT
                              !.gone = @ \cup {n.a : n \in nodes},
                              !.entry = IF r.ok /\ @ \in nodes THEN r.f.blocks[1].n ELSE @])

DropLabels(b) ==
    /\ Usable(b)
    /\ LET r == EraseUnusedLabels(fn)
           gone == batch[b].gone \cup {l.a : l \in Labels(fn) \ Labels(r.f)}
           kept == {a \in DOMAIN batch[b].anchors : batch[b].anchors[a].a \notin gone}
       IN  Publish(b, r, [batch[b] EXCEPT !.gone = gone, !.anchors = [a \in kept |-> @[a]]])

SetScope(b) ==
    /\ Usable(b)
    /\ \E h \in BlockArgs(b), scope \in {0, 1} :
         Apply(b, IF Owned(b, h) THEN SetStackScope(fn, BlockNumber(h), scope) ELSE Refused(fn))

Rename(b) == Usable(b) /\ \E old, new \in fn.regs : Apply(b, ReplaceUses(fn, old, new))

Materialize(b) == Usable(b) /\ \E r \in fn.regs : Apply(b, MaterializeStorage(fn, {r}))

(* FunctionEditor::entry() hands out the block the batch saw first.        *)
Entry(b) ==
    /\ Ready(b) /\ batch[b].borrowed /\ ~stale
    /\ batch[b].entry \notin Nodes(fn)
    /\ Astray

-----------------------------------------------------------------------------
(* Analyses. *)

Depends(a) == CASE a \in {"cfg", "graph", "dom", "loops"} -> {"c"}
                [] a = "live" -> {"i", "c", "r"}
                [] a = "uses" -> {"i", "r"}

Current(a, entry) == entry.kept /\ \A d \in Depends(a) : entry.rev[d] = fn.rev[d]

MayAnalyse == ~editError /\ (Pending = {} \/ pass # "none")

(* The result of an analysis, from the results it asks for itself.         *)
Compute(a, flow, graph) ==
    CASE a = "cfg" -> flow
      [] a = "graph" -> graph
      [] a = "dom" -> Dominators(graph)
      [] a = "loops" -> LoopTree(graph)
      [] a = "live" -> Liveness(fn, graph)
      [] a = "uses" -> RegisterUses(fn)

(* Getting an analysis gets the ones below it first, from the cache where  *)
(* they are current; each entry carries the revisions read before it ran.  *)
Filled(a, below, value) ==
    IF Current(a, below[a]) THEN below ELSE [below EXCEPT ![a] = [kept |-> TRUE, rev |-> fn.rev, value |-> value]]

Got(a, c) ==
    LET flow == IF Current("cfg", c["cfg"]) THEN c["cfg"].value ELSE ControlFlowGraph(fn)
        graph == IF Current("graph", c["graph"]) THEN c["graph"].value ELSE FunctionGraph(fn, flow)
    IN  CASE a \in {"cfg", "uses"} -> Filled(a, c, Compute(a, flow, <<>>))
          [] a = "graph" -> Filled(a, Filled("cfg", c, flow), graph)
          [] OTHER -> Filled(a, Filled("graph", IF Current("graph", c["graph"]) THEN c ELSE Filled("cfg", c, flow), graph),
                             Compute(a, flow, graph))

Get(a) ==
    /\ MayAnalyse /\ left.asks > 0 /\ ~stale
    /\ cache' = IF Current(a, cache[a]) THEN cache
                ELSE IF Verified(fn) THEN Got(a, cache) ELSE [cache EXCEPT ![a] = NoEntry]
    /\ left' = [left EXCEPT !.asks = @ - 1]
    /\ UNCHANGED <<fn, names, batch, editError, handles, pass, stale>>

(* take_cached moves a current result out and forgets one that is not.     *)
TakeCached(a) ==
    /\ cache[a].kept /\ left.asks > 0 /\ ~stale
    /\ cache' = [cache EXCEPT ![a] = NoEntry]
    /\ left' = [left EXCEPT !.asks = @ - 1]
    /\ UNCHANGED <<fn, names, batch, editError, handles, pass, stale>>

Invalidated(preserved) ==
    [a \in Analyses |-> IF a \in preserved /\ Current(a, cache[a]) THEN cache[a] ELSE NoEntry]

-----------------------------------------------------------------------------
(* A pass over the function. *)

PassStart(b) ==
    /\ StatusOk /\ Verified(fn) /\ pass = "none" /\ left.opens > 0 /\ ~stale
    /\ batch' = [batch EXCEPT ![b] = Viewing([Closed EXCEPT !.status = "open"], fn)]
    /\ handles' = {h \in handles : h.batch # b}
    /\ pass' = b
    /\ left' = [left EXCEPT !.opens = @ - 1]
    /\ UNCHANGED <<fn, names, editError, cache, stale>>

PassEnd(preserved) ==
    /\ pass # "none" /\ ~stale
    /\ batch' = [batch EXCEPT ![pass] = [Closed EXCEPT !.error = FinishFails(pass)]]
    /\ editError' = (editError \/ FinishFails(pass))
    /\ cache' = IF FinishFails(pass) THEN [a \in Analyses |-> NoEntry] ELSE Invalidated(preserved)
    /\ pass' = "none"
    /\ UNCHANGED <<fn, names, handles, stale, left>>

-----------------------------------------------------------------------------
Building(b) == Unselected(b) \/ Declare(b) \/ WriteAtInsert(b) \/ Local(b) \/ NewBlock(b) \/ NewLabel(b)
               \/ PositionAt(b) \/ Jump(b) \/ Switch(b) \/ BeginScope(b) \/ EndScope(b) \/ DefineData(b) \/ Entry(b)

Rewriting(b) == Replace(b) \/ EraseInstruction(b) \/ Insert(b) \/ Move(b) \/ Split(b) \/ Merge(b) \/ MoveBlock(b)
                \/ Separate(b) \/ DropBlocks(b) \/ DropLabels(b) \/ SetScope(b) \/ Rename(b) \/ Materialize(b)

Next ==
    \/ \E b \in Batches : OpenBatch(b) \/ BorrowFunction(b) \/ LateCall(b) \/ Finish(b) \/ Drop(b) \/ Hold(b)
                          \/ Building(b) \/ Rewriting(b) \/ PassStart(b)
    \/ \E a \in Analyses : Get(a) \/ TakeCached(a)
    \/ \E preserved \in {{}, Analyses} : PassEnd(preserved)

Spec == Init /\ [][Next]_vars

-----------------------------------------------------------------------------
Written(f) == <<f.regs, [b \in DOMAIN f.blocks |-> f.blocks[b].ins]>>

(* What a lane load leaves when its insertion is refused.                  *)
LoadLeft(f, g) ==
    /\ f.backed # {} /\ DOMAIN g.blocks = DOMAIN f.blocks
    /\ \E n \in DOMAIN f.blocks, r \in Registers \ f.regs :
         LET i == Last(g.blocks[n].ins)
         IN  /\ g.regs = f.regs \cup {r}
             /\ i.op = "load" /\ i.d = r
             /\ g.blocks[n].ins = Append(f.blocks[n].ins, i)
             /\ \A b \in DOMAIN f.blocks \ {n} : g.blocks[b].ins = f.blocks[b].ins

(* A call that fails writes no instruction and no register, but for one:   *)
(* create_load_lane on a vector that lives in memory leaves its load, one  *)
(* instruction at the end of a block and the register it makes.  After a   *)
(* failure no call of any batch on the program writes.                     *)
FailureQuiet ==
    [][editError' => \/ Written(fn') = Written(fn)
                     \/ ~editError /\ LoadLeft(fn, fn')]_vars

(* A handle resolves exactly while the node it was made for is in the      *)
(* body: not after an erasure, whichever batch erased it, and not for a    *)
(* node that got the same address later (Function::erased).                *)
HandlesExact == \A h \in handles : Resolves(h) <=> h.node \in Nodes(fn)

(* A program without an error and without open batches holds a body that   *)
(* verifies, however the edits of overlapping batches interleaved: that is *)
(* what Program::status() promises the analyses and passes.                *)
StatusMeansVerified == StatusOk => Verified(fn)

Reaches(edges, avoid) ==
    LET grow[k \in Nat] ==
          IF k = 0 THEN {1} \ avoid
          ELSE LET last == grow[k - 1]
               IN  last \cup ({edges[e].destination : e \in {x \in DOMAIN edges : edges[x].source \in last}} \ avoid)
    IN  grow[Len(edges)]

(* Blocks from which some path reaches a read of r before any write.       *)
ReadsAhead(f, g, r) ==
    LET facts == Facts(f, g)
        grow[k \in Nat] ==
          IF k = 0 THEN {b \in 1 .. g.count : r \in facts[b].gen}
          ELSE LET last == grow[k - 1]
               IN  last \cup {b \in 1 .. g.count : r \notin facts[b].kill
                                /\ \E e \in DOMAIN g.edges : g.edges[e].source = b /\ g.edges[e].destination \in last}
    IN  grow[g.count]

(* What the cache holds is right: a block dominates another when every     *)
(* path from the entry to it passes through it, and a register is live at  *)
(* the start of a block when some path reads it before it is written.      *)
AnalysesExact ==
    LET g == FunctionGraph(fn, ControlFlowGraph(fn))
    IN  /\ Current("dom", cache["dom"]) =>
             \A a, b \in 1 .. g.count : Dominates(cache["dom"].value, a, b) <=> b \notin Reaches(g.edges, {a})
        /\ Current("live", cache["live"]) =>
             \A r \in fn.regs : {b \in 1 .. g.count : r \in cache["live"].value.in[b]} = ReadsAhead(fn, g, r)

(* An entry the cache would return is what its analysis would compute now, *)
(* also when it was made from other entries and kept across edits that     *)
(* bumped only some of the revisions.                                      *)
AnalysesFresh ==
    LET flow == ControlFlowGraph(fn)
        graph == FunctionGraph(fn, flow)
    IN  /\ \A a \in Analyses : Current(a, cache[a]) => cache[a].value = Compute(a, flow, graph)
        /\ AnalysesExact

=============================================================================
