# TLA+ verification of MIRNext

MIRNext is an embeddable C++20 compiler library: a register IR with a builder, an
interpreter, an eager and a lazy JIT for x86-64 and AArch64, and a lazy
basic-block-versioning (BBV) runtime. This directory models the parts of it whose
correctness depends on the *order* of steps - executable memory, lazy compilation
and linking, reentry through observers and host functions, recovery from native
errors - and the algorithms that the rest rests on. Every definition is translated
from `src/`; `PROJECT.json` maps each one to its lines.

## 1. Inventory

| Component | State it keeps | Operations | Hard behaviour | What makes it correct |
|---|---|---|---|---|
| Code memory (`lib/Execution/CodeMemory.cpp`) | arena mapping and bump pointer, reservations, executable handles, page rights | `create`, `reserve`, `publish`, destructors | each provider call of a publication may fail half way; retries; handles outlive the arena | published code is never rewritten, is executable and coherent; publication is atomic |
| Block compilation (`BBVRuntime.cpp`, `CompiledBlock.cpp`) | one record per block: phase, artifact, reservation, code; gate slots | `compile`, gate resolver, `label_address` | the observer reenters; every stage fails; arena exhaustion | gates lead to cold paths or to finished code; no leak; every call returns |
| BBV specialization and layout (`BBVSpecialization.cpp`, `BlockVersioning.cpp`) | first version of each block, its property environment, its artifact | `request`, `specialize`, `verify` | the first request decides; a later one must be compatible | specialized blocks agree with their incoming properties |
| Lazy and eager functions (`NativeProgram.cpp`, `Function.cpp`) | per function: state, code, destination slot, labels, statistics | `compile_native`, `resolve_lazy`, `publish_lazy_entries`, `publish_eager` | reentry from the compilation observer; a failure after any step | a function is compiled once; calls reach published code; failures leave it cold |
| Loading and linking (`LoadedProgram.cpp`, `Session.cpp`, `ProgramImage.cpp`, `Linker.cpp`) | modules, symbols, imports, data image | `Session::create`, `load`, `invoke` | all-or-nothing publication of entries; failure in the middle of loading | every reference resolves to one compatible definition; data does not overlap |
| Native recovery (`Recovery.cpp`, `NativeBoundary.cpp`, `NativeCalls.cpp`) | thread-local chain of checkpoints, raw boundary frames, execution-error scopes | `invoke`, `enter`, `leave`, `checkpoint`, `report` | error unwinding across nested host / native / interpreter activations | recovery returns to the innermost activation and never skips a host frame |
| Interpreter (`Interpreter*.cpp`) | frames, registers, segmented stack, call depth, hardware registers | `run`, `invoke`, `save`/`restore`, variadics | nested foreign calls, budgets, stack marks | budgets and stack restored on every path; errors stop at the first |
| Analyses and pass manager (`Analysis/`, `Transforms/PassManager.cpp`) | cached analyses, IR epochs | `get`, `invalidate`, `run` | a stale analysis used after a change | what a pass sees describes the current IR |
| Optimization passes (`Transforms/`) | the IR | GVN, DCE, DSE, copy propagation, inlining, motion, jumps, SLP, SSA | interaction of passes | the meaning of the program is preserved |
| IR construction (`IR/`) | functions, blocks, registers, first builder error | `InstructionBuilder`, `Builder`, `SSA` construct / destruct, clone | errors are sticky; handles of another module | a program that `finish` accepts is well formed |
| Code generation (`CodeGen/`) | machine IR, live ranges, assignment, spills, frame | liveness, ranges, coalescing, assignment, edge spills, rewriting, encoding | parallel copies, critical edges, call clobbers | each use reads the value of its definition |
| Serialization (`Serialization/`) | none | text and binary readers/writers, LZ compression | truncated or malformed input | reading what was written gives it back |
| Target, Support (`Target/`, `Result.hpp`, `SparseBitSet.hpp`) | none | ABI classification, addressing, bit sets | boundaries | |

How they interact: a `Session` links modules into a `ProgramImage`, then a
`LoadedProgram` compiles them (eagerly, or on the first call through a gate), with
code placed by `CodeMemory`/`CodeArena`. Native code reaches the runtime only through
gates and resolvers, host functions and label stubs; a failure there is reported into
the innermost `ExecutionInvocation` and unwinds to the innermost recovery checkpoint.
The interpreter and native code call each other through `InterpreterEntries` and
`NativeCalls`. A program is externally synchronized ("single-threaded"), so what takes
the place of concurrency is *reentry*: an observer or a host function runs arbitrary
calls of the same API in the middle of an operation.

## 2. Plan

In order of importance; what is done is described in section 3.

1. *done* - code memory (`CodeBatches` <- `CodeArena`, proofs), lazy blocks (`LazyLinkage` <-
   `BBVRuntime`), loading and lazy functions (`LazyLinkage` <- `ProgramLoad`), recovery
   (`StructuredCalls` <- `NativeActivations`), interpreter frames (`InterpreterFrames`).
2. *done* - code generation from the control-flow graph to the edge spills:
   `MachineFunctions` (with the graph analysis), `MachineLiveness` (with live ranges),
   `MachineAllocation`, `MachineRewrite` (with the edge spills), and the coalescing of moves before
   them (`MachineCoalescing`), composed by `RegisterAllocation` and judged by `MachineExecution`.
3. *done* - modules, symbols and their verifier (`IRModule`), both serialization formats
   (`TextFormat`, `BinaryFormat`), composed with data sections and binding by `Serialization`; the compressed stream (`Compression`).
4. *done* - function bodies under construction and under edits (`IRFunction`), their analyses
   (`IRAnalyses`), and the batches, handles, cached analyses and passes over them (`IREditing`).
5. *done* - the SSA phase: form and rewriter (`SSAForm`), building, making conventional and
   destroying (`SSAConstruction`), copy propagation, dead code, loop
   invariants and pressure relief (`SSAOptimizations`), control-flow passes (`FlowPasses`), composed
   and judged by `SSAPhases`.
6. The post-allocation stages (combining, dead code) and frames, on the same machine functions and
   the same execution; the stage order of `MachineCompilation` with its observer.
7. BBV specialization and the fixed layout of block versions, composed with `BBVRuntime`.
8. The remaining passes (value numbering, combination, dead stores, inlining, block cloning) on the
   bodies of `SSAForm`, extended with memory locations and calls that have bodies.
9. Proofs. *Done*: the invariants, action properties and refinements of `CodeArena`, `BBVRuntime`,
   `ProgramLoad`, `NativeActivations`, `InterpreterFrames`, `IREditing` and `Compression`
   (section 4). Next: the parallel copies and locations of register allocation.


## 3. Modules, code and checks

Each detailed module keeps the names of the source (`reserve`, `publish`, `compile_native`,
`current_state`, `raw_frames`, ...). Where a definition is followed by a variant marked
"Faulty form", the variant is a plausible mistake in that code; substituting it makes TLC
report the property that is meant to catch it, so no property is vacuous. The consistency
properties are conjunctions of named parts, the type invariant among them: what holds
between any two steps, and where proofs start from.

| Property | Its parts besides the types |
|---|---|
| `IInv` | the inductive invariant of section 4 |
| `RuntimeConsistent` | `ArenaAccounted`: what is handed out is, page by page, what one compiled block occupies or one block to be published holds; `StagesStored`: a stage finds what earlier ones stored |
| `LoadConsistent` | `AddressesByPhase`: the address of every symbol is what the order of phases gives it; `ProgressByPhase`: code, links and captured addresses keep pace with the phases; `BoundaryOnce`: addresses that leave the program lead through exactly one native boundary; `JumpTargetsReady`: whenever user code runs, lazy functions that can be jumped to have their code |
| `ThreadConsistent` | `PointersSaved`: what each activation saved is what its end must restore; `BodiesGuarded`, `ErrorsOrdered`; `BudgetShared`: the depth of calls is counted once over both engines |
| `FramesConsistent` | `BlocksIntact`: live stack blocks stay whole and apart; `MarksExact`: marks are exactly the open ones |
| `GraphExact` | `ReversePostorder`, `DepthCountsLoops`, `LoopsNest` |
| `LivenessExact` | `LiveInExact`, `DeathsExact`: against paths of the function, not against the equations |
| `FormatsReadBack` | `TextReadsBack`, `BinaryReadsBack` |
| `AnalysesFresh` | `AnalysesExact`: the analyses are what their definition over paths says |

### 3.1 Code memory: `CodeArena`, `CodeBatches` (run `code_memory`)

`CodeArena` models `CodeArena::create/reserve`, `CodeMemory::reserve`,
`CodeReservation::publish` and the destructors. A page is `<<region, page number>>`;
`perm`, `content` and `icache` are what the memory provider has made of it. `slot_layout`
is the arithmetic of the source with `SIZE_MAX` as the constant `SizeMax`, so the overflow
checks are real. `publish` is split at each provider call (`MakeWritable`, `Copy`,
`MakeExecutable`, `Restore`, `Flush`, `Return`), each of which may fail after it changed an
arbitrary part of the pages. `DropArena`, `Abandon` and `DropHandle` are the destructors in
any order.

`CodeBatches` is the promise: a batch is reserved, then published atomically with one
payload, then fetched unchanged until its last handle is gone. `KeepsPromise` is the
refinement.

Bounds: alignment 2 and page size 4 (16 and 4096 in the code), `SizeMax` 15, two batches, two
payloads (symmetric), and requests that fill a page, straddle two, are empty, contain a zero, or
fit only before rounding; arenas of 0, 9 and 14 bytes. Two batches suffice because the properties
relate at most two batches; the proofs remove the bound. Deadlock is not checked: when all
batches are consumed and all handles dropped, the system really is finished.

### 3.2 Block compilation: `BBVRuntime`, `LazyLinkage` (run `block_compilation`)

`BBVRuntime::compile` with a stack of activations, because the observer is user code that calls
`compile` and `label_address` again. One action per stage and one per failing stage; `Return`
includes the `Reset` guard of the source. `request`/`specialize` are the first-version policy
of `BBVState`: `Flow[b][p]` gives the edges of a block specialized for properties `p`.
The arena is reduced to a count of pages (its own correctness is 3.1).

`LazyLinkage` is the promise of every lazy gate, used here for blocks and in 3.3 for functions:
a unit is linked once, only by an activation that works on it, nobody works on it twice at a
time, and the answer of a call says whether the unit is linked.

Bounds: three blocks with a loop whose specialization depends on who asks first, an arena one page
short of all three, five attempts. Liveness (`CompileReturns`) assumes weak fairness of the stages
of a running compilation (straight-line code between calls) and that observers make finitely many
calls (the bound `MaxAttempts`); the code cannot promise it for an observer that reenters for ever.

### 3.3 Loading and function compilation: `ProgramLoad` (run `program_load`)

`LoadedProgram::load` as the sequence of its phases, `compile_native` as the activations within
it, and what `relocate`, `publish_entries` and `references` capture. The interesting state is
`address`: the kind of address each symbol has *now* (body, gate, code, entry, guard, host), and
`code`/`stored`: the addresses captured by relocated code and data. Programs are chosen in `Init`:
every mix of engines and import kinds for three symbols, with jumps, labels, expressions and
native entries on or off. Deadlock is not checked because a failed load is destroyed and has no
further step. Fairness: `WF(Load)` and `WF(Stage)` - loading and a compilation stage are
straight-line code that the host cannot suspend for ever.

### 3.4 Recovery and calls between engines: `NativeActivations`, `StructuredCalls` (run `native_activations`)

The control stack of one thread is explicit; `current_state`, the cached boundary frames and their
depth, the execution-error scope and `InvocationActivation::current_` are variables of their own,
changed only where the code saves and restores them. Recovery cuts the control stack where the
restored stack pointer points, so a wrong checkpoint is visible as a C++ frame that disappears.
`StructuredCalls` is the promise that C++ activations end one at a time, innermost first - the
only way their destructors run. Three programs (mixed, lazy without boundary, interpreted),
depth limit 2, a control stack of 8 and two errors: every shape of nesting that the properties
speak of (host in native in interpreter, boundary in invoke, two programs) fits in six frames.

### 3.5 Interpreter frames: `InterpreterFrames` (run `interpreter`)

The frames of one `InterpreterInvocation`: the segmented `InterpreterStack` (`allocate`, `save`,
`restore` with marks kept by address), the registered argument areas of variadic functions, the
instruction and depth budgets, calls, returns, jumps to labels and the unwinding of an error
through the destructors. The program is left open: at every step any instruction may come next
with any operand, so the properties hold for malformed programs that the interpreter must refuse
as well. The C++ allocator (`Places`) may hand out freed memory again but keeps a gap between two
blocks (its own header), which the code relies on when it compares addresses with the ends of
segments. Sizes are in units of 2 with segments of 4 (16 and 4096 in the code); the operands
0, 1 and 5 are an empty block, one that is rounded and one larger than a segment.

`MCInterpreterFrames` starts one of two programs: two frames with allocations and marks and no
variadics, or three frames with variadic calls from interpreted and native callers and no
allocations, sharing one `va_list` that may outlive its frame. The two parts share only the frame;
the theorems of `InterpreterFramesProofs` hold for programs that use both. Fairness is `WF(Run)`: the interpreter
loop is straight-line code. `BudgetShared` says that one budget is charged by all frames: what is
nested, registered or marked was paid for by an instruction of this invocation, nothing is given
back, and so the invocation ends. With a budget for each frame it would end as well, under a depth
limit, after up to limit-to-the-depth instructions; that is why the bound stands beside the
liveness.

### 3.6 Code generation: graph, coalescing, liveness, assignment, rewriting, edge spills

A machine function (`MachineFunctions`) is data: blocks of instructions that keep only what
allocation tells apart. The stages are operators on records, and `RegisterAllocation` is
`MachineCompilation` stepping through them: `StartScan`, `Scan` and `Coalesce` for functions with
moves, `StartLive`, `Liveness` (one action per round of the worklist), `LiveRanges`, `Assign` (one action per virtual register), `RewriteOperands`,
`SplitEdges`. Functions, the optimisation level and so the paths through the code are chosen in
`Init`; the first error ends the compilation as in `step`.

`MachineExecution` is not code of the repository. It runs the emitted code symbolically beside
the function: a place (hardware register or frame unit) holds *tokens*, halves of the current
value of a register of the function; branches go both ways. `CodeSound` asks, at every step,
that an operand's place holds the value that the function would read, and that instructions come
in the function's order. It is the only property that needs no knowledge of how allocation works,
and the one the stages exist for. Coalescing changes the function itself, so the code runs beside
the function as it was before: an erased move still copies its value there, to the place where the
value is (`Settle`), and merging two registers too many leaves a read without its value. A value bound to hardware is also an implicit operand of calls
and returns when it was written since a call last destroyed it (`implicit`). What is undefined in
the function may be anything.

| Module | Source | Notes |
|---|---|---|
| `MachineFunctions` | `MachineControlFlow::build`, `RegisterEffects.hpp`, `GraphAnalysis.cpp` | derived entry 0 and exit 1 as in the code; `RegisterAllocation` takes the steps of the analysis one at a time |
| `MachineCoalescing` | `Coalescing.cpp` | a pair of registers conflicts or not; the rings of merged registers are sets |
| `MachineLiveness` | `Liveness.cpp`, `LiveRanges.cpp` | without register pressure, which only heuristics read; the ranges before and after the compression of points are both kept |
| `MachineAllocation` | `Assignment.cpp` | slots in units of eight bytes |
| `MachineRewrite` | `RegisterRewrite.cpp`, `SpillEmitter.cpp`, `EdgeSpills.cpp` | far slots are those whose offset has no direct encoding (`NearUnits`); the edge editor's node and edge lists are one sequence of edges |

Bounds. One run, `register_allocation`, over three families of functions. *Graphs*: all functions
of up to three blocks with every terminator, and those of four with fallthrough, branch and return
whose last block returns or closes a loop - the smallest ones with nested, shared and irreducible loops and with blocks the entry does not reach;
the stages `BeginGraph` and `AnalyseGraph` take the algorithm one step at a time. *Shapes*: one
assignable register and two values in four blocks, because every decision of the assignment is
about a value that meets another one; seven shapes (straight, fork, loop, skip, crossing branches
with and without a read, exchange of the two values) at level 2, and the exchange, the
loop and the skip at levels 0 and 1 as well (3 is 2 for these stages). *Looped groups*: fourteen
instruction groups in sequences, the second in a loop, with a binding to a register that calls keep
and one to a register that they destroy, over wide, memory-backed and addressed values; moves are
merged in about seven hundred of them. Copies to and from the bound registers, alone and in chains in
which only an earlier member conflicts, come in functions without calls. The run states no fairness: the
stages are deterministic, TLC exhausts their steps, and a compiled function may run for ever.
Deadlock is not checked since a finished run and a failed compilation stop.

`copy_of_bound` shows why without calls: the conflict scan of coalescing does not see that a call
may read or write a bound register, so a copy of the bound value is merged with it and changes with
the callee (`findings` in `PROJECT.json`; a three-line program whose callee adds to the binding
returns different values from the interpreter and from native code). Three more inputs that the
passing run leaves out are known limits of the code: a call that itself reads a value bound to a
caller-saved register is followed, not preceded, by the save of that value
(`RegisterRewrite.cpp:262`); a bound caller-saved register that is live through a block with a call
that does not mention it makes compilation fail (`RegisterRewrite.cpp:456`); and a spilled
non-integer value stored at an address of two spilled registers runs out of temporaries
(`RegisterRewrite.cpp:281`). Indirect jumps occur only in functions without values, so placing code
for an edge at the start of the block in front of such a jump (`EdgeSpills.cpp:131`) is not covered.
### 3.7 Programs and their formats: `IRModule`, `TextFormat`, `BinaryFormat`, `Serialization` (run `serialization`)

`IRModule` is the container: a module is a record of sequences and a node its index. Operations of
`ir::Module` return the module afterwards and the node, 0 for an error, so that a failing
call can be compared with the state before it. `ProgramOk` is `Program::verify`, with the types of
operands; shapes of bodies are the subject of 3.9.

`TextFormat` and `BinaryFormat` write and read through the operations of `IRModule`, as the code
does. Text is a sequence of statements with tokens, binary a stream of tagged tokens with numbered
strings and numbers of the fewest bytes; no text is built character by character, but everything a
spelling *decides* is modelled: generated register, block and label names avoid those that are
taken, a name that cannot be spelled is replaced, a label line is a statement until the parser
attaches it. `FormatsReadBack` compares what was read with what was written up to the identities
that a format keeps: names, types, order of items, data bytes, section layout, code.
What the text format loses on purpose is excepted where the property says so: signatures of
imports, bindings of variables, read-only and literal-pool flags. A function whose last
block ends in a `jcall` is read back from text with a `ret` behind it and is excepted too. Spelling
of floating-point numbers, index scales, aliases and stack scopes are not in the model.

`Serialization` also lays the data of each module out in sections and binds every symbol to its
definition, as `ProgramImage` and the linker do. `VerifiedLinks` says what verifies also links, to the
one definition that is exported, with a signature that the caller agrees with - and where that is
not so. The verifier checks the target of a call only when it is a bare symbol (`IR.cpp:982` through
`symbol_operand`, 52-55). A target with a displacement is accepted whatever it names, a datum or a
function of another signature, and `ProgramImage.cpp:199-210` refuses the program. The
property is an equivalence: a verified program whose imports are all exported fails to link exactly
when a displaced call of it fails that check. Two of the scripts have such calls, one that links
and one that does not.

`FailureAtomic`: a call that fails leaves the module as it was. Calls of the client that make a
function and then write its body are several calls of `ir::Module`; when a later one of them fails, exactly
the function, its symbol, its item and the valid instructions in front of the refused one are there.

Bounds: scripts of one or two modules - self call, prototype and block arguments, expression
data, tail call, displaced calls, imports with and without a signature, forward declarations - over two names, each
followed by two arbitrary calls (declare, define, export, write and read back). Wire bytes have four
values and wide numbers three bytes, so that one-byte forms, sign changes and every width occur.

### 3.8 Compressed streams: `Compression` (run `compressed_stream`)

`Compression.cpp` position by position: hash chains with reuse of the oldest entry of the table,
literals collected up to their limit, the choice of the longest reference, block ends and the
checksum; then the stream tag by tag, as written or with one byte damaged. Distances count *items*
and not bytes, and the two sides must number them alike: `RoundTrip`. `DecoderBounded` says
that the decompressor stays inside its block and its item table and respects its limit for damaged
streams too. All limits are scaled: tags have two bits for each of their counts, blocks ten bytes,
the table three entries, the shortest match two bytes. Inputs: all two-valued sequences up to eleven bytes (one
more than a block), all three-valued ones of six and counting ones of seven to twelve, which
overflow the literal count.

### 3.9 Editing functions: `IRFunction`, `IRAnalyses`, `IREditing` (run `ir_editing`)

`IRFunction` is a body under the calls of `ir::Function`, `ProgramEditor` and `InstructionBuilder`.
A node is an address, which the code compares, with a generation, which it does not know; freed
addresses are used again at once, so a stale pointer meets a new node in the model as it may in
the program. `IRAnalyses` has control flow, graph, dominators, liveness, loops and register uses.
`IREditing` puts two batches, kept handles, the analysis cache with its three revisions and
a pass together.

- `HandlesExact`: a handle resolves exactly while the node it was made for is in the body, whichever
  batch erased it and whatever got its address later;
- `StatusMeansVerified`: a program without an error and without open batches holds a body that
  verifies, however the edits of overlapping batches interleaved;
- `AnalysesFresh`: an entry the cache would return is what its analysis would compute now, and
  what the analyses compute agrees with paths through the body;
- `FailureQuiet`: a call that fails writes no instruction and no register, and after a failure no
  call of any batch does (a refused jump may leave the label that it made for its target). There
  is one exception and the property states it. `create_store_lane` checks its store before it
  extracts the lane (`Builder.cpp:2657-2670`); `create_load_lane` (2637-2647) writes its load first,
  and when the vector it inserts into lives in memory the insertion is refused (`IR.cpp:949-952`): the
  load and its register stay, and nothing else.

What the model shows of the code and a reader may not expect: the error of a batch is the error of the
program for good, so a call on a finished batch, or a `finish` that fails while another batch is
open, makes every later batch fail. `Builder.cpp:868` and the block given to `move_before`
check who owns a handle but not whether it was erased (compare `owns` at 248-262): a call that goes
through such a handle sets `stale` and the session ends there, since nothing can be said of the program
any more; the hazard is listed.
Tracking of erased nodes starts at the first handle; label handles can be held at any time.

Bounds: a diamond, a loop, an indirect jump, a small body with a kept handle, the same with two
overlapping batches, and an empty function under construction; up to three calls that write
and two on the cache, two registers of which one is bound. The batches are symmetric. Deadlock is
not checked: a session may be over.

### 3.10 The optimizer's SSA phase: `SSAForm`, `SSAConstruction`, `SSAOptimizations`, `FlowPasses`, `SSAPhases` (run `ssa_passes`)

`SSAForm` keeps the body of `IRFunction` and beside it values, the sites they are read at
and phis, with every call of the rewriter and the verifier. The passes are operators from a form
to `[ok, s]`, composed of those calls in the order of the source. `SSAPhases` lets a client run
the passes in any order, or write by hand.

- `EditsVerify`: what the rewriter accepts the verifier accepts, once every phi has its inputs, with
  one exception that the property states. `rename(value, reg, true)` leaves the operands of `addr`
  instructions alone (`SSA.cpp:468-470`), and the verifier takes there the first or the present
  register of the value (212-214). An address that names a register the value had in between - one
  made after a rename, then kept over the next - is refused, so `SSA.hpp:223` ("All SSA edits update
  canonical operands and both directions of def-use edges") is not quite so. The property says
  that these addresses start with such a rename and that nothing else in the form is wrong;
- `SourceKept`: after any passes the function shows its callees and its caller what the
  source showed, for all arguments. `BodyShows` and `FormShows` run both: by value in the SSA phase (phis take
  their values all at once), by register outside of it;
- `StoredGraphExact`: the graph that jump optimization keeps by itself and stores is the graph
  of the function.

Instructions have at most two sources and arithmetic is modulo 4, which tells apart any two
expressions of the instance; strength reduction and extension are one case each. A pass that
is run in the wrong phase refuses and changes nothing. Handles of the rewriter are abstracted, and a
client makes each initial value once. Graph updates are checked for jump optimization, the one
pass that stores its own graph.

Flaws of passes that are known are recorded in `exposed` when a function meets one. `SourceKept`
speaks of the functions that have not: it catches what else goes wrong with the source's meaning, not these.
The first three are confirmed on the library, the fourth was read off the source:

1. a phi that the branch of its own block reads is replaced by the register its next value is
   copied to in front of that branch (`SSA.cpp:324-329`; run `conventional_copies`, finding);
2. loop motion hoists a user outside of the loop past the definitions of its other operands
   (`Motion.cpp:231-241`);
3. loop motion hoists an `addo` away from its `bo`, and the optimizer fails with "overflow branch
   has no preceding overflow instruction" (`Motion.cpp:144`);
4. copy propagation of a value that was copied out of a register that lives in memory makes an
   instruction read that register, which `validate_instruction` refuses: the pass fails
   (`CopyPropagation.cpp:137`).

Bounds: all loops of two instructions out of eight kinds around a counter, joins with a jump to a
jump, guarded loops, an overflow branch, an untidy body for the control-flow passes and
bodies for hand-written edits, among them one with an address of a register, one with two names
for a value, one whose register lives in memory (its storage is materialized) and one with the
address of a label; nine passes, each at most once, in any order. Nested loops are not in
the instance.

### 3.11 Runs

| Run | Shows | Properties |
|---|---|---|
| `code_memory` | Reservations, publications whose provider calls fail half way, retries with other bytes, abandonment and destruction never disturb published code, and together implement the atomic publication of CodeBatches. | `PublishedIntact`, `IInv`, `PublishedStable`, `KeepsPromise` |
| `block_compilation` | Block compilation on demand, with failures in every stage, reentrant observers and an arena too small for all blocks: gates lead to cold paths or to finished code, nothing leaks, every call returns, and the whole implements LazyLinkage. | `GateLeadsToCode`, `RuntimeConsistent`, `FirstVersionStable`, `CompileReturns`, `KeepsLinkage` |
| `program_load` | Every mix of engines and imports over three symbols is loaded with failures at every phase: what native code and data captured is final, protected once and lands at its callee, nothing is unresolved after binding, and functions compiled lazily, while loading or after it, implement LazyLinkage. | `CallsLand`, `CapturedFinal`, `LoadConsistent`, `LoadEnds`, `KeepsLinkage` |
| `native_activations` | Three programs with different engines call each other on one thread, through sessions, raw addresses, entries and callbacks, and fail anywhere: the thread's pointers always describe its control stack, recovery skips no C++ frame, errors reach the call they belong to and depth budgets are shared. | `ThreadConsistent`, `FirstErrorKept`, `RecoverySafe`, `KeepsStructure` |
| `interpreter` | Two frames allocate, mark and restore in any order in memory that the allocator reuses; three nested frames share one va_list that may outlive its frame: live blocks stay whole, marks and areas are exactly those still open, labels never move a frame into another function, and one budget, charged in whichever frame an instruction runs, pays for all that is nested and ends every invocation. | `FramesConsistent`, `VaReadsLive`, `BudgetShared` |
| `register_allocation` | Compilation from the graph analysis to the run of the emitted code over every small control flow, two values competing for one register on seven families of control flow, and sequences of instruction groups over wide, bound, memory-backed and addressed values: every stage keeps what the next one relies on, and the code finds every value where it looks for it on every path. | `GraphExact`, `LivenessExact`, `ConflictsKept`, `LocationsDisjoint`, `CodeSound`, `StagesAgree` |
| `copy_of_bound` | (violation) A copy of a bound value is merged with it, although a call between the copy and its use may change the bound register. | `CodeSound` |
| `serialization` | A client builds programs of one or two modules call by call, writes and reads them in both formats in between: the symbol table stays exact, failing calls change nothing, every verified program is read back with the same meaning and data layout, and what verifies links. | `TableExact`, `FailureAtomic`, `FormatsReadBack`, `VerifiedLinks` |
| `compressed_stream` | Every short input is compressed position by position and its stream decompressed tag by tag, as written and damaged in one place: undamaged streams give the input back under a sufficient limit, and no stream drives the decompressor out of its buffers. | `RoundTrip`, `DecoderBounded` |
| `ir_editing` | Two overlapping batches and passes build and rewrite a diamond, a loop, an indirect jump and a function from nothing, with handles kept across edits and six analyses cached and invalidated by revision. | `HandlesExact`, `StatusMeansVerified`, `AnalysesFresh`, `FailureQuiet` |
| `ssa_passes` | Eighty loops, joins and untidy bodies go through nine passes in every order a client can choose, and clients rewrite or build SSA forms by hand with all calls of the rewriter. | `EditsVerify`, `SourceKept`, `StoredGraphExact` |
| `conventional_copies` | (violation) A loop whose branch tests the counter as it was before this turn: after copy propagation the branch reads the phi itself, and the copy for the next turn is placed in front of it in the same register. | `OptimizedAsWritten` |


## 4. Theorems

TLC checks one small instance; the theorems hold for every value of the constants that the named
assumptions of the modules allow (`PageAssumption`, `SizeAssumption`, `BlocksAssumption`,
`ProgramAssumption`, `NoneAssumption`, `StackAssumption`, `StartAssumption`, `TemplateAssumption`, `InputAssumption`: types, finiteness, and what the code itself
guarantees, such as an alignment that divides the page size).

| Proof module | Theorem | Statement |
|---|---|---|
| `CodeArenaProofs` | `LayoutCorrect` | `slot_layout` gives aligned slots, in order and apart, for every request it accepts |
| | `Invariance`, `TypeCorrect` | `Spec => []IInv`, `Spec => []TypeOK` |
| | `NoSharedPage`, `CopyNeverFaults` | `Spec => []ReservationsDisjoint`, `Spec => []CopyIsAllowed` |
| | `CodeIntact`, `CodeStable` | `Spec => []PublishedIntact`, `Spec => PublishedStable` |
| | `PromiseKept` | `Spec => KeepsPromise`: `CodeArena` implements `CodeBatches` |
| `BBVRuntimeProofs` | `Invariance` | `Spec => []IInv` |
| | `TablesConsistent`, `GatesLeadToCode` | `Spec => []RuntimeConsistent`, `Spec => []GateLeadsToCode` |
| | `FirstVersionKept` | `Spec => FirstVersionStable` |
| | `LinkageKept` | `Spec => KeepsLinkage`: `BBVRuntime` implements `LazyLinkage` |
| `ProgramLoadProofs` | `Invariance` | `Spec => []IInv` |
| | `CapturedAddressesFinal`, `LoadStaysConsistent`, `CallsArrive` | `Spec => []CapturedFinal`, `[]LoadConsistent`, `[]CallsLand` |
| | `LinkageKept` | `Spec => KeepsLinkage`: `ProgramLoad` implements `LazyLinkage` |
| `NativeActivationsProofs` | `Invariance` | `Spec => []IInv` |
| | `PointersDescribeStack`, `FirstErrorReported`, `RecoveryLandsSafely` | `Spec => []ThreadConsistent`, `[]FirstErrorKept`, `[]RecoverySafe` |
| | `StructureKept` | `Spec => KeepsStructure`: `NativeActivations` implements `StructuredCalls` |
| `InterpreterFramesProofs` | `Invariance` | `Spec => []IInv` |
| | `FramesStayConsistent` | `Spec => []FramesConsistent` |
| | `ReadsLive` | `Spec => VaReadsLive` |
| `IREditingProofs` | `EditingHolds` | `Spec => []EditingInv` |
| | `ResolvesExactly`, `StatusHolds` | `Spec => []HandlesExact`, `Spec => []StatusMeansVerified` |
| | `FailuresAreQuiet` | `Spec => FailureQuiet` |
| `CompressionProofs` | `CompressionHolds` | `Spec => []CompressionInv` |
| | `StaysBounded`, `ReadsBack` | `Spec => []DecoderBounded`, `Spec => []RoundTrip` |

**Code memory.** None of the properties is inductive. `IInv` adds what the code relies on without
saying so: batches of the arena follow one another below `used_` in whole pages and private
mappings have regions of their own (`BatchLayout`); how far the publication in progress has
brought its pages (`PublishProgress`); consumed reservations are executable, coherent and of one
payload (`PublishedBatches`, without a live handle too, because a handle may still be copied);
handles belong to consumed reservations (`HandlesOfPublished`); the region of a future mapping is
unused (`FreshRegions`). TLC checks `IInv` as an invariant of `code_memory`. `LayoutCorrect` is an
induction over the requested sizes and frees the rest from any assumption about requests. For
`PromiseKept` a batch is seen as its owners see it; a provider call inside a publication does not
change that view, the return of the publication is the abstract `Publish`.

**Lazy blocks.** `GateLeadsToCode` becomes inductive together with `RuntimeConsistent`: a block is
compiling exactly while one activation works on it; the edges of an encoded block were remembered
before its artifact was stored; an activation past a stage finds that stage's result, its own or
an earlier attempt's (`StagesStored`); every page handed out belongs to one block
(`ArenaAccounted`), so that publication overwrites nobody's code. `request` folds over the edges of
a block, and that it takes no version away is an induction over them. The two parts are the
invariants of `block_compilation`.

**Loading.** The heart of `IInv` is `AddressesByPhase`: a closed form of the address of every
symbol when a given phase of `load` is next. With it the question "was the address that relocation
captured final?" no longer depends on the order of actions. `ProgressByPhase` says what was
published, linked and captured at that time, failed loads included; `CapturedFinal` is inductive
with them, `CallsLand` and the rest of `LoadConsistent` follow, except `DirectJumpsStay`, which the
step that relocates keeps on its own.

**Recovery.** The hardest part is the control stack, which shrinks at any depth. `IInv` says that
each saved pointer is the one its activation must restore: checkpoints of invocations and raw
frames of boundaries (`CheckpointInnermost`, `PointersSaved`), scopes and interpreters, as chains
through the stack; that native code with a boundary has its own checkpoint directly below it
(`BodiesGuarded`); that errors of inner scopes are later than those of outer ones
(`ErrorsOrdered`); and that the depth kept in the outermost interpreter of a program counts its
interpreters. These parts are the ones TLC checks in `ThreadConsistent`; the proof adds the bounds
of the instance, and that a boundary is never innermost. Each part is proved for a push, a pop and
a change of counters; the actions are then made of those. `InvocationActivation::find`, which
follows saved pointers down the stack, is shown by induction to find the one invocation that all
interpreters of a program share. For `StructureKept` the C++ activations are what remains of the
stack without native bodies and boundaries.

**Interpreter frames.** What the segmented stack promises follows from one description of it, `Laid`:
the allocations and marks of a frame, in the order in which they were made, follow one another
down its segments without a hole. `home` says in which segment each of them lies: it never
decreases, entries of one home touch (`Homes`, `Filled`), every segment but the first has a block,
and the mark table holds exactly the marks of the log, each with its segment and cursor
(`Marked`). Each of the three operations is brought to a form that names what changes: `allocate`
and `save` append one entry at the bottom (`Extended`), `restore` cuts the log at a mark, and with
it segments and table (`Cut`). That `restore` drops the right marks needs that a mark is older
exactly when it lies further up (`MarksOlder`), that it finds the last mark at an address that
there is only one (`MarksDistinct`), and both need the gap that the allocator leaves between
segments (`Apart`, `AllApart`). `StackAccounted` is the sum of the blocks of a segment, by
induction over the log. For the variadic lists the invariant adds that a later frame found at
least as much registered as an earlier one (`Steady`), so that a frame that ends removes its own
entry and no other; it also holds that the first frame is no `JRET` body, without which a `JRET`
might find no caller. The theorems cover programs that mix allocations with variadic calls, of any
depth, which the two programs of the run keep apart.

**Editing.** A handle is an address and a revision, and addresses are used again: `HandlesExact` says
that the log of erasures is enough to tell. It becomes inductive in `EditingInv` with three facts
about the body and two about its users. Every block, label and instruction is a node in one place,
and no two have one address (`Clean`); what the log says of an address is older than the node that
has it now, and not younger than the body (`LogSound`); erasures are logged from the first handle
on. Every handle tells the truth about its node and its kind (`HandleSound`), and a batch inserts at
a node that, while it is in the body, is a block (`BatchSound`): otherwise a call through a kept
position could write into another kind of node. Each operation of `IRFunction` is shown `Sound`: it
keeps all nodes and makes only new ones (`Grows`), or what it takes away is logged with the revision
it publishes (`Shrinks`), or it refuses and changes nothing. Both shapes preserve the invariant, once
for all operations; per operation there remains what it does to the sequences of blocks, labels and
instructions, the loop of `separate_labels` and the erasures of lists by induction. From `Sound` follows
`FailureQuiet` too, where jumps are the case to look at: a refused one leaves a label, but no
instruction and no register. A lane load that is refused at its insertion is the one operation that is not
`Sound`: it is `Sound` up to its load, which is what `LoadLeft` says is left (`SoundOrLoad`, `LanesSound`).
`StatusMeansVerified` needs that the program knows every error of an open
batch (`ErrorInv`); overlapping batches can then close in any order, because only the last one open may
succeed, and only over a body that verifies. The theorems hold for every number of batches, bodies
of any size, any instructions without labels that clients write and any length of the session.

**Compressed streams.** `DecoderBounded` is about any bytes, so its proof needs of the stream only
that it consists of numbers; that is the part `EncoderSound` of `CompressionInv`. It holds because
the literals, runs and distances the compressor writes are not larger than a block, which
`SizeAssumption` lets a number hold: a pending literal or a match lies in the block, an entry of the
table is older than the item at hand. `DecoderSound` adds types to `DecoderBounded`; between
the literals of a tag and the end of it the block may be full, so the parts of a tag are shown to
keep `Sound`, which allows that, and `Roll` restores the strict bound. Hash, search and number
reading are loops, recursive functions here, whose results are typed by induction (`LoopExists`,
`LoopStays`); that a power of two is a positive number follows from counting subsets. The theorems
hold for every size of a byte, a block, the table and the limits, all inputs, and every damage.

`RoundTrip` (`ReadsBack`) relates two programs that never run at the same time, so its invariant
`RoundInv` says at every step of the compressor what a decompressor would make of the stream:
`Follows` - whatever bytes are appended later, a decompressor with any limit reaches (`Reaches`,
a finite run of `DecodeStep`) the state `Current`, which has read all but the pending literals, or
has refused because the earlier blocks exceed its limit. `Recorded` holds what ties the two sides
together: the output of the earlier blocks, the checksum before this block, and the position of
every item as the compressor numbers them, to which each entry of the table points. Each thing
that is written is read back on its own - a number (`NumberReadsBack`, by induction over its
bytes), literals (`LiteralsReadBack`), a tag (`FlushReadsBack`), a reference
(`ReferenceReadsBack`) - and each action of the compressor extends the run by at most one tag
(`LiteralFollows`, `ReferenceFollows`, `EndBlockFollows`, `NextBlockFollows`). A reference is right
because a candidate of the search repeats bytes at the position of a table entry (`Candidate`), the
record of positions maps its item number to that position on both sides, and the bytes copied are
those that follow (`RunCopied`). `FinishAnswers` closes the stream; the steps of the decompressor
then follow the run that exists. The proof does not use that the match
found is the longest or the cheapest, and of the hash only that it is a function with its range. `RoundInv` speaks of all later
bytes and of runs of any length and is not evaluated by TLC; the run `compressed_stream` checks
`RoundTrip` itself.

**Induction.** `InductionFacts` proves two facts that the others use: `CountsUp` (a set that holds
0 and is closed under successor below `N` holds `0..N`) and `RecursionExists` (a recursion over
`0..N` has a solution). They are stated with sets and functions in place of predicates, which the
provers cannot instantiate, and follow from the well-foundedness of the subsets of a finite set.
What loops and pointer chains of the models compute is proved with them.
## 5. What is only model-checked, and what is not modelled

Proved for all constants: every safety property, action property and refinement of code memory,
block compilation, loading, recovery, interpreter frames and compressed streams, and all but
`AnalysesFresh` of editing. The properties of the other runs are checked by TLC on the instances of
section 3. What stays with TLC because the prover cannot reach it: liveness
under fairness (`CompileReturns`, `LoadEnds`, the last part of `BudgetShared`), and everything in or above the
modules that declare `RECURSIVE` operators, which the prover's arithmetic backend does not accept:
`BinaryFormat` and with it `Serialization`; `SSAConstruction`, `SSAOptimizations`, `FlowPasses`, and
with them `SSAPhases`. The properties of the allocation modules and `AnalysesFresh` of
`IREditing` compare whole algorithms - data-flow solutions, emitted code - with definitions over
paths or executions; they are checked over families of functions instead.

Not modelled, with reasons: instruction selection, encoding and target tables (constant data
without state), the arithmetic of the interpreter (pure functions at full width), value numbering,
combination, vectorization and inlining (they are about instructions the bodies here do not
have), tools and benchmarks, and whatever section 2 lists as not yet done. `PROJECT.json` names
every component with its status; hazards that no property covers, wholly or in part, carry a note: pages
of an unpublished reservation that stay open when the provider fails twice (`CodeMemory.cpp:153-154`),
for example, are what the code does, and no property says otherwise. The map lists the
definition that stands for a stretch of code; a helper inside that stretch has no row of its own.
