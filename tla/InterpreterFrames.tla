------------------------- MODULE InterpreterFrames -------------------------
(***************************************************************************)
(* The frames of one interpreter invocation: InterpreterFrame and          *)
(* InterpreterStack, the control part of InterpreterFrame::run, and        *)
(* InterpreterInvocation::invoke.  What the interpreted program computes   *)
(* is left open: at each step any instruction may come next, with any      *)
(* operand.                                                                *)
(*                                                                         *)
(* Addresses are numbers.  A frame's stack is a list of segments of memory *)
(* from the C++ allocator, which reuses what was freed.  log records, for  *)
(* the properties, the allocations and marks of a frame since it began, in *)
(* the order in which they were made and without those a restore released. *)
(***************************************************************************)
EXTENDS Integers, Sequences, FiniteSets

CONSTANTS Unit,              \* stack allocations are multiples of it: 16
          SegmentSize,       \* least size of a segment: 4096
          Bodies,            \* prepared functions
          JumpBodies,        \* those that return through JRET
          Programs           \* what an invocation may meet

\* A program has memory: addresses the allocator may hand out; sizes: operands
\* of ALLOCA; arguments: sizes of arguments passed in memory, -1 for none;
\* unnamed: numbers of unnamed arguments, -1 for a fixed function; callers: who
\* calls variadic functions ("interpreted", "native"); instructions and depth:
\* instruction_limit and call_depth_limit.

ASSUME StackAssumption ==
  /\ Unit \in Nat \ {0}
  /\ SegmentSize \in Nat \ {0}
  /\ SegmentSize % Unit = 0
  /\ JumpBodies \subseteq Bodies
  /\ \A p \in Programs :
       /\ p.instructions \in Nat \ {0}
       /\ p.depth \in Nat \ {0}
       /\ p.memory \cup p.sizes \subseteq Nat
       /\ p.arguments \subseteq p.sizes \cup {-1}
       /\ p.unnamed \subseteq Nat \cup {-1}
       /\ p.callers \subseteq {"interpreted", "native"}

VARIABLES
  program,           \* what is interpreted, and under which limits
  frames,            \* active frames, innermost last
  variadic_areas,    \* argument areas of the invocation: [area, capacity]
  native_variadics,  \* native argument lists of the invocation
  list,              \* a va_list in memory that every frame can reach
  steps,             \* instructions executed by the invocation
  failing            \* an error is on its way to the caller of the invocation

vars == <<program, frames, variadic_areas, native_variadics, list, steps, failing>>

Memory == program.memory
Sizes == program.sizes
InstructionLimit == program.instructions
DepthLimit == program.depth

Areas == 1..DepthLimit
NoArea == [origin |-> "none", area |-> 0, at |-> 0]

\* segments, marks: InterpreterStack.  body, pc: the function, and the function
\* whose code the program counter points into.  unnamed: unnamed arguments, or -1
\* in a function that is not variadic.  native: its list comes from native code.
\* area: the memory of the vector variadics, 0 while it is empty.
\* regions, natives: region_depth and native_depth.
Frame(body, unnamed, native, id) ==
  [segments |-> <<>>, marks |-> <<>>, log |-> <<>>, body |-> body, pc |-> body,
   unnamed |-> unnamed, native |-> native, id |-> id, area |-> 0,
   regions |-> Len(variadic_areas), natives |-> Len(native_variadics)]

Top == frames[Len(frames)]
SetTop(f) == frames' = [frames EXCEPT ![Len(frames)] = f]

-----------------------------------------------------------------------------
(* The segmented stack.                                                    *)

RoundUp(n) == ((n + Unit - 1) \div Unit) * Unit

SegmentFor(rounded) == IF rounded > SegmentSize THEN rounded ELSE SegmentSize

LiveSegments ==
  UNION {{f.segments[i] : i \in DOMAIN f.segments} : f \in {frames[j] : j \in DOMAIN frames}}

\* Where the allocator may place n bytes: it keeps its own data between blocks,
\* so that no block begins where another one ends.
Places(n) ==
  {b \in Memory : \A s \in LiveSegments : b + n < s.base \/ s.base + s.size < b}

NeedsSegment(f, rounded) ==
  f.segments = <<>> \/ f.segments[Len(f.segments)].cursor < rounded

Opened(f, n, base) == [f EXCEPT !.segments = Append(@, [base |-> base, size |-> n, cursor |-> n])]

Cursor(f) == f.segments[Len(f.segments)].base + f.segments[Len(f.segments)].cursor

\* allocate on frame f, with base as the place of a new segment.
allocate(f, size, base) ==
  LET rounded == RoundUp(size)
      ready == IF NeedsSegment(f, rounded)
               THEN Opened(f, SegmentFor(rounded), base)
               ELSE f
      moved == [ready EXCEPT !.segments[Len(ready.segments)].cursor = @ - rounded]
  IN  IF size = 0 THEN moved
      ELSE [moved EXCEPT !.log = Append(@, [kind |-> "block", address |-> Cursor(moved), size |-> size])]

Marks(log, address) == {i \in DOMAIN log : log[i].kind = "mark" /\ log[i].address = address}

\* save: the mark of an address is the number of segments and the cursor.
save(f, base) ==
  LET ready == IF f.segments = <<>> THEN Opened(f, SegmentSize, base) ELSE f
      mark == [segments |-> Len(ready.segments),
               cursor |-> ready.segments[Len(ready.segments)].cursor]
      address == Cursor(ready)
  IN  [ready EXCEPT !.marks = [a \in DOMAIN @ \cup {address} |-> IF a = address THEN mark ELSE @[a]],
                    !.log = IF Len(@) \in Marks(@, address) THEN @
                            ELSE Append(@, [kind |-> "mark", address |-> address, size |-> 0])]

\* The marks that survive the restoration of mark.
Older(m, mark) ==
  ~(m.segments > mark.segments \/ (m.segments = mark.segments /\ m.cursor < mark.cursor))

\* The log up to the last mark at address: what a restore must leave.
Since(log, address) ==
  SubSeq(log, 1, CHOOSE i \in Marks(log, address) : \A j \in Marks(log, address) : j <= i)

\* restore, for an address that has a mark.
restore(f, address) ==
  LET mark == f.marks[address]
      kept == {a \in DOMAIN f.marks : Older(f.marks[a], mark)}
  IN  [f EXCEPT !.marks = [a \in kept |-> @[a]],
                !.segments = [SubSeq(@, 1, mark.segments) EXCEPT ![mark.segments].cursor = mark.cursor],
                !.log = Since(@, address)]

-----------------------------------------------------------------------------
(* Calls and returns.                                                      *)

Init ==
  /\ program \in Programs
  /\ frames = <<>>
  /\ variadic_areas = <<>>
  /\ native_variadics = <<>>
  /\ list = NoArea
  /\ steps = 0
  /\ failing = FALSE

\* The innermost frame executes an instruction: it is in its loop, and the budget
\* of the invocation is charged before anything else.
Fetch ==
  /\ frames # <<>>
  /\ ~failing
  /\ steps < InstructionLimit

Step == Fetch /\ steps' = steps + 1

\* Ids of native argument lists that are alive: each has its own register area.
NativeIds == {native_variadics[i].area : i \in DOMAIN native_variadics}

\* invoke up to run: the depth is checked, and initialize records a native list
\* and copies block arguments to the stack of the new frame.
Enter(body, unnamed, native, block, base) ==
  /\ Len(frames) < DepthLimit
  /\ native => unnamed >= 0
  /\ LET id == IF native THEN CHOOSE n \in Areas : n \notin NativeIds ELSE 0
         frame == Frame(body, unnamed, native, id)
     IN  /\ frames' = Append(frames, IF block \in Sizes THEN allocate(frame, block, base) ELSE frame)
         /\ native_variadics' = IF native THEN Append(native_variadics, [area |-> id])
                                ELSE native_variadics

\* A new frame, with at most one argument passed in memory.
NewFrame(bodies) ==
  \E body \in bodies, unnamed \in program.unnamed, caller \in program.callers,
     block \in program.arguments :
    \E base \in IF block \in Sizes THEN Places(SegmentFor(RoundUp(block))) ELSE {0} :
      Enter(body, unnamed, caller = "native", block, base)

\* The host or native code starts an invocation.
Start ==
  /\ frames = <<>>
  /\ ~failing
  /\ NewFrame(Bodies \ JumpBodies)
  /\ steps' = 0
  /\ UNCHANGED <<variadic_areas, list, failing>>

\* Faulty form: a frame starts with a budget of its own.
CallFresh ==
  /\ Fetch
  /\ NewFrame(Bodies)
  /\ steps' = 0
  /\ UNCHANGED <<variadic_areas, list, failing>>

\* CALL, INLINE and JCALL of an interpreted function.
Call ==
  /\ Step
  /\ NewFrame(Bodies)
  /\ UNCHANGED <<variadic_areas, list, failing>>

\* Faulty form: the areas of the frame stay registered.
LeaveRegistered ==
  /\ frames' = SubSeq(frames, 1, Len(frames) - 1)
  /\ native_variadics' = SubSeq(native_variadics, 1, Top.natives)
  /\ UNCHANGED variadic_areas

\* ~InterpreterFrame.
Leave ==
  /\ frames' = SubSeq(frames, 1, Len(frames) - 1)
  /\ variadic_areas' = SubSeq(variadic_areas, 1, Top.regions)
  /\ native_variadics' = SubSeq(native_variadics, 1, Top.natives)

\* RET: a function called by JCALL must not end with it.
Ret ==
  /\ Step
  /\ Leave
  /\ failing' = (Top.body \in JumpBodies)
  /\ UNCHANGED list

\* JRET to a label of the function target: it must be one of the caller's.
JRet(target) ==
  /\ Step
  /\ Top.body \in JumpBodies
  /\ LET caller == frames[Len(frames) - 1]
     IN  /\ frames' = [SubSeq(frames, 1, Len(frames) - 1)
                         EXCEPT ![Len(frames) - 1].pc = IF target = caller.body THEN target ELSE @]
         /\ failing' = (target # caller.body)
  /\ variadic_areas' = SubSeq(variadic_areas, 1, Top.regions)
  /\ native_variadics' = SubSeq(native_variadics, 1, Top.natives)
  /\ UNCHANGED list

\* An instruction fails - an operand, the callee, a protected address, the depth
\* limit - or the budget is used up: run returns an error.
Fail ==
  /\ frames # <<>>
  /\ ~failing
  /\ failing' = TRUE
  /\ steps' = IF steps < InstructionLimit THEN steps + 1 ELSE steps
  /\ Leave
  /\ UNCHANGED list

\* The caller's CALL fails as well, up to the one who started the invocation.
Unwind ==
  /\ failing
  /\ IF frames = <<>>
     THEN failing' = FALSE /\ UNCHANGED <<frames, variadic_areas, native_variadics>>
     ELSE failing' = TRUE /\ Leave
  /\ UNCHANGED <<list, steps>>

-----------------------------------------------------------------------------
(* Instructions.                                                           *)

\* Arithmetic, memory, branches.
Compute ==
  /\ Step
  /\ UNCHANGED <<frames, variadic_areas, native_variadics, list, failing>>

Alloca(size) ==
  /\ Step
  /\ \E base \in IF NeedsSegment(Top, RoundUp(size))
                 THEN Places(SegmentFor(RoundUp(size)))
                 ELSE {0} :
       SetTop(allocate(Top, size, base))
  /\ UNCHANGED <<variadic_areas, native_variadics, list, failing>>

BStart ==
  /\ Step
  /\ \E base \in IF Top.segments = <<>> THEN Places(SegmentSize) ELSE {0} :
       SetTop(save(Top, base))
  /\ UNCHANGED <<variadic_areas, native_variadics, list, failing>>

\* An address without a mark makes the instruction fail (Fail).
BEnd(address) ==
  /\ Step
  /\ address \in DOMAIN Top.marks
  /\ SetTop(restore(Top, address))
  /\ UNCHANGED <<variadic_areas, native_variadics, list, failing>>

\* start_variadics: the unnamed values are laid out once, in memory of the frame.
VaStart ==
  /\ Step
  /\ Top.unnamed >= 0
  /\ IF Top.native
     THEN /\ list' = [origin |-> "native", area |-> Top.id, at |-> 0]
          /\ UNCHANGED <<frames, variadic_areas>>
     ELSE IF Top.area # 0
     THEN /\ list' = [origin |-> "area", area |-> Top.area, at |-> 0]
          /\ UNCHANGED <<frames, variadic_areas>>
     ELSE \E area \in Areas \ {frames[i].area : i \in DOMAIN frames} :
            /\ SetTop([Top EXCEPT !.area = area])
            /\ variadic_areas' = Append(variadic_areas, [area |-> area, capacity |-> Top.unnamed])
            /\ list' = [origin |-> "area", area |-> area, at |-> 0]
  /\ UNCHANGED <<native_variadics, failing>>

\* Faulty form: the end of the area is not checked.
InsideOpen == \E i \in DOMAIN variadic_areas : variadic_areas[i].area = list.area

\* inside: the next value lies in an area of the invocation.
Inside ==
  \E i \in DOMAIN variadic_areas :
    variadic_areas[i].area = list.area /\ list.at + 1 <= variadic_areas[i].capacity

\* VA_ARG and VA_BLOCK_ARG on a list that is native, or inside an area.
VaArg ==
  /\ Step
  /\ IF list.origin = "native" THEN list.area \in NativeIds ELSE list.origin = "area" /\ Inside
  /\ list' = [list EXCEPT !.at = IF list.origin = "native" THEN 0 ELSE @ + 1]
  /\ UNCHANGED <<frames, variadic_areas, native_variadics, failing>>

\* An indirect jump to a label of this function; to another one it fails.
JmpIndirect(target) ==
  /\ Step
  /\ target = Top.body
  /\ SetTop([Top EXCEPT !.pc = target])
  /\ UNCHANGED <<variadic_areas, native_variadics, list, failing>>

Addresses == UNION {{s.base + n : n \in 0..s.size} : s \in LiveSegments}

Run ==
  \/ Call
  \/ Ret
  \/ \E b \in Bodies : JRet(b) \/ JmpIndirect(b)
  \/ Fail
  \/ Unwind
  \/ Compute
  \/ \E n \in Sizes : Alloca(n)
  \/ BStart
  \/ \E a \in Addresses : BEnd(a)
  \/ VaStart
  \/ VaArg

Next == (Start \/ Run) /\ UNCHANGED program

Spec == Init /\ [][Next]_vars /\ WF_vars(Run /\ UNCHANGED program)

-----------------------------------------------------------------------------
(* Properties.                                                             *)

TypeOK ==
  /\ Len(frames) \in 0..DepthLimit
  /\ \A i \in DOMAIN frames :
       /\ frames[i].body \in Bodies /\ frames[i].pc \in Bodies
       /\ frames[i].unnamed \in program.unnamed
       /\ frames[i].area \in Areas \cup {0}
       /\ \A k \in DOMAIN frames[i].segments :
            LET s == frames[i].segments[k]
            IN  s.base \in Memory /\ s.size >= SegmentSize /\ s.cursor \in 0..s.size
  /\ steps \in 0..InstructionLimit
  /\ failing \in BOOLEAN

Blocks(f) == {i \in DOMAIN f.log : f.log[i].kind = "block" /\ f.log[i].size > 0}

Within(block, s) == s.base <= block.address /\ block.address + block.size <= s.base + s.size

\* What ALLOCA returned stays the program's until a restore of an older mark or
\* the end of the frame: live blocks lie in memory their frame still owns, above
\* the cursor of its segment, and share no byte with another block of any frame,
\* however segments were opened, dropped and placed again.
BlocksIntact ==
  \A j \in DOMAIN frames : \A i \in Blocks(frames[j]) :
    LET block == frames[j].log[i]
    IN  /\ \E k \in DOMAIN frames[j].segments :
             LET s == frames[j].segments[k]
             IN  Within(block, s) /\ block.address >= s.base + s.cursor
        /\ \A m \in DOMAIN frames : \A h \in Blocks(frames[m]) :
             LET other == frames[m].log[h]
             IN  <<m, h>> # <<j, i>> => \/ block.address + block.size <= other.address
                                       \/ other.address + other.size <= block.address

\* A BEND finds exactly the marks that were made and not released: none that an
\* older restore undid, and none of those still open is lost.
MarksExact ==
  \A j \in DOMAIN frames :
    LET f == frames[j]
    IN  DOMAIN f.marks = {f.log[i].address : i \in {n \in DOMAIN f.log : f.log[n].kind = "mark"}}

\* The live blocks of f in segment s.
Held(f, s) == {i \in Blocks(f) : Within(f.log[i], s)}

\* The memory that the blocks in S take.
Total(log, S) ==
  LET total[n \in 0..Len(log)] ==
        IF n = 0 THEN 0 ELSE total[n - 1] + IF n \in S THEN RoundUp(log[n].size) ELSE 0
  IN  total[Len(log)]

\* The memory of a frame is what its live blocks need: each segment is filled by
\* them to the byte, and only the first may be without one.
StackAccounted ==
  \A j \in DOMAIN frames : \A k \in DOMAIN frames[j].segments :
    LET f == frames[j]
        s == f.segments[k]
    IN  /\ s.size - s.cursor = Total(f.log, Held(f, s))
        /\ k > 1 => Held(f, s) # {}

\* The list registered holds the entries of some frames, in order of activation:
\* a frame's entry follows the first[i] that were there when frame i began.
Registered(registered, first, entry) ==
  /\ \A i \in DOMAIN first : first[i] \in 0..Len(registered)
  /\ \A i \in DOMAIN entry :
       /\ first[i] + 1 \in DOMAIN registered
       /\ registered[first[i] + 1] = entry[i]
  /\ \A n \in DOMAIN registered : \E i \in DOMAIN entry : n = first[i] + 1
  /\ \A i \in DOMAIN entry : \A j \in DOMAIN first : i < j => first[i] < first[j]

\* The areas in which VA_ARG reads are the vectors of frames that are still
\* active, in order of activation; the same holds of the lists of native callers.
\* What a frame removes when it ends is its own.
VariadicsAlive ==
  /\ Registered(variadic_areas,
                [i \in DOMAIN frames |-> frames[i].regions],
                [i \in {n \in DOMAIN frames : frames[n].area # 0} |->
                   [area |-> frames[i].area, capacity |-> frames[i].unnamed]])
  /\ Registered(native_variadics,
                [i \in DOMAIN frames |-> frames[i].natives],
                [i \in {n \in DOMAIN frames : frames[n].native} |-> [area |-> frames[i].id]])

\* A list is only advanced over an argument of a frame that is still active, even
\* when the list outlived the frame that started it.
VaReadsLive ==
  [][list'.origin = "area" /\ list'.at > 0 /\ list' # list =>
       \E i \in DOMAIN frames : frames[i].area = list.area /\ list.at < frames[i].unnamed]_vars

\* The program counter of a frame points into its own function, whatever labels
\* are passed around.
StaysInBody == \A i \in DOMAIN frames : frames[i].pc = frames[i].body

\* What holds of an invocation between any two instructions of its frames.
FramesConsistent ==
  /\ TypeOK
  /\ BlocksIntact
  /\ MarksExact
  /\ StackAccounted
  /\ VariadicsAlive
  /\ StaysInBody

\* The open marks of all frames.
OpenMarks == UNION {{<<j, i>> : i \in {n \in DOMAIN frames[j].log : frames[j].log[n].kind = "mark"}} : j \in DOMAIN frames}

\* The instruction budget is the invocation's, not the frame's (steps belongs to
\* InterpreterInvocation, and run charges it at InterpreterEvaluate.cpp:39-43): the
\* frames that are nested, the areas they registered and the marks they hold open
\* were each paid for by an instruction of this invocation, whichever frame it was
\* in, and no call, return or error gives any of it back.  With a budget for each
\* frame the innermost one would hold less than was spent around it.  And so every
\* invocation ends, with all its frames.
BudgetShared ==
  /\ [](frames # <<>> => Len(frames) - 1 + Len(variadic_areas) + Cardinality(OpenMarks) <= steps)
  /\ [][frames # <<>> => steps <= steps']_vars
  /\ frames # <<>> ~> frames = <<>>
=============================================================================
