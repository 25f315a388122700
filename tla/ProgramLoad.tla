---------------------------- MODULE ProgramLoad ----------------------------
(***************************************************************************)
(* Loading a program and compiling its functions: LoadedProgram.cpp,       *)
(* NativeProgram.cpp, SessionBBV.cpp and the native entries of             *)
(* InterpreterEntries.cpp.                                                 *)
(*                                                                         *)
(* A program is a set of functions, each with the engine its selector      *)
(* chose, and imports.  Loading gives every one an address, in an order    *)
(* that matters: code and data that is relocated captures the addresses    *)
(* its callees have at that moment.  An address names the kind of code it  *)
(* leads to, the function behind it and the number of native boundaries    *)
(* on the way.  Loading is one thread that nobody can observe before it    *)
(* ends, so each phase is one step; compile_native has a step per stage,   *)
(* because its observer may call compile again once the program is loaded. *)
(***************************************************************************)
EXTENDS Integers, Sequences, FiniteSets

CONSTANTS Functions,    \* the function symbols of a program, imports included
          Programs,     \* the programs and options Session::create may be given
          MaxCalls,     \* bound: explicit and lazy compilations after loading
          None          \* no address, no code

Natives == {"eager", "lazy", "blocks"}
Imports == {"foreign", "callback", "typed"}

\* kind: the engine of a function; of an import, whether the resolver gave an
\* address ("foreign"), a host callback ("callback") or both ("typed").
\* jump: functions with JRET.  calls: the symbols each function refers to.
\* labels, symbols: functions a label, or whose address, is stored in data.
\* expressions: functions that compute initial data.  entries: native_entries.
Program ==
  [kind : [Functions -> Natives \cup Imports \cup {"interpreter"}],
   jump : SUBSET Functions,
   calls : [Functions -> SUBSET Functions],
   labels : SUBSET Functions,
   symbols : SUBSET Functions,
   expressions : SUBSET Functions,
   entries : BOOLEAN]

ASSUME ProgramAssumption ==
  /\ IsFiniteSet(Functions)
  /\ Programs \subseteq Program
  /\ MaxCalls \in Nat
  /\ \A p \in Programs :
       /\ \E f \in Functions : p.kind[f] \notin Imports
       /\ \A f \in Functions : p.kind[f] \in Imports =>
            /\ p.calls[f] = {}
            /\ f \notin p.labels \cup p.expressions
       /\ p.jump \cap p.expressions = {}

Kinds == {"body", "gate", "code", "blocks", "entry", "guard", "host", "token"}

Address == [kind : Kinds, of : Functions, boundaries : 0..1]

ASSUME NoneAssumption ==
  /\ None \notin Address
  /\ \A S \in SUBSET Functions : None \notin [S -> Address]

At(kind, f) == [kind |-> kind, of |-> f, boundaries |-> 0]

Phases == {"bind", "prepare", "blocks", "lazy", "eager", "entries", "guards", "protect",
           "publish", "roots", "index", "references", "initialize", "loaded", "failed"}

VARIABLES
  program,    \* the program being loaded
  phase,      \* the next phase of LoadedProgram::load
  address,    \* Binding::address
  state,      \* Code::state
  code,       \* Code::code: the addresses captured by the published bytes
  linked,     \* functions whose Code::destination is set
  labels,     \* functions with entries in label_offsets
  pending,    \* expressions not yet evaluated
  stored,     \* the function addresses stored in data
  frames,     \* activations of compile_native, innermost last
  answer,     \* the last compile_native that returned
  statistics, \* compiled_functions and code_batches
  calls       \* compilations asked for after loading

image == <<address, labels, pending, stored>>
vars == <<program, phase, address, state, code, linked, labels, pending, stored, frames, answer,
          statistics, calls>>

OfKind(kinds) == {f \in Functions : program.kind[f] \in kinds}
Defined == Functions \ OfKind(Imports)
Lazy == OfKind({"lazy"})
Eager == OfKind({"eager"})
Blocks == OfKind({"blocks"})
Interpreted == OfKind({"interpreter"})

has_native == OfKind(Natives) # {}
has_interpreted == Interpreted # {}
mixed == has_native /\ has_interpreted

\* Faulty form: a mixed program does not publish native entries.
EntriesAsAsked == program.entries

\* options.native_entries, which a mixed program forces
native_entries == program.entries \/ mixed

native_boundary == Blocks # {} \/ mixed

\* Lazily compiled functions that must be compiled before user code runs.
Roots == Lazy \cap (program.labels \cup program.jump)

TypeOK ==
  /\ program \in Program
  /\ phase \in Phases
  /\ \A f \in Functions : address[f] = None \/ address[f] \in Address
  /\ state \in [Functions -> {"uncompiled", "compiling", "compiled"}]
  /\ DOMAIN code = Functions
  /\ \A f \in Functions :
       code[f] = None \/ code[f] \in [program.calls[f] -> Address]
  /\ linked \subseteq Functions
  /\ labels \subseteq Defined
  /\ pending \subseteq program.expressions
  /\ DOMAIN stored \subseteq program.symbols
  /\ \A f \in DOMAIN stored : stored[f] \in Address
  /\ \A i \in DOMAIN frames :
       /\ frames[i].function \in Lazy
       /\ frames[i].at \in {"compile", "reserve", "relocate", "publish"}
       /\ frames[i].bytes = None \/ frames[i].bytes \in [program.calls[frames[i].function] -> Address]
  /\ answer.unit = None \/ answer.unit \in Functions
  /\ answer.ok \in BOOLEAN
  /\ statistics \in [compiled : Nat, batches : Nat]
  /\ calls \in 0..MaxCalls

-----------------------------------------------------------------------------
Init ==
  /\ program \in Programs
  /\ phase = "bind"
  /\ address = [f \in Functions |-> None]
  /\ state = [f \in Functions |-> "uncompiled"]
  /\ code = [f \in Functions |-> None]
  /\ linked = {}
  /\ labels = {}
  /\ pending = program.expressions
  /\ stored = <<>>
  /\ frames = <<>>
  /\ answer = [unit |-> None, ok |-> FALSE]
  /\ statistics = [compiled |-> 0, batches |-> 0]
  /\ calls = 0

InPhase(p) == phase = p /\ frames = <<>>

\* Gives new addresses to the functions in the domain of new.
Assign(new) == [f \in Functions |-> IF f \in DOMAIN new THEN new[f] ELSE address[f]]

\* An error ends the load: what was loaded so far is destroyed with the program.
Abort ==
  /\ phase' = "failed"
  /\ UNCHANGED <<program, image, state, code, linked, frames, answer, statistics, calls>>

\* Any phase can fail for want of memory, in the code generator or in a
\* callback of the host.
LoadFails ==
  /\ phase \notin {"loaded", "failed"}
  /\ frames = <<>>
  /\ Abort

\* Faulty form: only jumps out of the interpreter are noticed.
CrossingOneWay ==
  \E f \in Interpreted, g \in Defined \cap program.jump :
    g \in program.calls[f] /\ g \notin Interpreted

\* A direct JCALL whose caller and callee run on different sides.
CrossingJump ==
  \E f \in Defined, g \in Defined \cap program.jump :
    g \in program.calls[f] /\ (f \in Interpreted) # (g \in Interpreted)

\* Wholly native programs take no import that only has a callback.
CallbackOnly == has_native /\ ~has_interpreted /\ OfKind({"callback"}) # {}

\* A native entry for a callback cannot offer the jump-return convention.
CallbackJump == native_entries /\ OfKind({"callback"}) \cap program.jump # {}

Reject ==
  /\ \/ InPhase("bind") /\ (CallbackOnly \/ (mixed /\ CrossingJump))
     \/ InPhase("entries") /\ CallbackJump
  /\ Abort

\* register_functions, symbols and the check of direct jumps.
Bind ==
  /\ InPhase("bind")
  /\ ~CallbackOnly
  /\ ~(mixed /\ CrossingJump)
  /\ address' = Assign([f \in OfKind({"foreign", "typed"}) |-> At("host", f)])
  /\ phase' = "prepare"
  /\ UNCHANGED <<program, state, code, linked, labels, pending, stored, frames, answer, statistics,
                 calls>>

\* prepare: the interpreter's bodies; their address stands for the function
\* unless a native entry will.  NativeBoundary::create follows.
Prepare ==
  /\ InPhase("prepare")
  /\ address' = Assign([f \in {g \in Interpreted : ~native_entries \/ g \in program.jump}
                          |-> At("body", f)])
  /\ phase' = "blocks"
  /\ UNCHANGED <<program, state, code, linked, labels, pending, stored, frames, answer, statistics,
                 calls>>

\* prepare_block_versioning: a runtime per function, entered through a gate.
PrepareBlocks ==
  /\ InPhase("blocks")
  /\ address' = Assign([f \in Blocks |-> At("blocks", f)])
  /\ linked' = linked \cup Blocks
  /\ phase' = "lazy"
  /\ UNCHANGED <<program, state, code, labels, pending, stored, frames, answer, statistics, calls>>

publish_lazy_entries ==
  /\ InPhase("lazy")
  /\ address' = Assign([f \in Lazy |-> At("gate", f)])
  /\ statistics' = [statistics EXCEPT !.batches = IF Lazy = {} THEN @ ELSE @ + 1]
  /\ phase' = "eager"
  /\ UNCHANGED <<program, state, code, linked, labels, pending, stored, frames, answer, calls>>

\* All eager functions are compiled and placed; nothing is published yet.
prepare_eager ==
  /\ InPhase("eager")
  /\ state' = [f \in Functions |-> IF f \in Eager THEN "compiling" ELSE state[f]]
  /\ labels' = labels \cup Eager
  /\ linked' = linked \cup Eager
  /\ address' = Assign([f \in Eager |-> At("code", f)])
  /\ phase' = "entries"
  /\ UNCHANGED <<program, code, pending, stored, frames, answer, statistics, calls>>

\* Functions and imports that native code reaches through an interpreter entry.
NeedsEntry ==
  {f \in Functions \ program.jump :
     \/ f \in Interpreted
     \/ program.kind[f] = "callback"
     \/ program.kind[f] = "typed" /\ ~has_native}

publish_entries ==
  /\ InPhase("entries")
  /\ ~CallbackJump
  /\ LET new == IF native_entries THEN NeedsEntry ELSE {}
     IN  /\ address' = Assign([f \in new |-> At("entry", f)])
         /\ statistics' = [statistics EXCEPT !.batches = IF new = {} THEN @ ELSE @ + 1]
  /\ phase' = "guards"
  /\ UNCHANGED <<program, state, code, linked, labels, pending, stored, frames, answer, calls>>

\* Native code that jumps to an interpreted JRET function is stopped.
publish_jump_guards ==
  /\ InPhase("guards")
  /\ LET new == IF mixed THEN Interpreted \cap program.jump ELSE {}
     IN  /\ address' = Assign([f \in new |-> At("guard", f)])
         /\ statistics' = [statistics EXCEPT !.batches = IF new = {} THEN @ ELSE @ + 1]
  /\ phase' = "protect"
  /\ UNCHANGED <<program, state, code, linked, labels, pending, stored, frames, answer, calls>>

\* Every ordinary function is reached through a boundary from now on.
protect_native_entries ==
  /\ InPhase("protect")
  /\ address' = Assign([f \in IF native_boundary THEN Defined \ program.jump ELSE {}
                          |-> [address[f] EXCEPT !.boundaries = @ + 1]])
  /\ phase' = "publish"
  /\ UNCHANGED <<program, state, code, linked, labels, pending, stored, frames, answer, statistics,
                 calls>>

\* resolve_code for every symbol a function refers to
Relocatable(f) == \A g \in program.calls[f] : address[g] # None
relocate(f) == [g \in program.calls[f] |-> address[g]]

publish_eager ==
  /\ InPhase("publish")
  /\ \A f \in Eager : Relocatable(f)
  /\ code' = [f \in Functions |-> IF f \in Eager THEN relocate(f) ELSE code[f]]
  /\ state' = [f \in Functions |-> IF f \in Eager THEN "compiled" ELSE state[f]]
  /\ statistics' = [compiled |-> statistics.compiled + Cardinality(Eager),
                    batches |-> IF Eager = {} THEN statistics.batches ELSE statistics.batches + 1]
  /\ phase' = "roots"
  /\ UNCHANGED <<program, address, linked, labels, pending, stored, frames, answer, calls>>

\* prepare_lazy_roots is over when compile_native succeeded for each of them.
RootsReady ==
  /\ InPhase("roots")
  /\ \A f \in Roots : state[f] = "compiled"
  /\ phase' = "index"
  /\ UNCHANGED <<program, image, state, code, linked, frames, answer, statistics, calls>>

\* Faulty form: every callback gets a token, whether it has an address or not.
IndexAll ==
  /\ InPhase("index")
  /\ address' = Assign([f \in {g \in Functions : has_interpreted /\ program.kind[g] = "callback"}
                          |-> At("token", f)])
  /\ phase' = "references"
  /\ UNCHANGED <<program, state, code, linked, labels, pending, stored, frames, answer, statistics,
                 calls>>

\* Imports without an address get a token that only the interpreter knows.
index_callees ==
  /\ InPhase("index")
  /\ address' = Assign([f \in {g \in Functions : has_interpreted /\ address[g] = None}
                          |-> At("token", f)])
  /\ phase' = "references"
  /\ UNCHANGED <<program, state, code, linked, labels, pending, stored, frames, answer, statistics,
                 calls>>

\* native_label_address and label_address find every label stored in data.
LabelsKnown ==
  \A f \in program.labels :
    CASE f \in Blocks \cup Interpreted -> TRUE
      [] OTHER -> f \in labels

references ==
  /\ InPhase("references")
  /\ \A f \in program.symbols : address[f] # None
  /\ LabelsKnown
  /\ stored' = [f \in program.symbols |-> address[f]]
  /\ phase' = "initialize"
  /\ UNCHANGED <<program, address, state, code, linked, labels, pending, frames, answer, statistics,
                 calls>>

\* initialize evaluates one expression; a lazy function is compiled on the way.
Evaluate(f) ==
  /\ InPhase("initialize")
  /\ f \in pending
  /\ f \in Lazy => state[f] = "compiled"
  /\ pending' = pending \ {f}
  /\ UNCHANGED <<program, phase, address, state, code, linked, labels, stored, frames, answer,
                 statistics, calls>>

Loaded ==
  /\ InPhase("initialize")
  /\ pending = {}
  /\ phase' = "loaded"
  /\ UNCHANGED <<program, image, state, code, linked, frames, answer, statistics, calls>>

-----------------------------------------------------------------------------
(* compile_native, called for a root, by the resolver behind a gate, or by *)
(* FunctionHandle::compile.                                                *)

Top == frames[Len(frames)]
Current == Top.function

InStage(s) == frames # <<>> /\ Top.at = s
GoTo(s) == frames' = [frames EXCEPT ![Len(frames)].at = s]

\* A call is possible when loading asks for it, when user code runs, and from
\* the observer of a compilation in a loaded program.
Asked(f) ==
  \/ phase = "roots" /\ frames = <<>> /\ f \in Roots
  \/ phase = "initialize" /\ frames = <<>> /\ pending # {}
  \/ phase = "loaded" /\ (frames = <<>> \/ InStage("compile")) /\ calls < MaxCalls

Count == calls' = IF phase = "loaded" THEN calls + 1 ELSE calls

CompileCompiled(f) ==
  /\ Asked(f)
  /\ phase # "roots"
  /\ state[f] = "compiled"
  /\ answer' = [unit |-> f, ok |-> TRUE]
  /\ Count
  /\ UNCHANGED <<program, phase, image, state, code, linked, frames, statistics>>

\* "recursive compilation of the same function"
CompileRecursive(f) ==
  /\ Asked(f)
  /\ state[f] = "compiling"
  /\ answer' = [unit |-> f, ok |-> FALSE]
  /\ Count
  /\ UNCHANGED <<program, phase, image, state, code, linked, frames, statistics>>

CompileCold(f) ==
  /\ Asked(f)
  /\ state[f] = "uncompiled"
  /\ state' = [state EXCEPT ![f] = "compiling"]
  /\ frames' = Append(frames, [function |-> f, at |-> "compile", bytes |-> None])
  /\ Count
  /\ UNCHANGED <<program, phase, image, code, linked, answer, statistics>>

Compiled ==
  /\ InStage("compile")
  /\ GoTo("reserve")
  /\ UNCHANGED <<program, phase, image, state, code, linked, answer, statistics, calls>>

\* A fresh mapping for every attempt.
Reserve ==
  /\ InStage("reserve")
  /\ GoTo("relocate")
  /\ UNCHANGED <<program, phase, image, state, code, linked, answer, statistics, calls>>

\* Faulty form: the destination is set as soon as the address is known.
RelocateVisible ==
  /\ InStage("relocate")
  /\ Relocatable(Current)
  /\ frames' = [frames EXCEPT ![Len(frames)] = [@ EXCEPT !.at = "publish",
                                                         !.bytes = relocate(Current)]]
  /\ linked' = linked \cup {Current}
  /\ UNCHANGED <<program, phase, image, state, code, answer, statistics, calls>>

Relocate ==
  /\ InStage("relocate")
  /\ Relocatable(Current)
  /\ frames' = [frames EXCEPT ![Len(frames)] = [@ EXCEPT !.at = "publish",
                                                         !.bytes = relocate(Current)]]
  /\ UNCHANGED <<program, phase, image, state, code, linked, answer, statistics, calls>>

\* Faulty form: the function is not marked compiled, and Reset undoes the state.
PublishUnmarked ==
  /\ InStage("publish")
  /\ code' = [code EXCEPT ![Current] = Top.bytes]
  /\ labels' = labels \cup {Current}
  /\ linked' = linked \cup {Current}
  /\ state' = [state EXCEPT ![Current] = "uncompiled"]
  /\ statistics' = statistics
  /\ answer' = [unit |-> Current, ok |-> TRUE]
  /\ frames' = SubSeq(frames, 1, Len(frames) - 1)
  /\ UNCHANGED <<program, phase, address, pending, stored, calls>>

\* The destination is set only after relocation and publication succeeded.
Publish ==
  /\ InStage("publish")
  /\ code' = [code EXCEPT ![Current] = Top.bytes]
  /\ labels' = labels \cup {Current}
  /\ linked' = linked \cup {Current}
  /\ state' = [state EXCEPT ![Current] = "compiled"]
  /\ statistics' = [compiled |-> statistics.compiled + 1, batches |-> statistics.batches + 1]
  /\ answer' = [unit |-> Current, ok |-> TRUE]
  /\ frames' = SubSeq(frames, 1, Len(frames) - 1)
  /\ UNCHANGED <<program, phase, address, pending, stored, calls>>

\* A failure in any stage: Reset makes the function uncompiled again.  While
\* loading, the error of a root or of an expression ends the load.
StageFails ==
  /\ frames # <<>>
  /\ state' = [state EXCEPT ![Current] = "uncompiled"]
  /\ answer' = [unit |-> Current, ok |-> FALSE]
  /\ frames' = SubSeq(frames, 1, Len(frames) - 1)
  /\ phase' = IF phase = "loaded" THEN "loaded" ELSE "failed"
  /\ UNCHANGED <<program, image, code, linked, statistics, calls>>

Stage == Compiled \/ Reserve \/ Relocate \/ Publish \/ StageFails

Compile(f) == CompileCompiled(f) \/ CompileRecursive(f) \/ CompileCold(f)

\* The steps that load takes by itself, the compilation of what it needs included.
Load ==
  \/ Bind \/ Reject \/ Prepare \/ PrepareBlocks \/ publish_lazy_entries \/ prepare_eager
  \/ publish_entries \/ publish_jump_guards \/ protect_native_entries \/ publish_eager
  \/ \E f \in Roots : phase = "roots" /\ CompileCold(f)
  \/ RootsReady \/ index_callees \/ references
  \/ \E f \in pending : Evaluate(f)
  \/ \E f \in pending \cap Lazy : phase = "initialize" /\ CompileCold(f)
  \/ Loaded

Next ==
  \/ Load
  \/ LoadFails
  \/ Stage
  \/ \E f \in Lazy : Compile(f)

\* Loading and compiling are sequential code that runs to its end.
Spec == Init /\ [][Next]_vars /\ WF_vars(Load) /\ WF_vars(Stage)

-----------------------------------------------------------------------------
(* Properties.                                                             *)

\* User code runs: while expressions are evaluated, and from then on.
Running == phase \in {"initialize", "loaded"}

\* Where native code that calls g through the captured address a arrives: at
\* g's published code, at the resolver behind its gate, at its interpreter
\* entry, at the host, or at the guard that reports a jump out of native code.
Lands(a, g) ==
  /\ a.of = g
  /\ CASE a.kind = "code" -> code[g] # None /\ state[g] = "compiled"
       [] a.kind = "gate" -> g \in Lazy /\ (g \in linked <=> code[g] # None)
       [] a.kind = "blocks" -> g \in Blocks
       [] a.kind = "entry" -> g \in Interpreted \cup OfKind({"callback"})
       [] a.kind = "guard" -> g \in Interpreted \cap program.jump
       [] a.kind = "host" -> g \in OfKind({"foreign", "typed"})
       [] OTHER -> FALSE

\* When user code can run, every call in published native code arrives at code
\* that belongs to its callee; none is left at a body, a token or an unpublished
\* destination that an earlier phase of load had put there.
CallsLand ==
  Running => \A f \in Functions : code[f] # None =>
               \A g \in program.calls[f] : Lands(code[f][g], g)

\* The addresses captured by published code, by code being relocated and by data
\* are the ones the symbols have now: no phase of load and no compilation gives a
\* symbol another address after somebody relocated against it.
CapturedFinal ==
  /\ \A f \in Functions : code[f] # None => code[f] = relocate(f)
  /\ \A i \in DOMAIN frames :
       frames[i].bytes # None => frames[i].bytes = relocate(frames[i].function)
  /\ \A f \in DOMAIN stored : stored[f] = address[f]

\* Every address of an ordinary function that host code can hold or native code
\* captured leads through exactly one native boundary when the program has one;
\* jump-return entries, which do not return, through none.
BoundaryOnce ==
  LET Right(a, g) == a.boundaries = IF native_boundary /\ g \in Defined \ program.jump THEN 1 ELSE 0
  IN  Running =>
        /\ \A g \in Functions : address[g] # None => Right(address[g], g)
        /\ \A f \in Functions : code[f] # None => \A g \in program.calls[f] : Right(code[f][g], g)

\* Once symbols are bound, no later phase meets a symbol or a label it cannot
\* resolve: relocation and the references of data always succeed.
NothingUnresolved ==
  /\ InPhase("publish") => \A f \in Eager : Relocatable(f)
  /\ InStage("relocate") => Relocatable(Current)
  /\ InPhase("references") => LabelsKnown /\ \A f \in program.symbols : address[f] # None

\* A jump has no return path for a failed resolver: whenever user code runs, the
\* lazy functions that can be jumped to have their code.
JumpTargetsReady == Running => Lazy \cap program.jump \subseteq linked

\* The guard against jumps between engines is never reached by a direct JCALL:
\* load has rejected such a program.
DirectJumpsStay ==
  \A f \in Functions : code[f] # None =>
    \A g \in program.calls[f] \cap program.jump : code[f][g].kind # "guard"

\* A lazy function is compiling exactly while an activation of compile_native
\* works on it, and no function is on the stack twice; once user code runs, no
\* eager function is left half compiled.
CompilingIsActive ==
  /\ \A f \in Lazy : state[f] = "compiling" <=> \E i \in DOMAIN frames : frames[i].function = f
  /\ \A i, j \in DOMAIN frames : frames[i].function = frames[j].function => i = j
  /\ Running => \A f \in Eager : state[f] = "compiled"

\* Statistics count published functions only.
StatisticsExact == statistics.compiled = Cardinality({f \in Functions : state[f] = "compiled"})

\* The phases that follow a phase of load, until it ends.
AfterReferences == {"initialize", "loaded"}
AfterIndex == {"references"} \cup AfterReferences
AfterRoots == {"index"} \cup AfterIndex
AfterPublish == {"roots"} \cup AfterRoots
AfterProtect == {"publish"} \cup AfterPublish
AfterGuards == {"protect"} \cup AfterProtect
AfterEntries == {"guards"} \cup AfterGuards
AfterEager == {"entries"} \cup AfterEntries
AfterLazy == {"eager"} \cup AfterEager
AfterBlocks == {"lazy"} \cup AfterLazy
AfterPrepare == {"blocks"} \cup AfterBlocks
AfterBind == {"prepare"} \cup AfterPrepare

\* What the address of a symbol leads to when the phase at is next; a later phase
\* overrides what an earlier one gave.
KindIn(at, f) ==
  CASE at \in AfterEntries /\ native_entries /\ f \in NeedsEntry -> "entry"
    [] at \in AfterGuards /\ mixed /\ f \in Interpreted \cap program.jump -> "guard"
    [] OTHER ->
       CASE at \in AfterBind /\ program.kind[f] \in {"foreign", "typed"} -> "host"
         [] at \in AfterPrepare /\ program.kind[f] = "interpreter"
              /\ (~native_entries \/ f \in program.jump) -> "body"
         [] at \in AfterBlocks /\ program.kind[f] = "blocks" -> "blocks"
         [] at \in AfterLazy /\ program.kind[f] = "lazy" -> "gate"
         [] at \in AfterEager /\ program.kind[f] = "eager" -> "code"
         [] at \in AfterIndex /\ has_interpreted /\ program.kind[f] = "callback" -> "token"
         [] OTHER -> "none"

BoundariesIn(at, f) ==
  IF at \in AfterProtect /\ native_boundary /\ f \in Defined \ program.jump THEN 1 ELSE 0

AddressIn(at, f) ==
  IF KindIn(at, f) = "none" THEN None
  ELSE [kind |-> KindIn(at, f), of |-> f, boundaries |-> BoundariesIn(at, f)]

\* The phases of load leave every symbol the address their order implies,
\* whatever engines the program mixes, and compilation changes none.
AddressesByPhase == phase # "failed" => \A f \in Functions : address[f] = AddressIn(phase, f)

\* Published code, links, labels and captured addresses keep pace with the phases
\* of load and the stages of compilation: nothing is relocated before every
\* address is final, and what was relocated had all its addresses.
ProgressByPhase ==
  /\ phase \in AfterBind => ~CallbackOnly /\ ~(mixed /\ CrossingJump)
  /\ phase \in AfterEntries => ~CallbackJump
  /\ phase \notin {"roots", "initialize", "loaded"} => frames = <<>>
  /\ phase \in {"roots", "initialize"} => Len(frames) <= 1
  /\ phase \notin AfterPublish \cup {"failed"} =>
       \A f \in Functions : code[f] = None /\ state[f] # "compiled"
  /\ phase \in AfterPublish => \A f \in Eager : state[f] = "compiled" /\ code[f] # None
  /\ phase \in AfterEager => Eager \subseteq labels
  /\ phase \in AfterRoots => \A f \in Roots : state[f] = "compiled"
  /\ phase \notin AfterReferences \cup {"failed"} => DOMAIN stored = {}
  /\ \A f \in Functions : code[f] # None => f \in Eager \cup Lazy /\ Relocatable(f)
  /\ \A f \in Lazy :
       /\ (state[f] = "compiled") <=> (f \in linked)
       /\ (state[f] = "compiled") <=> (code[f] # None)
       /\ f \in linked => f \in labels
  /\ \A i \in DOMAIN frames :
       /\ frames[i].at = "publish" => frames[i].bytes # None
       /\ frames[i].bytes # None => Relocatable(frames[i].function)

\* What holds of the program between any two steps of load and of the
\* compilations it starts, failed ones included.
LoadConsistent ==
  /\ TypeOK
  /\ AddressesByPhase
  /\ ProgressByPhase
  /\ NothingUnresolved
  /\ DirectJumpsStay
  /\ CompilingIsActive
  /\ StatisticsExact
  /\ BoundaryOnce
  /\ JumpTargetsReady

\* Every load ends: it succeeds, is rejected, or fails; no phase waits for
\* something that an earlier one did not provide, and no function stays compiling
\* unless its program dies in a failed load.
LoadEnds ==
  /\ <>(phase \in {"loaded", "failed"})
  /\ \A f \in Functions : state[f] = "compiling" ~> state[f] # "compiling" \/ phase = "failed"

Linkage == INSTANCE LazyLinkage WITH
  Units <- Functions,
  linked <- {f \in Lazy : f \in linked},
  busy <- {frames[i].function : i \in DOMAIN frames},
  answer <- answer

\* Function compilation implements the promise of lazy linkage, while loading
\* and after it.
KeepsLinkage == Linkage!Spec
=============================================================================
