------------------------- MODULE ProgramLoadProofs -------------------------
(***************************************************************************)
(* Proofs about ProgramLoad: the addresses that each phase of load leaves, *)
(* the inductive invariant built on them, and what follows from it for     *)
(* every program, whatever engines and imports it mixes.                   *)
(***************************************************************************)
EXTENDS ProgramLoad, InductionFacts, SequenceTheorems, TLAPS

-----------------------------------------------------------------------------
(* The addresses of a symbol, phase by phase.                              *)

\* After bind: imports with an address.
LEMMA BindForm ==
  ASSUME program \in Program, NEW f \in Functions
  PROVE  AddressIn("prepare", f) = IF f \in OfKind({"foreign", "typed"}) THEN At("host", f)
                                   ELSE AddressIn("bind", f)
BY DEF AddressIn, KindIn, BoundariesIn, OfKind, At, AfterReferences, AfterIndex, AfterRoots,
       AfterPublish, AfterProtect, AfterGuards, AfterEntries, AfterEager, AfterLazy, AfterBlocks,
       AfterPrepare, AfterBind

\* After prepare: bodies of interpreted functions that get no native entry.
LEMMA PrepareForm ==
  ASSUME program \in Program, NEW f \in Functions
  PROVE  AddressIn("blocks", f) =
           IF f \in {g \in Interpreted : ~native_entries \/ g \in program.jump} THEN At("body", f)
           ELSE AddressIn("prepare", f)
BY DEF AddressIn, KindIn, BoundariesIn, OfKind, Interpreted, At, AfterReferences, AfterIndex,
       AfterRoots, AfterPublish, AfterProtect, AfterGuards, AfterEntries, AfterEager, AfterLazy,
       AfterBlocks, AfterPrepare, AfterBind

\* After blocks, lazy and eager: the functions of each native engine.
LEMMA EngineForm ==
  ASSUME program \in Program, NEW f \in Functions
  PROVE  /\ AddressIn("lazy", f) = IF f \in Blocks THEN At("blocks", f) ELSE AddressIn("blocks", f)
         /\ AddressIn("eager", f) = IF f \in Lazy THEN At("gate", f) ELSE AddressIn("lazy", f)
         /\ AddressIn("entries", f) = IF f \in Eager THEN At("code", f) ELSE AddressIn("eager", f)
BY DEF AddressIn, KindIn, BoundariesIn, OfKind, Blocks, Lazy, Eager, At, AfterReferences,
       AfterIndex, AfterRoots, AfterPublish, AfterProtect, AfterGuards, AfterEntries, AfterEager,
       AfterLazy, AfterBlocks, AfterPrepare, AfterBind

\* After entries: what native code reaches through an interpreter entry.
LEMMA EntriesForm ==
  ASSUME program \in Program, NEW f \in Functions
  PROVE  AddressIn("guards", f) =
           IF f \in (IF native_entries THEN NeedsEntry ELSE {}) THEN At("entry", f)
           ELSE AddressIn("entries", f)
BY DEF AddressIn, KindIn, BoundariesIn, OfKind, At, AfterReferences, AfterIndex, AfterRoots,
       AfterPublish, AfterProtect, AfterGuards, AfterEntries, AfterEager, AfterLazy, AfterBlocks,
       AfterPrepare, AfterBind

\* After guards: interpreted jump targets of mixed programs.
LEMMA GuardsForm ==
  ASSUME program \in Program, NEW f \in Functions
  PROVE  AddressIn("protect", f) =
           IF f \in (IF mixed THEN Interpreted \cap program.jump ELSE {}) THEN At("guard", f)
           ELSE AddressIn("guards", f)
BY DEF AddressIn, KindIn, BoundariesIn, OfKind, At, NeedsEntry, AfterReferences, AfterIndex,
       AfterRoots, AfterPublish, AfterProtect, AfterGuards, AfterEntries, AfterEager, AfterLazy,
       AfterBlocks, AfterPrepare, AfterBind

\* Every defined function that can be protected has an address by then.
LEMMA DefinedAddressed ==
  ASSUME program \in Program, NEW f \in Defined \ program.jump, NEW at \in AfterGuards
  PROVE  KindIn(at, f) # "none"
<1>1. f \in Functions /\ program.kind[f] \in {"eager", "lazy", "blocks", "interpreter"}
  BY DEF Defined, OfKind, Imports, Natives, Program
<1>2. at \in AfterEntries /\ at \in AfterEager /\ at \in AfterLazy /\ at \in AfterBlocks
      /\ at \in AfterPrepare
  BY DEF AfterGuards, AfterEntries, AfterEager, AfterLazy, AfterBlocks, AfterPrepare
<1>3. CASE program.kind[f] = "interpreter"
  BY <1>1, <1>2, <1>3 DEF KindIn, NeedsEntry, Interpreted, OfKind
<1>4. CASE program.kind[f] = "eager"
  BY <1>1, <1>2, <1>4 DEF KindIn
<1>5. CASE program.kind[f] = "lazy"
  BY <1>1, <1>2, <1>5 DEF KindIn
<1>6. CASE program.kind[f] = "blocks"
  BY <1>1, <1>2, <1>6 DEF KindIn
<1> QED BY <1>1, <1>3, <1>4, <1>5, <1>6

\* After protect: ordinary functions gain a boundary when the program has one.
LEMMA ProtectForm ==
  ASSUME program \in Program, NEW f \in Functions
  PROVE  AddressIn("publish", f) =
           IF f \in (IF native_boundary THEN Defined \ program.jump ELSE {})
           THEN [AddressIn("protect", f) EXCEPT !.boundaries = @ + 1]
           ELSE AddressIn("protect", f)
<1>1. KindIn("publish", f) = KindIn("protect", f)
  BY DEF KindIn, AfterReferences, AfterIndex, AfterRoots, AfterPublish, AfterProtect, AfterGuards,
         AfterEntries, AfterEager, AfterLazy, AfterBlocks, AfterPrepare, AfterBind
<1>2. "publish" \in AfterProtect /\ "protect" \notin AfterProtect /\ "protect" \in AfterGuards
  BY DEF AfterReferences, AfterIndex, AfterRoots, AfterPublish, AfterProtect, AfterGuards
<1>3. CASE native_boundary /\ f \in Defined \ program.jump
  <2>1. KindIn("protect", f) # "none"
    BY <1>2, <1>3, DefinedAddressed
  <2>2. AddressIn("protect", f) = [kind |-> KindIn("protect", f), of |-> f, boundaries |-> 0]
    BY <1>2, <2>1 DEF AddressIn, BoundariesIn
  <2>3. AddressIn("publish", f) = [kind |-> KindIn("protect", f), of |-> f, boundaries |-> 1]
    BY <1>1, <1>2, <1>3, <2>1 DEF AddressIn, BoundariesIn
  <2> QED BY <1>3, <2>2, <2>3
<1>4. CASE ~(native_boundary /\ f \in Defined \ program.jump)
  BY <1>1, <1>2, <1>4 DEF AddressIn, BoundariesIn
<1> QED BY <1>3, <1>4

\* An address is None or a record of its kind.
LEMMA FormFacts ==
  ASSUME NEW f \in Functions, NEW at
  PROVE  /\ KindIn(at, f) # "none" => AddressIn(at, f) \in Address
         /\ AddressIn(at, f) = None <=> KindIn(at, f) = "none"
<1>1. KindIn(at, f) \in Kinds \cup {"none"}
  BY DEF KindIn, Kinds
<1>2. BoundariesIn(at, f) \in 0..1
  BY DEF BoundariesIn
<1>3. ASSUME KindIn(at, f) # "none"
      PROVE  AddressIn(at, f) \in Address /\ AddressIn(at, f) # None
  BY <1>1, <1>2, <1>3, NoneAssumption DEF AddressIn, Address
<1>4. KindIn(at, f) = "none" => AddressIn(at, f) = None
  BY DEF AddressIn
<1> QED BY <1>3, <1>4

\* After index: the tokens of imports that have no address.
LEMMA IndexForm ==
  ASSUME program \in Program, NEW f \in Functions
  PROVE  AddressIn("references", f) =
           IF has_interpreted /\ AddressIn("index", f) = None THEN At("token", f)
           ELSE AddressIn("index", f)
<1>1. program.kind[f] \in {"eager", "lazy", "blocks", "foreign", "callback", "typed", "interpreter"}
  BY DEF Program, Natives, Imports
<1>2. AddressIn("index", f) = None <=> KindIn("index", f) = "none"
  BY FormFacts
<1>3. \A at \in {"index", "references"} :
        /\ at \in AfterEntries /\ at \in AfterGuards /\ at \in AfterBind /\ at \in AfterPrepare
        /\ at \in AfterBlocks /\ at \in AfterLazy /\ at \in AfterEager /\ at \in AfterProtect
  BY DEF AfterReferences, AfterIndex, AfterRoots, AfterPublish, AfterProtect, AfterGuards,
         AfterEntries, AfterEager, AfterLazy, AfterBlocks, AfterPrepare, AfterBind
<1>4. "index" \notin AfterIndex /\ "references" \in AfterIndex
  BY DEF AfterReferences, AfterIndex
<1>5. BoundariesIn("references", f) = BoundariesIn("index", f)
  BY <1>3 DEF BoundariesIn
<1>6. CASE KindIn("index", f) # "none"
  <2>1. KindIn("references", f) = KindIn("index", f)
    BY <1>3, <1>4, <1>6 DEF KindIn
  <2> QED BY <1>2, <1>5, <1>6, <2>1 DEF AddressIn
<1>7. CASE KindIn("index", f) = "none"
  <2>1. program.kind[f] = "callback"
    <3>1. program.kind[f] # "interpreter"
      BY <1>3, <1>7 DEF KindIn, NeedsEntry, Interpreted, OfKind
    <3> QED BY <1>1, <1>3, <1>7, <3>1 DEF KindIn
  <2>2. f \notin Defined
    BY <2>1 DEF Defined, OfKind, Imports
  <2>3. KindIn("references", f) = IF has_interpreted THEN "token" ELSE "none"
    BY <1>3, <1>4, <1>7, <2>1 DEF KindIn
  <2>4. BoundariesIn("references", f) = 0
    BY <2>2 DEF BoundariesIn
  <2> QED BY <1>2, <1>7, <2>3, <2>4 DEF AddressIn, At
<1> QED BY <1>6, <1>7

\* No other phase changes an address.
LEMMA QuietForm ==
  ASSUME NEW f \in Functions
  PROVE  /\ AddressIn("roots", f) = AddressIn("publish", f)
         /\ AddressIn("index", f) = AddressIn("roots", f)
         /\ AddressIn("initialize", f) = AddressIn("references", f)
         /\ AddressIn("loaded", f) = AddressIn("initialize", f)
BY DEF AddressIn, KindIn, BoundariesIn, AfterReferences, AfterIndex, AfterRoots, AfterPublish,
       AfterProtect, AfterGuards, AfterEntries, AfterEager, AfterLazy, AfterBlocks, AfterPrepare,
       AfterBind

\* The form of an address depends on the program only.
LEMMA SameForm ==
  ASSUME program' = program, NEW at, NEW f
  PROVE  AddressIn(at, f)' = AddressIn(at, f)
BY DEF AddressIn, KindIn, BoundariesIn, NeedsEntry, native_entries, native_boundary, mixed,
       has_native, has_interpreted, Interpreted, Defined, Blocks, OfKind

-----------------------------------------------------------------------------
(* What each kind of code finds at the addresses of its callees.           *)

\* What load has checked of the program by the time it relocates native code.
Checked == ~CallbackOnly /\ ~(mixed /\ CrossingJump) /\ ~CallbackJump

\* In a program with native code every symbol has an address before the first
\* relocation, and in every program after index_callees.
LEMMA AllAddressed ==
  ASSUME program \in Program, Checked, NEW f \in Functions, NEW at \in AfterProtect,
         has_native \/ (at \in AfterIndex /\ has_interpreted)
  PROVE  KindIn(at, f) # "none"
<1>1. /\ at \in AfterEntries /\ at \in AfterGuards /\ at \in AfterBind /\ at \in AfterPrepare
      /\ at \in AfterBlocks /\ at \in AfterLazy /\ at \in AfterEager
  BY DEF AfterProtect, AfterGuards, AfterEntries, AfterEager, AfterLazy, AfterBlocks,
         AfterPrepare, AfterBind
<1>2. program.kind[f] \in {"eager", "lazy", "blocks", "foreign", "callback", "typed", "interpreter"}
  BY DEF Program, Natives, Imports
<1>3. CASE program.kind[f] = "interpreter"
  BY <1>1, <1>3 DEF KindIn, NeedsEntry, Interpreted, OfKind
<1>4. CASE program.kind[f] = "callback"
  <2>1. CASE at \in AfterIndex /\ has_interpreted
    BY <1>4, <2>1 DEF KindIn
  <2>2. CASE has_native
    <3>1. f \in OfKind({"callback"})
      BY <1>4 DEF OfKind
    <3>2. mixed
      BY <2>2, <3>1 DEF Checked, CallbackOnly, mixed
    <3>3. f \notin program.jump
      BY <3>1, <3>2 DEF Checked, CallbackJump, native_entries
    <3> QED BY <1>1, <1>4, <3>2, <3>3 DEF KindIn, NeedsEntry, native_entries
  <2> QED BY <2>1, <2>2
<1>5. CASE program.kind[f] \in {"eager", "lazy", "blocks", "foreign", "typed"}
  BY <1>1, <1>5 DEF KindIn
<1> QED BY <1>2, <1>3, <1>4, <1>5

\* From the first relocation on, native code finds at each symbol what its engine
\* runs: never a body that only the interpreter can enter, never a token.
LEMMA NativeForm ==
  ASSUME program \in Program, Checked, has_native, NEW f \in Functions, NEW at \in AfterProtect
  PROVE  /\ KindIn(at, f) = "code" => f \in Eager
         /\ KindIn(at, f) = "gate" => f \in Lazy
         /\ KindIn(at, f) = "blocks" => f \in Blocks
         /\ KindIn(at, f) = "entry" => f \in Interpreted \cup OfKind({"callback"})
         /\ KindIn(at, f) = "guard" => mixed /\ f \in Interpreted \cap program.jump
         /\ KindIn(at, f) = "host" => f \in OfKind({"foreign", "typed"})
         /\ KindIn(at, f) \in {"code", "gate", "blocks", "entry", "guard", "host"}
<1>1. /\ at \in AfterEntries /\ at \in AfterGuards /\ at \in AfterBind /\ at \in AfterPrepare
      /\ at \in AfterBlocks /\ at \in AfterLazy /\ at \in AfterEager
  BY DEF AfterProtect, AfterGuards, AfterEntries, AfterEager, AfterLazy, AfterBlocks,
         AfterPrepare, AfterBind
<1>2. program.kind[f] \in {"eager", "lazy", "blocks", "foreign", "callback", "typed", "interpreter"}
  BY DEF Program, Natives, Imports
<1>3. CASE program.kind[f] = "interpreter"
  <2>1. f \in Interpreted /\ mixed
    BY <1>3 DEF Interpreted, OfKind, mixed, has_interpreted
  <2>2. KindIn(at, f) = IF f \in program.jump THEN "guard" ELSE "entry"
    BY <1>1, <2>1 DEF KindIn, NeedsEntry, native_entries
  <2> QED BY <2>1, <2>2
<1>4. CASE program.kind[f] = "callback"
  <2>1. f \in OfKind({"callback"})
    BY <1>4 DEF OfKind
  <2>2. mixed
    BY <2>1 DEF Checked, CallbackOnly, mixed
  <2>3. f \notin program.jump
    BY <2>1, <2>2 DEF Checked, CallbackJump, native_entries
  <2>4. KindIn(at, f) = "entry"
    BY <1>1, <1>4, <2>2, <2>3 DEF KindIn, NeedsEntry, native_entries
  <2> QED BY <2>1, <2>4
<1>5. CASE program.kind[f] \in {"eager", "lazy", "blocks", "foreign", "typed"}
  <2>1. f \notin NeedsEntry /\ f \notin Interpreted
    BY <1>5 DEF NeedsEntry, Interpreted, OfKind
  <2> QED BY <1>1, <1>5, <2>1 DEF KindIn, Eager, Lazy, Blocks, OfKind
<1> QED BY <1>2, <1>3, <1>4, <1>5

-----------------------------------------------------------------------------
(* The inductive invariant.                                                *)

Captures == UNION {[S -> Address] : S \in SUBSET Functions}

Frame == [function : Functions, at : {"compile", "reserve", "relocate", "publish"},
          bytes : {None} \cup Captures]

IInv ==
  /\ program \in Programs
  /\ frames \in Seq(Frame)
  /\ TypeOK
  /\ AddressesByPhase
  /\ ProgressByPhase
  /\ CapturedFinal
  /\ CompilingIsActive
  /\ StatisticsExact

\* What the assumptions on programs say of the one being loaded.
LEMMA ProgramFacts ==
  ASSUME IInv
  PROVE  /\ program \in Program
         /\ Lazy \subseteq Functions /\ Eager \subseteq Functions
         /\ Lazy \cap Eager = {}
         /\ Lazy \cap Blocks = {}
         /\ \A f \in Lazy \cup Eager : program.kind[f] \in Natives
         /\ Lazy \cup Eager # {} => has_native
         /\ has_native \/ has_interpreted
         /\ \A f \in program.labels : f \in Functions /\ program.kind[f] \notin Imports
<1>1. program \in Programs /\ program \in Program
  BY ProgramAssumption DEF IInv
<1>2. \A f \in program.labels : f \in Functions /\ program.kind[f] \notin Imports
  BY <1>1, ProgramAssumption DEF Program
<1>3. has_native \/ has_interpreted
  <2>1. PICK f \in Functions : program.kind[f] \notin Imports
    BY <1>1, ProgramAssumption
  <2>2. program.kind[f] \in Natives \/ program.kind[f] = "interpreter"
    BY <1>1, <2>1 DEF Program
  <2> QED BY <2>2 DEF has_native, has_interpreted, Interpreted, OfKind
<1> QED BY <1>1, <1>2, <1>3 DEF Lazy, Eager, Blocks, OfKind, Natives, has_native

\* Everything is checked once entries are published, and the engine of a native
\* function is known.
LEMMA CheckedFacts ==
  ASSUME IInv, phase \in AfterEntries
  PROVE  Checked
BY DEF IInv, ProgressByPhase, Checked, AfterBind, AfterPrepare, AfterBlocks, AfterLazy, AfterEager

\* The initial state.
LEMMA InitIInv == Init => IInv
<1> SUFFICES ASSUME Init PROVE IInv
  OBVIOUS
<1>1. program \in Programs /\ program \in Program
  BY ProgramAssumption DEF Init
<1>2. frames \in Seq(Frame) /\ Len(frames) = 0 /\ DOMAIN frames = {} /\ DOMAIN stored = {}
  BY EmptySeq DEF Init
<1>3. TypeOK
  BY <1>1, <1>2, ProgramAssumption DEF Init, TypeOK, Phases
<1>4. AddressesByPhase
  <2>1. \A f \in Functions : AddressIn("bind", f) = None
    BY DEF AddressIn, KindIn, AfterBind, AfterPrepare, AfterBlocks, AfterLazy, AfterEager,
           AfterEntries, AfterGuards, AfterProtect, AfterPublish, AfterRoots, AfterIndex,
           AfterReferences
  <2> QED BY <2>1 DEF Init, AddressesByPhase
<1>5. ProgressByPhase
  <2>1. /\ phase = "bind" /\ frames = <<>>
        /\ phase \notin AfterBind /\ phase \notin AfterEntries /\ phase \notin AfterPublish
        /\ phase \notin AfterEager /\ phase \notin AfterRoots
    BY DEF Init, AfterBind, AfterPrepare, AfterBlocks, AfterLazy, AfterEager, AfterEntries,
           AfterGuards, AfterProtect, AfterPublish, AfterRoots, AfterIndex, AfterReferences
  <2>2. \A f \in Functions : code[f] = None /\ state[f] = "uncompiled" /\ f \notin linked
    BY DEF Init
  <2> QED BY <1>2, <2>1, <2>2 DEF ProgressByPhase, Lazy, OfKind
<1>6. CapturedFinal
  BY <1>2 DEF Init, CapturedFinal
<1>7. CompilingIsActive
  BY <1>2 DEF Init, CompilingIsActive, Lazy, OfKind, Running
<1>8. StatisticsExact
  <2>1. {f \in Functions : state[f] = "compiled"} = {}
    BY DEF Init
  <2> QED BY <2>1, FS_EmptySet DEF Init, StatisticsExact
<1> QED BY <1>1, <1>2, <1>3, <1>4, <1>5, <1>6, <1>7, <1>8 DEF IInv

-----------------------------------------------------------------------------
(* The phases before anything is published.                                *)

Early == Phases \ (AfterPublish \cup {"failed"})

\* A phase that gives addresses, before any code exists that could capture them.
LEMMA EarlyIInv ==
  ASSUME IInv, phase \in Early, NEW to \in Early, phase' = to,
         UNCHANGED <<program, code, pending, stored, frames, answer, calls>>,
         \A f \in Functions : address'[f] = AddressIn(to, f),
         state' \in [Functions -> {"uncompiled", "compiling"}],
         \A f \in Lazy : state'[f] = state[f] /\ (f \in linked' <=> f \in linked),
         linked' \subseteq Functions,
         labels' \subseteq Defined, labels \subseteq labels',
         statistics'.compiled = statistics.compiled,
         statistics' \in [compiled : Nat, batches : Nat],
         to \in AfterEager => Eager \subseteq labels',
         to \in AfterBind => ~CallbackOnly /\ ~(mixed /\ CrossingJump),
         to \in AfterEntries => ~CallbackJump
  PROVE  IInv'
<1>1. /\ program \in Program
      /\ \A f \in Functions : code[f] = None /\ state[f] # "compiled"
      /\ frames = <<>> /\ DOMAIN frames = {} /\ DOMAIN stored = {}
  BY ProgramFacts, EmptySeq DEF IInv, ProgressByPhase, Early, Phases, AfterPublish, AfterRoots, AfterIndex,
                      AfterReferences
<1>2. /\ Lazy' = Lazy /\ Eager' = Eager /\ Defined' = Defined
      /\ CallbackOnly' = CallbackOnly /\ mixed' = mixed /\ CrossingJump' = CrossingJump
      /\ CallbackJump' = CallbackJump
  BY DEF Lazy, Eager, Defined, CallbackOnly, mixed, CrossingJump, CallbackJump, OfKind, has_native,
         has_interpreted, Interpreted, native_entries
<1>3. TypeOK'
  <2>1. \A f \in Functions : address'[f] = None \/ address'[f] \in Address
    BY FormFacts
  <2> QED BY <1>1, <1>2, <2>1 DEF IInv, TypeOK, Early
<1>4. AddressesByPhase'
  BY SameForm DEF AddressesByPhase
<1>5. ProgressByPhase'
  <2>1. to \notin AfterPublish /\ to \notin AfterRoots /\ to # "failed" /\ to # "roots"
        /\ to # "initialize"
    BY DEF Early, AfterPublish, AfterRoots, AfterIndex, AfterReferences
  <2>2. \A f \in Functions : code'[f] = None /\ state'[f] # "compiled"
    BY <1>1
  <2>3. \A f \in Lazy : f \notin linked
    BY <1>1, ProgramFacts DEF IInv, ProgressByPhase
  <2> QED BY <1>1, <1>2, <2>1, <2>2, <2>3, ProgramFacts DEF ProgressByPhase
<1>6. CapturedFinal'
  BY <1>1 DEF CapturedFinal
<1>7. CompilingIsActive'
  <2>1. phase' \notin {"initialize", "loaded"}
    BY DEF Early, AfterPublish, AfterRoots, AfterIndex, AfterReferences
  <2> QED BY <1>1, <1>2, <2>1 DEF IInv, CompilingIsActive, Running
<1>8. StatisticsExact'
  <2>1. {f \in Functions : state'[f] = "compiled"} = {}
    BY ProgramFacts
  <2>2. {f \in Functions : state[f] = "compiled"} = {}
    BY <1>1
  <2> QED BY <2>1, <2>2 DEF IInv, StatisticsExact
<1>9. program' \in Programs /\ frames' \in Seq(Frame)
  BY DEF IInv
<1> QED BY <1>3, <1>4, <1>5, <1>6, <1>7, <1>8, <1>9 DEF IInv

\* What an early phase finds.
LEMMA EarlyFacts ==
  ASSUME IInv, phase \in Early
  PROVE  /\ program \in Program
         /\ \A f \in Functions : address[f] = AddressIn(phase, f)
         /\ state \in [Functions -> {"uncompiled", "compiling"}]
         /\ linked \subseteq Functions /\ labels \subseteq Defined
         /\ statistics \in [compiled : Nat, batches : Nat]
         /\ phase \in AfterEager => Eager \subseteq labels
         /\ phase \in AfterBind => ~CallbackOnly /\ ~(mixed /\ CrossingJump)
         /\ phase \in AfterEntries => ~CallbackJump
<1>1. \A f \in Functions : state[f] # "compiled"
  BY DEF Early, IInv, ProgressByPhase
<1>2. state \in [Functions -> {"uncompiled", "compiling"}]
  BY <1>1 DEF IInv, TypeOK
<1>3. \A f \in Functions : address[f] = AddressIn(phase, f)
  BY DEF Early, IInv, AddressesByPhase
<1> QED BY <1>2, <1>3, ProgramFacts DEF IInv, TypeOK, ProgressByPhase

\* Which phases are early, and what has been done by then.
LEMMA EarlyPhases ==
  /\ {"bind", "prepare", "blocks", "lazy", "eager", "entries", "guards", "protect", "publish"}
       \subseteq Early
  /\ {"bind", "prepare", "blocks", "lazy", "eager"} \cap AfterEager = {}
  /\ {"bind", "prepare", "blocks", "lazy", "eager", "entries"} \cap AfterEntries = {}
  /\ {"entries", "guards", "protect", "publish"} \subseteq AfterEager
  /\ {"guards", "protect", "publish"} \subseteq AfterEntries
  /\ "bind" \notin AfterBind
  /\ {"prepare", "blocks", "lazy", "eager", "entries", "guards", "protect", "publish"}
       \subseteq AfterBind
BY DEF Early, Phases, AfterBind, AfterPrepare, AfterBlocks, AfterLazy, AfterEager, AfterEntries,
       AfterGuards, AfterProtect, AfterPublish, AfterRoots, AfterIndex, AfterReferences

\* bind gives addresses to host functions only.
LEMMA BindIInv ==
  ASSUME IInv, Bind
  PROVE  IInv'
<1>1. phase = "bind" /\ phase' = "prepare"
  BY DEF Bind, InPhase
<1>2. \A f \in Functions : address'[f] = AddressIn("prepare", f)
  BY <1>1, EarlyFacts, EarlyPhases, BindForm DEF Bind, Assign
<1> QED BY <1>1, <1>2, EarlyFacts, EarlyPhases, EarlyIInv DEF Bind

\* prepare gives addresses to the bodies of interpreted functions.
LEMMA PrepareIInv ==
  ASSUME IInv, Prepare
  PROVE  IInv'
<1>1. phase = "prepare" /\ phase' = "blocks"
  BY DEF Prepare, InPhase
<1>2. \A f \in Functions : address'[f] = AddressIn("blocks", f)
  BY <1>1, EarlyFacts, EarlyPhases, PrepareForm DEF Prepare, Assign
<1> QED BY <1>1, <1>2, EarlyFacts, EarlyPhases, EarlyIInv DEF Prepare

\* A function compiled block by block is reached through its runtime.
LEMMA PrepareBlocksIInv ==
  ASSUME IInv, PrepareBlocks
  PROVE  IInv'
<1>1. phase = "blocks" /\ phase' = "lazy" /\ linked' = linked \cup Blocks
  BY DEF PrepareBlocks, InPhase
<1>2. \A f \in Functions : address'[f] = AddressIn("lazy", f)
  BY <1>1, EarlyFacts, EarlyPhases, EngineForm DEF PrepareBlocks, Assign
<1>3. Blocks \subseteq Functions /\ \A f \in Lazy : f \notin Blocks
  BY ProgramFacts DEF Blocks, OfKind
<1> QED BY <1>1, <1>2, <1>3, EarlyFacts, EarlyPhases, EarlyIInv DEF PrepareBlocks

\* Lazy functions get their gates.
LEMMA LazyEntriesIInv ==
  ASSUME IInv, publish_lazy_entries
  PROVE  IInv'
<1>1. phase = "lazy" /\ phase' = "eager"
  BY DEF publish_lazy_entries, InPhase
<1>2. \A f \in Functions : address'[f] = AddressIn("eager", f)
  BY <1>1, EarlyFacts, EarlyPhases, EngineForm DEF publish_lazy_entries, Assign
<1>3. statistics'.compiled = statistics.compiled /\ statistics' \in [compiled : Nat, batches : Nat]
  BY <1>1, EarlyFacts, EarlyPhases DEF publish_lazy_entries
<1> QED BY <1>1, <1>2, <1>3, EarlyFacts, EarlyPhases, EarlyIInv DEF publish_lazy_entries

\* Eager functions are placed, and nothing is published yet.
LEMMA PrepareEagerIInv ==
  ASSUME IInv, prepare_eager
  PROVE  IInv'
<1>1. phase = "eager" /\ phase' = "entries"
  BY DEF prepare_eager, InPhase
<1>2. \A f \in Functions : address'[f] = AddressIn("entries", f)
  BY <1>1, EarlyFacts, EarlyPhases, EngineForm DEF prepare_eager, Assign
<1>3. Eager \subseteq Defined /\ Eager \subseteq Functions
  BY DEF Eager, Defined, OfKind, Imports
<1>4. /\ state' = [f \in Functions |-> IF f \in Eager THEN "compiling" ELSE state[f]]
      /\ labels' = labels \cup Eager
      /\ linked' = linked \cup Eager
  BY DEF prepare_eager
<1>5. \A f \in Lazy : f \notin Eager /\ f \in Functions
  BY ProgramFacts
<1>6. state' \in [Functions -> {"uncompiled", "compiling"}]
  BY <1>1, <1>4, EarlyFacts, EarlyPhases
<1>7. \A f \in Lazy : state'[f] = state[f] /\ (f \in linked' <=> f \in linked)
  BY <1>4, <1>5
<1> QED BY <1>1, <1>2, <1>3, <1>4, <1>6, <1>7, EarlyFacts, EarlyPhases, EarlyIInv DEF prepare_eager

\* Interpreted functions that native code may call get entries.
LEMMA EntriesIInv ==
  ASSUME IInv, publish_entries
  PROVE  IInv'
<1>1. phase = "entries" /\ phase' = "guards"
  BY DEF publish_entries, InPhase
<1>2. \A f \in Functions : address'[f] = AddressIn("guards", f)
  BY <1>1, EarlyFacts, EarlyPhases, EntriesForm DEF publish_entries, Assign
<1>3. statistics'.compiled = statistics.compiled /\ statistics' \in [compiled : Nat, batches : Nat]
  BY <1>1, EarlyFacts, EarlyPhases DEF publish_entries
<1> QED BY <1>1, <1>2, <1>3, EarlyFacts, EarlyPhases, EarlyIInv DEF publish_entries

\* An interpreted JRET function of a mixed program gets a guard.
LEMMA GuardsIInv ==
  ASSUME IInv, publish_jump_guards
  PROVE  IInv'
<1>1. phase = "guards" /\ phase' = "protect"
  BY DEF publish_jump_guards, InPhase
<1>2. \A f \in Functions : address'[f] = AddressIn("protect", f)
  BY <1>1, EarlyFacts, EarlyPhases, GuardsForm DEF publish_jump_guards, Assign
<1>3. statistics'.compiled = statistics.compiled /\ statistics' \in [compiled : Nat, batches : Nat]
  BY <1>1, EarlyFacts, EarlyPhases DEF publish_jump_guards
<1> QED BY <1>1, <1>2, <1>3, EarlyFacts, EarlyPhases, EarlyIInv DEF publish_jump_guards

\* Each ordinary function gets one boundary.
LEMMA ProtectIInv ==
  ASSUME IInv, protect_native_entries
  PROVE  IInv'
<1>1. phase = "protect" /\ phase' = "publish"
  BY DEF protect_native_entries, InPhase
<1>2. \A f \in Functions : address'[f] = AddressIn("publish", f)
  BY <1>1, EarlyFacts, EarlyPhases, ProtectForm DEF protect_native_entries, Assign
<1> QED BY <1>1, <1>2, EarlyFacts, EarlyPhases, EarlyIInv DEF protect_native_entries

-----------------------------------------------------------------------------
(* Publication of the eager functions, and the phases after it.            *)

\* What a function refers to, and where it captured it.
LEMMA RelocateFacts ==
  ASSUME IInv, NEW f \in Functions
  PROVE  /\ program.calls[f] \in SUBSET Functions
         /\ Relocatable(f) => relocate(f) \in [program.calls[f] -> Address]
         /\ Relocatable(f) => relocate(f) # None
<1>1. program.calls[f] \in SUBSET Functions
  BY ProgramFacts DEF Program
<1>2. ASSUME Relocatable(f)
      PROVE  relocate(f) \in [program.calls[f] -> Address]
  <2>1. \A g \in program.calls[f] : address[g] \in Address
    BY <1>1, <1>2 DEF IInv, TypeOK, Relocatable
  <2> QED BY <2>1 DEF relocate
<1> QED BY <1>1, <1>2, NoneAssumption

\* Relocation depends on the program and on the addresses only.
LEMMA SameRelocation ==
  ASSUME program' = program, address' = address, NEW f
  PROVE  relocate(f)' = relocate(f) /\ (Relocatable(f)' <=> Relocatable(f))
BY DEF relocate, Relocatable

\* So do the names of the program's parts.
LEMMA SameProgram ==
  ASSUME program' = program
  PROVE  /\ Lazy' = Lazy /\ Eager' = Eager /\ Defined' = Defined /\ Roots' = Roots
         /\ Blocks' = Blocks /\ Interpreted' = Interpreted
         /\ CallbackOnly' = CallbackOnly /\ mixed' = mixed /\ CrossingJump' = CrossingJump
         /\ CallbackJump' = CallbackJump
BY DEF Lazy, Eager, Defined, Roots, Blocks, CallbackOnly, mixed, CrossingJump, CallbackJump,
       OfKind, has_native, has_interpreted, Interpreted, native_entries

\* Eager code is final when it is published.
LEMMA PublishEagerIInv ==
  ASSUME IInv, publish_eager
  PROVE  IInv'
<1>1. /\ phase = "publish" /\ phase' = "roots"
      /\ UNCHANGED <<program, address, linked, labels, pending, stored, frames, answer, calls>>
      /\ \A f \in Eager : Relocatable(f)
      /\ code' = [f \in Functions |-> IF f \in Eager THEN relocate(f) ELSE code[f]]
      /\ state' = [f \in Functions |-> IF f \in Eager THEN "compiled" ELSE state[f]]
      /\ statistics' = [compiled |-> statistics.compiled + Cardinality(Eager),
                        batches |-> IF Eager = {} THEN statistics.batches
                                    ELSE statistics.batches + 1]
  BY DEF publish_eager, InPhase
<1>2. /\ program \in Program
      /\ \A f \in Functions : code[f] = None /\ state[f] \in {"uncompiled", "compiling"}
      /\ frames = <<>> /\ DOMAIN frames = {} /\ DOMAIN stored = {}
      /\ Eager \subseteq labels
      /\ ~CallbackOnly /\ ~(mixed /\ CrossingJump) /\ ~CallbackJump
  <2>1. phase \in Early /\ phase \in AfterEager /\ phase \in AfterBind /\ phase \in AfterEntries
    BY <1>1, EarlyPhases
  <2>2. \A f \in Functions : code[f] = None /\ state[f] \in {"uncompiled", "compiling"}
    BY <1>1, <2>1, EarlyFacts DEF IInv, ProgressByPhase, AfterPublish, AfterRoots, AfterIndex,
                                  AfterReferences
  <2>3. frames = <<>> /\ DOMAIN stored = {}
    BY <1>1 DEF IInv, ProgressByPhase, AfterReferences
  <2> QED BY <2>1, <2>2, <2>3, EarlyFacts, EmptySeq
<1>3. Lazy \subseteq Functions /\ Eager \subseteq Functions /\ Lazy \cap Eager = {}
  BY ProgramFacts
<1>4. \A f \in Eager : code'[f] = relocate(f) /\ code'[f] \in [program.calls[f] -> Address]
                       /\ code'[f] # None
  BY <1>1, <1>3, RelocateFacts
<1>5. \A f \in Functions \ Eager : code'[f] = None /\ state'[f] = state[f]
  BY <1>1, <1>2
<1>6. Cardinality(Eager) \in Nat /\ IsFiniteSet(Eager)
  BY <1>3, ProgramAssumption, FS_Subset, FS_CardinalityType
<1>7. \A f \in Functions : relocate(f)' = relocate(f) /\ (Relocatable(f)' <=> Relocatable(f))
  BY <1>1, SameRelocation
<1>8. TypeOK'
  <2>1. \A f \in Functions : code'[f] = None \/ code'[f] \in [program.calls[f] -> Address]
    BY <1>4, <1>5
  <2>2. state' \in [Functions -> {"uncompiled", "compiling", "compiled"}]
    BY <1>1, <1>2
  <2>3. statistics' \in [compiled : Nat, batches : Nat]
    BY <1>1, <1>6 DEF IInv, TypeOK
  <2>4. DOMAIN code' = Functions /\ phase' \in Phases
    BY <1>1 DEF Phases
  <2> QED BY <1>1, <1>2, <2>1, <2>2, <2>3, <2>4, SameProgram DEF IInv, TypeOK
<1>9. AddressesByPhase'
  BY <1>1, SameForm, QuietForm DEF IInv, AddressesByPhase
<1>10. ProgressByPhase'
  <2>1. /\ phase' \in AfterPublish /\ phase' \notin AfterRoots /\ phase' # "failed"
        /\ phase' \notin AfterReferences
    BY <1>1 DEF AfterPublish, AfterRoots, AfterIndex, AfterReferences
  <2>2. \A f \in Eager : state'[f] = "compiled" /\ code'[f] # None
    BY <1>1, <1>3, <1>4
  <2>3. \A f \in Functions : code'[f] # None => f \in Eager /\ Relocatable(f)'
    BY <1>1, <1>5, <1>7
  <2>4. \A f \in Lazy : /\ (state'[f] = "compiled") <=> (f \in linked')
                        /\ (state'[f] = "compiled") <=> (code'[f] # None)
                        /\ f \in linked' => f \in labels'
    <3>1. \A f \in Lazy : state'[f] = state[f] /\ code'[f] = code[f]
      BY <1>2, <1>3, <1>5
    <3> QED BY <1>1, <3>1 DEF IInv, ProgressByPhase
  <2>5. frames' = <<>> /\ DOMAIN frames' = {} /\ DOMAIN stored' = {} /\ Len(frames') <= 1
    BY <1>1, <1>2, EmptySeq
  <2>6. \A f \in Functions : code'[f] # None => f \in Eager \cup Lazy /\ Relocatable(f)'
    BY <2>3
  <2>7. Eager \subseteq labels' /\ Eager' = Eager /\ Lazy' = Lazy
    BY <1>1, <1>2, SameProgram
  <2>8. ~CallbackOnly' /\ ~(mixed' /\ CrossingJump') /\ ~CallbackJump'
    BY <1>1, <1>2, SameProgram
  <2> QED BY <1>1, <2>1, <2>2, <2>4, <2>5, <2>6, <2>7, <2>8 DEF ProgressByPhase
<1>11. CapturedFinal'
  BY <1>1, <1>2, <1>4, <1>5, <1>7 DEF CapturedFinal
<1>12. CompilingIsActive'
  <2>1. \A f \in Lazy : state[f] # "compiling"
    BY <1>2 DEF IInv, CompilingIsActive
  <2>2. \A f \in Lazy : state'[f] = state[f]
    BY <1>3, <1>5
  <2> QED BY <1>1, <1>2, <2>1, <2>2, SameProgram DEF CompilingIsActive, Running
<1>13. StatisticsExact'
  <2>1. {f \in Functions : state'[f] = "compiled"} = Eager
    BY <1>1, <1>2, <1>3
  <2>2. {f \in Functions : state[f] = "compiled"} = {}
    BY <1>2
  <2>3. statistics.compiled = 0
    BY <2>2, FS_EmptySet DEF IInv, StatisticsExact
  <2>4. statistics'.compiled = Cardinality(Eager)
    BY <1>1, <1>6, <2>3
  <2> QED BY <2>1, <2>4 DEF StatisticsExact
<1> QED BY <1>1, <1>8, <1>9, <1>10, <1>11, <1>12, <1>13 DEF IInv

\* Steps that neither compile nor give addresses: most phases after publication,
\* the calls answered at once, and the errors that end a load.
LEMMA QuietIInv ==
  ASSUME IInv,
         UNCHANGED <<program, address, state, code, linked, labels, stored, frames, statistics>>,
         \/ phase' = phase
         \/ phase = "roots" /\ phase' = "index" /\ frames = <<>>
              /\ \A f \in Roots : state[f] = "compiled"
         \/ phase = "initialize" /\ phase' = "loaded"
         \/ phase' = "failed" /\ frames = <<>>,
         pending' \subseteq pending,
         answer'.unit = None \/ answer'.unit \in Functions,
         answer'.ok \in BOOLEAN,
         calls' \in 0..MaxCalls
  PROVE  IInv'
<1>1. \A f \in Functions : relocate(f)' = relocate(f) /\ (Relocatable(f)' <=> Relocatable(f))
  BY SameRelocation
<1>2. TypeOK'
  BY SameProgram DEF IInv, TypeOK, Phases
<1>3. AddressesByPhase'
  BY SameForm, QuietForm DEF IInv, AddressesByPhase
<1>4. CapturedFinal'
  <2>1. \A i \in DOMAIN frames : frames[i].function \in Functions
    BY ProgramFacts DEF IInv, TypeOK
  <2> QED BY <1>1, <2>1 DEF IInv, CapturedFinal
<1>5. StatisticsExact'
  BY DEF IInv, StatisticsExact
<1>6. CompilingIsActive'
  <2>1. Running' => Running
    BY DEF Running
  <2> QED BY <2>1, SameProgram DEF IInv, CompilingIsActive
<1>7. ProgressByPhase'
  <2>1. /\ \A f \in Functions : code'[f] # None => f \in Eager \cup Lazy /\ Relocatable(f)'
        /\ \A f \in Lazy :
             /\ (state'[f] = "compiled") <=> (f \in linked')
             /\ (state'[f] = "compiled") <=> (code'[f] # None)
             /\ f \in linked' => f \in labels'
    BY <1>1 DEF IInv, ProgressByPhase
  <2>2. \A i \in DOMAIN frames :
          /\ frames[i].at = "publish" => frames[i].bytes # None
          /\ frames[i].bytes # None => Relocatable(frames[i].function)'
    <3>1. \A i \in DOMAIN frames : frames[i].function \in Functions
      BY ProgramFacts DEF IInv, TypeOK
    <3> QED BY <1>1, <3>1 DEF IInv, ProgressByPhase
  <2>3. /\ phase' \in AfterBind => ~CallbackOnly /\ ~(mixed /\ CrossingJump)
        /\ phase' \in AfterEntries => ~CallbackJump
        /\ phase' \in AfterPublish => \A f \in Eager : state'[f] = "compiled" /\ code'[f] # None
        /\ phase' \in AfterEager => Eager \subseteq labels'
        /\ phase' \notin AfterPublish \cup {"failed"} =>
             \A f \in Functions : code'[f] = None /\ state'[f] # "compiled"
    BY DEF IInv, ProgressByPhase, AfterBind, AfterPrepare, AfterBlocks, AfterLazy, AfterEager,
           AfterEntries, AfterGuards, AfterProtect, AfterPublish, AfterRoots, AfterIndex,
           AfterReferences
  <2>4. /\ phase' \in AfterRoots => \A f \in Roots : state'[f] = "compiled"
        /\ phase' \notin AfterReferences \cup {"failed"} => DOMAIN stored' = {}
    BY DEF IInv, ProgressByPhase, AfterRoots, AfterIndex, AfterReferences
  <2>5. /\ phase' \notin {"roots", "initialize", "loaded"} => frames' = <<>>
        /\ phase' \in {"roots", "initialize"} => Len(frames') <= 1
    BY DEF IInv, ProgressByPhase
  <2> QED BY <2>1, <2>2, <2>3, <2>4, <2>5, SameProgram DEF ProgressByPhase
<1>8. program' \in Programs /\ frames' \in Seq(Frame)
  BY DEF IInv
<1> QED BY <1>2, <1>3, <1>4, <1>5, <1>6, <1>7, <1>8 DEF IInv

\* A failure ends the load.
LEMMA FailureIInv ==
  ASSUME IInv, LoadFails \/ Reject
  PROVE  IInv'
<1>1. phase' = "failed" /\ frames = <<>>
  BY DEF LoadFails, Reject, Abort, InPhase
<1>2. UNCHANGED <<program, address, state, code, linked, labels, pending, stored, frames, answer,
                  statistics, calls>>
  BY DEF LoadFails, Reject, Abort, image
<1> QED BY <1>1, <1>2, QuietIInv DEF IInv, TypeOK

\* Steps that publish nothing.
LEMMA QuietStepIInv ==
  ASSUME IInv, RootsReady \/ Loaded \/ \E f \in pending : Evaluate(f)
  PROVE  IInv'
<1>1. UNCHANGED <<program, address, state, code, linked, labels, stored, frames, answer, statistics,
                  calls>>
  BY DEF RootsReady, Loaded, Evaluate, image
<1>2. pending' \subseteq pending
  BY DEF RootsReady, Loaded, Evaluate, image
<1>3. \/ phase' = phase
      \/ phase = "roots" /\ phase' = "index" /\ frames = <<>>
           /\ \A f \in Roots : state[f] = "compiled"
      \/ phase = "initialize" /\ phase' = "loaded"
  BY DEF RootsReady, Loaded, Evaluate, InPhase
<1> QED BY <1>1, <1>2, <1>3, QuietIInv DEF IInv, TypeOK

\* A call that finds its function compiled, or being compiled further out.
LEMMA AnsweredIInv ==
  ASSUME IInv, NEW f \in Lazy, CompileCompiled(f) \/ CompileRecursive(f)
  PROVE  IInv'
<1>1. UNCHANGED <<program, phase, address, state, code, linked, labels, pending, stored, frames,
                  statistics>>
  BY DEF CompileCompiled, CompileRecursive, image
<1>2. f \in Functions
  BY ProgramFacts
<1>3. Asked(f) /\ Count
  BY DEF CompileCompiled, CompileRecursive
<1>4. calls' \in 0..MaxCalls
  BY <1>3, ProgramAssumption DEF Count, Asked, IInv, TypeOK
<1>5. answer'.unit \in Functions /\ answer'.ok \in BOOLEAN
  <2>1. CASE CompileCompiled(f)
    BY <1>2, <2>1 DEF CompileCompiled
  <2>2. CASE CompileRecursive(f)
    BY <1>2, <2>2 DEF CompileRecursive
  <2> QED BY <2>1, <2>2
<1> QED BY <1>1, <1>4, <1>5, QuietIInv

\* index_callees gives addresses only to symbols that nothing has relocated against.
LEMMA IndexIInv ==
  ASSUME IInv, index_callees
  PROVE  IInv'
<1>1. /\ phase = "index" /\ phase' = "references" /\ frames = <<>>
      /\ address' = Assign([f \in {g \in Functions : has_interpreted /\ address[g] = None}
                              |-> At("token", f)])
      /\ UNCHANGED <<program, state, code, linked, labels, pending, stored, frames, answer,
                     statistics, calls>>
  BY DEF index_callees, InPhase
<1>2. program \in Program /\ DOMAIN frames = {} /\ DOMAIN stored = {}
  BY <1>1, ProgramFacts, EmptySeq DEF IInv, ProgressByPhase, AfterReferences
<1>3. \A f \in Functions :
        /\ address'[f] = IF has_interpreted /\ address[f] = None THEN At("token", f) ELSE address[f]
        /\ address[f] # None => address'[f] = address[f]
  BY <1>1 DEF Assign
<1>4. \A f \in Functions : At("token", f) \in Address
  BY DEF At, Address, Kinds
<1>5. ASSUME NEW f \in Functions, Relocatable(f)
      PROVE  relocate(f)' = relocate(f) /\ Relocatable(f)'
  <2>1. \A g \in program.calls[f] : g \in Functions /\ address[g] # None
    BY <1>5, RelocateFacts DEF Relocatable
  <2>2. \A g \in program.calls[f] : address'[g] = address[g]
    BY <1>3, <2>1
  <2> QED BY <1>1, <2>1, <2>2 DEF relocate, Relocatable
<1>6. TypeOK'
  <2>1. \A f \in Functions : address'[f] = None \/ address'[f] \in Address
    BY <1>3, <1>4 DEF IInv, TypeOK
  <2>2. \A f \in Functions : code'[f] = None \/ code'[f] \in [program'.calls[f] -> Address]
    BY <1>1 DEF IInv, TypeOK
  <2> QED BY <1>1, <1>2, <2>1, <2>2, SameProgram DEF IInv, TypeOK, Phases
<1>7. AddressesByPhase'
  <2>1. \A f \in Functions : address[f] = AddressIn("index", f)
    BY <1>1 DEF IInv, AddressesByPhase
  <2>2. \A f \in Functions : address'[f] = AddressIn("references", f)
    BY <1>2, <1>3, <2>1, IndexForm
  <2> QED BY <1>1, <2>2, SameForm DEF AddressesByPhase
<1>8. CapturedFinal'
  <2>1. \A f \in Functions : code'[f] # None => code'[f] = relocate(f)'
    BY <1>1, <1>5 DEF IInv, CapturedFinal, ProgressByPhase
  <2> QED BY <1>1, <1>2, <2>1 DEF CapturedFinal
<1>9. StatisticsExact'
  BY <1>1 DEF IInv, StatisticsExact
<1>10. CompilingIsActive'
  BY <1>1, SameProgram DEF IInv, CompilingIsActive, Running
<1>11. ProgressByPhase'
  <2>1. \A f \in Functions : code'[f] # None => f \in Eager \cup Lazy /\ Relocatable(f)'
    BY <1>1, <1>5 DEF IInv, ProgressByPhase
  <2>2. \A f \in Lazy :
          /\ (state'[f] = "compiled") <=> (f \in linked')
          /\ (state'[f] = "compiled") <=> (code'[f] # None)
          /\ f \in linked' => f \in labels'
    BY <1>1 DEF IInv, ProgressByPhase
  <2>3. /\ {phase, phase'} \subseteq AfterBind /\ {phase, phase'} \subseteq AfterEntries
        /\ {phase, phase'} \subseteq AfterPublish /\ {phase, phase'} \subseteq AfterEager
        /\ {phase, phase'} \subseteq AfterRoots
    BY <1>1 DEF AfterBind, AfterPrepare, AfterBlocks, AfterLazy, AfterEager, AfterEntries,
                AfterGuards, AfterProtect, AfterPublish, AfterRoots, AfterIndex, AfterReferences
  <2>4. /\ ~CallbackOnly' /\ ~(mixed' /\ CrossingJump') /\ ~CallbackJump'
        /\ \A f \in Eager : state'[f] = "compiled" /\ code'[f] # None
        /\ Eager \subseteq labels'
        /\ \A f \in Roots : state'[f] = "compiled"
    BY <1>1, <2>3, SameProgram DEF IInv, ProgressByPhase
  <2>5. frames' = <<>> /\ DOMAIN frames' = {} /\ DOMAIN stored' = {} /\ Len(frames') <= 1
    BY <1>1, <1>2, EmptySeq
  <2>6. Eager' = Eager /\ Lazy' = Lazy /\ Roots' = Roots
    BY <1>1, SameProgram
  <2> QED BY <2>1, <2>2, <2>3, <2>4, <2>5, <2>6 DEF ProgressByPhase
<1> QED BY <1>1, <1>6, <1>7, <1>8, <1>9, <1>10, <1>11 DEF IInv

\* Data captures the addresses that the symbols keep.
LEMMA ReferencesIInv ==
  ASSUME IInv, references
  PROVE  IInv'
<1>1. /\ phase = "references" /\ phase' = "initialize" /\ frames = <<>>
      /\ \A f \in program.symbols : address[f] # None
      /\ stored' = [f \in program.symbols |-> address[f]]
      /\ UNCHANGED <<program, address, state, code, linked, labels, pending, frames, answer,
                     statistics, calls>>
  BY DEF references, InPhase
<1>2. program \in Program /\ DOMAIN frames = {} /\ Len(frames) = 0
  BY <1>1, ProgramFacts, EmptySeq
<1>3. \A f \in Functions : relocate(f)' = relocate(f) /\ (Relocatable(f)' <=> Relocatable(f))
  BY <1>1, SameRelocation
<1>4. TypeOK'
  <2>1. DOMAIN stored' \subseteq program'.symbols /\ \A f \in DOMAIN stored' : stored'[f] \in Address
    BY <1>1, <1>2 DEF IInv, TypeOK, Program
  <2>2. \A f \in Functions : code'[f] = None \/ code'[f] \in [program'.calls[f] -> Address]
    BY <1>1 DEF IInv, TypeOK
  <2> QED BY <1>1, <1>2, <2>1, <2>2, SameProgram DEF IInv, TypeOK, Phases
<1>5. AddressesByPhase'
  BY <1>1, SameForm, QuietForm DEF IInv, AddressesByPhase
<1>6. CapturedFinal'
  BY <1>1, <1>2, <1>3 DEF IInv, CapturedFinal
<1>7. StatisticsExact'
  BY <1>1 DEF IInv, StatisticsExact
<1>8. phase \in AfterPublish /\ phase \in AfterRoots
  BY <1>1 DEF AfterPublish, AfterRoots, AfterIndex, AfterReferences
<1>9. CompilingIsActive'
  <2>1. \A f \in Eager : state'[f] = "compiled"
    BY <1>1, <1>8 DEF IInv, ProgressByPhase
  <2> QED BY <1>1, <2>1, SameProgram DEF IInv, CompilingIsActive
<1>10. ProgressByPhase'
  <2>1. \A f \in Functions : code'[f] # None => f \in Eager \cup Lazy /\ Relocatable(f)'
    BY <1>1, <1>3 DEF IInv, ProgressByPhase
  <2>2. \A f \in Lazy :
          /\ (state'[f] = "compiled") <=> (f \in linked')
          /\ (state'[f] = "compiled") <=> (code'[f] # None)
          /\ f \in linked' => f \in labels'
    BY <1>1 DEF IInv, ProgressByPhase
  <2>3. /\ {phase, phase'} \subseteq AfterBind /\ {phase, phase'} \subseteq AfterEntries
        /\ {phase, phase'} \subseteq AfterPublish /\ {phase, phase'} \subseteq AfterEager
        /\ {phase, phase'} \subseteq AfterRoots /\ phase' \in AfterReferences
    BY <1>1 DEF AfterBind, AfterPrepare, AfterBlocks, AfterLazy, AfterEager, AfterEntries,
                AfterGuards, AfterProtect, AfterPublish, AfterRoots, AfterIndex, AfterReferences
  <2>4. /\ ~CallbackOnly' /\ ~(mixed' /\ CrossingJump') /\ ~CallbackJump'
        /\ \A f \in Eager : state'[f] = "compiled" /\ code'[f] # None
        /\ Eager \subseteq labels'
        /\ \A f \in Roots : state'[f] = "compiled"
    BY <1>1, <2>3, SameProgram DEF IInv, ProgressByPhase
  <2>5. frames' = <<>> /\ DOMAIN frames' = {} /\ Len(frames') <= 1
    BY <1>1, <1>2
  <2>6. Eager' = Eager /\ Lazy' = Lazy /\ Roots' = Roots
    BY <1>1, SameProgram
  <2> QED BY <2>1, <2>2, <2>3, <2>4, <2>5, <2>6 DEF ProgressByPhase
<1> QED BY <1>1, <1>4, <1>5, <1>6, <1>7, <1>9, <1>10 DEF IInv

-----------------------------------------------------------------------------
(* compile_native: the stack of its activations.                           *)

\* The activations are a sequence of lazy functions.
LEMMA FrameFacts ==
  ASSUME IInv
  PROVE  /\ frames \in Seq(Frame)
         /\ Len(frames) \in Nat
         /\ DOMAIN frames = 1..Len(frames)
         /\ \A i \in DOMAIN frames : frames[i] \in Frame /\ frames[i].function \in Lazy
         /\ frames # <<>> => Len(frames) \in DOMAIN frames /\ Len(frames) # 0
<1>1. frames \in Seq(Frame)
  BY DEF IInv
<1>2. Len(frames) \in Nat /\ DOMAIN frames = 1..Len(frames)
  BY <1>1, LenProperties
<1>3. \A i \in DOMAIN frames : frames[i] \in Frame
  BY <1>1, <1>2, ElementOfSeq
<1>4. frames # <<>> => Len(frames) # 0
  BY <1>1, EmptySeq
<1> QED BY <1>1, <1>2, <1>3, <1>4 DEF IInv, TypeOK

\* The innermost activation is replaced.
LEMMA ReplaceFacts ==
  ASSUME IInv, frames # <<>>, NEW frame \in Frame, frames' = [frames EXCEPT ![Len(frames)] = frame]
  PROVE  /\ frames' \in Seq(Frame)
         /\ Len(frames') = Len(frames)
         /\ DOMAIN frames' = DOMAIN frames
         /\ \A i \in DOMAIN frames : frames'[i] = IF i = Len(frames) THEN frame ELSE frames[i]
<1>1. PICK top \in DOMAIN frames : top = Len(frames)
  BY FrameFacts
<1>2. /\ frames' \in Seq(Frame)
      /\ Len(frames') = Len(frames)
      /\ \A i \in 1..Len(frames) : frames'[i] = IF i = top THEN frame ELSE frames[i]
  BY <1>1, FrameFacts, ExceptSeq
<1>3. DOMAIN frames' = 1..Len(frames)
  BY <1>2, LenProperties
<1> QED BY <1>1, <1>2, <1>3, FrameFacts

\* The innermost activation returns.
LEMMA ReturnFacts ==
  ASSUME IInv, frames # <<>>, frames' = SubSeq(frames, 1, Len(frames) - 1)
  PROVE  /\ frames' \in Seq(Frame)
         /\ Len(frames') = Len(frames) - 1
         /\ DOMAIN frames' = 1..(Len(frames) - 1)
         /\ \A i \in DOMAIN frames' : frames'[i] = frames[i]
         /\ DOMAIN frames = DOMAIN frames' \cup {Len(frames)}
         /\ Len(frames) \notin DOMAIN frames'
<1>1. Len(frames) - 1 \in Nat /\ Len(frames) - 1 <= Len(frames)
  BY FrameFacts
<1>2. \A i \in 1..(Len(frames) - 1) : frames[i] \in Frame
  BY FrameFacts
<1>3. /\ frames' \in Seq(Frame)
      /\ Len(frames') = Len(frames) - 1
      /\ \A i \in 1..(Len(frames) - 1) : frames'[i] = frames[i]
  BY <1>1, <1>2, FrameFacts
<1>4. DOMAIN frames' = 1..(Len(frames) - 1)
  BY <1>3, LenProperties
<1> QED BY <1>1, <1>3, <1>4, FrameFacts

\* A new innermost activation.
LEMMA PushFacts ==
  ASSUME IInv, NEW frame \in Frame, frames' = Append(frames, frame)
  PROVE  /\ frames' \in Seq(Frame)
         /\ Len(frames') = Len(frames) + 1
         /\ DOMAIN frames' = DOMAIN frames \cup {Len(frames) + 1}
         /\ Len(frames) + 1 \notin DOMAIN frames
         /\ \A i \in DOMAIN frames : frames'[i] = frames[i]
         /\ frames'[Len(frames) + 1] = frame
<1>1. /\ frames' \in Seq(Frame)
      /\ Len(frames') = Len(frames) + 1
      /\ \A i \in 1..Len(frames) : frames'[i] = frames[i]
      /\ frames'[Len(frames) + 1] = frame
  BY FrameFacts, AppendProperties
<1>2. DOMAIN frames' = 1..(Len(frames) + 1)
  BY <1>1, LenProperties
<1> QED BY <1>1, <1>2, FrameFacts

\* What an activation is and has captured, in whatever state of the stack.
Sound(frame) ==
  /\ frame \in Frame
  /\ frame.function \in Lazy
  /\ frame.bytes # None => frame.bytes = relocate(frame.function) /\ Relocatable(frame.function)
  /\ frame.at = "publish" => frame.bytes # None

\* What holds of every call in progress.
LEMMA FramesSound ==
  ASSUME IInv
  PROVE  \A i \in DOMAIN frames : Sound(frames[i])
BY FrameFacts DEF IInv, CapturedFinal, ProgressByPhase, Sound

\* Compilation works in these phases only.
LEMMA CompilingPhases ==
  ASSUME IInv, frames # <<>> \/ \E f \in Lazy : Asked(f)
  PROVE  /\ phase \in {"roots", "initialize", "loaded"}
         /\ phase \in AfterBind /\ phase \in AfterEntries /\ phase \in AfterPublish
         /\ phase \in AfterEager
         /\ phase \in AfterRoots <=> phase # "roots"
         /\ phase \in AfterReferences <=> phase # "roots"
<1>1. phase \in {"roots", "initialize", "loaded"}
  BY DEF IInv, ProgressByPhase, Asked
<1> QED BY <1>1 DEF AfterBind, AfterPrepare, AfterBlocks, AfterLazy, AfterEager, AfterEntries,
                    AfterGuards, AfterProtect, AfterPublish, AfterRoots, AfterIndex,
                    AfterReferences

\* A step of an activation, or the start of one, touches one function, which was
\* not compiled; what it leaves of the stack and of that function is sound.
LEMMA StackIInv ==
  ASSUME IInv, frames # <<>> \/ \E g \in Lazy : Asked(g),
         NEW f \in Lazy, state[f] # "compiled",
         UNCHANGED <<program, address, pending, stored>>,
         \/ phase' = phase
         \/ phase' = "failed" /\ phase # "loaded" /\ frames' = <<>>,
         NEW s \in {"uncompiled", "compiling", "compiled"},
         state' = [state EXCEPT ![f] = s],
         frames' \in Seq(Frame), \A i \in DOMAIN frames' : Sound(frames'[i]),
         phase \in {"roots", "initialize"} => Len(frames') <= 1,
         \A i, j \in DOMAIN frames' : frames'[i].function = frames'[j].function => i = j,
         \A g \in Lazy : state'[g] = "compiling" <=> \E i \in DOMAIN frames' : frames'[i].function = g,
         s = "compiled" => /\ Relocatable(f)
                           /\ code' = [code EXCEPT ![f] = relocate(f)]
                           /\ labels' = labels \cup {f}
                           /\ linked' = linked \cup {f}
                           /\ statistics'.compiled = statistics.compiled + 1,
         s # "compiled" => /\ UNCHANGED <<code, labels, linked>>
                           /\ statistics'.compiled = statistics.compiled,
         statistics' \in [compiled : Nat, batches : Nat],
         answer'.unit = None \/ answer'.unit \in Functions,
         answer'.ok \in BOOLEAN,
         calls' \in 0..MaxCalls
  PROVE  IInv'
<1>1. \A g \in Functions : relocate(g)' = relocate(g) /\ (Relocatable(g)' <=> Relocatable(g))
  BY SameRelocation
<1>2. /\ f \in Functions /\ f \in Defined /\ f \notin Eager
      /\ Lazy \subseteq Functions /\ Eager \subseteq Functions
  BY ProgramFacts DEF Lazy, Eager, Defined, OfKind, Imports
<1>3. code[f] = None /\ f \notin linked
  BY DEF IInv, ProgressByPhase
<1>4. s = "compiled" => relocate(f) \in [program.calls[f] -> Address] /\ relocate(f) # None
  BY <1>2, RelocateFacts
<1>5. /\ \A g \in Functions : g # f => code'[g] = code[g] /\ state'[g] = state[g]
      /\ state'[f] = s
      /\ code'[f] = IF s = "compiled" THEN relocate(f) ELSE None
      /\ DOMAIN code' = Functions
  BY <1>2, <1>3 DEF IInv, TypeOK
<1>6. /\ phase \in {"roots", "initialize", "loaded"} /\ phase' \in Phases
      /\ phase \in AfterBind /\ phase \in AfterEntries /\ phase \in AfterPublish
      /\ phase \in AfterEager
      /\ phase \in AfterRoots <=> phase # "roots"
      /\ phase \in AfterReferences <=> phase # "roots"
  <2>1. phase' \in Phases
    BY DEF IInv, TypeOK, Phases
  <2> QED BY <2>1, CompilingPhases
<1>7. TypeOK'
  <2>1. \A g \in Functions : code'[g] = None \/ code'[g] \in [program'.calls[g] -> Address]
    BY <1>4, <1>5 DEF IInv, TypeOK
  <2>2. state' \in [Functions -> {"uncompiled", "compiling", "compiled"}]
    BY DEF IInv, TypeOK
  <2>3. linked' \subseteq Functions /\ labels' \subseteq Defined
    BY <1>2 DEF IInv, TypeOK
  <2>4. \A i \in DOMAIN frames' :
          /\ frames'[i].function \in Lazy
          /\ frames'[i].at \in {"compile", "reserve", "relocate", "publish"}
          /\ frames'[i].bytes = None
               \/ frames'[i].bytes \in [program.calls[frames'[i].function] -> Address]
    <3> SUFFICES ASSUME NEW i \in DOMAIN frames'
                 PROVE  /\ frames'[i].function \in Lazy
                        /\ frames'[i].at \in {"compile", "reserve", "relocate", "publish"}
                        /\ frames'[i].bytes = None
                             \/ frames'[i].bytes \in [program.calls[frames'[i].function] -> Address]
      OBVIOUS
    <3>1. Sound(frames'[i])
      OBVIOUS
    <3>2. PICK frame : frame = frames'[i]
      OBVIOUS
    <3>3. frame \in Frame /\ frame.function \in Lazy /\ frame.function \in Functions
      BY <1>2, <3>1, <3>2 DEF Sound
    <3>4. frame.bytes # None => frame.bytes \in [program.calls[frame.function] -> Address]
      BY <3>1, <3>2, <3>3, RelocateFacts DEF Sound
    <3> QED BY <3>2, <3>3, <3>4 DEF Frame
  <2> QED BY <1>5, <1>6, <2>1, <2>2, <2>3, <2>4, SameProgram DEF IInv, TypeOK
<1>8. AddressesByPhase'
  BY SameForm DEF IInv, AddressesByPhase
<1>9. CapturedFinal'
  <2>1. \A g \in Functions : code'[g] # None => code'[g] = relocate(g)
    BY <1>5 DEF IInv, CapturedFinal
  <2>2. \A i \in DOMAIN frames' :
          /\ frames'[i].function \in Functions
          /\ frames'[i].bytes # None => frames'[i].bytes = relocate(frames'[i].function)
    BY <1>2 DEF Sound
  <2>3. \A g \in DOMAIN stored' : stored'[g] = address'[g]
    BY DEF IInv, CapturedFinal
  <2> QED BY <1>1, <2>1, <2>2, <2>3 DEF CapturedFinal
<1>10. CompilingIsActive'
  <2>1. Running' => Running
    BY DEF Running
  <2>2. \A g \in Eager : state'[g] = state[g]
    BY <1>2, <1>5
  <2> QED BY <2>1, <2>2, SameProgram DEF IInv, CompilingIsActive
<1>11. StatisticsExact'
  <2>1. PICK C : C = {g \in Functions : state[g] = "compiled"}
    OBVIOUS
  <2>2. IsFiniteSet(C) /\ Cardinality(C) \in Nat /\ f \notin C /\ C \subseteq Functions
    BY <2>1, ProgramAssumption, FS_Subset, FS_CardinalityType
  <2>3. {g \in Functions : state'[g] = "compiled"} = IF s = "compiled" THEN C \cup {f} ELSE C
    BY <1>2, <1>5, <2>1
  <2>4. Cardinality(C \cup {f}) = Cardinality(C) + 1
    BY <2>2, FS_AddElement
  <2>5. statistics.compiled = Cardinality(C)
    BY <2>1 DEF IInv, StatisticsExact
  <2> QED BY <2>3, <2>4, <2>5 DEF StatisticsExact
<1>12. ProgressByPhase'
  <2>1. /\ ~CallbackOnly' /\ ~(mixed' /\ CrossingJump') /\ ~CallbackJump'
        /\ Eager \subseteq labels'
    BY <1>6, SameProgram DEF IInv, ProgressByPhase
  <2>2. \A g \in Eager : state'[g] = "compiled" /\ code'[g] # None
    BY <1>2, <1>5, <1>6 DEF IInv, ProgressByPhase
  <2>3. phase' \in AfterRoots => \A g \in Roots : state'[g] = "compiled"
    <3>1. phase' \in AfterRoots => phase \in AfterRoots
      BY DEF AfterRoots, AfterIndex, AfterReferences
    <3>2. \A g \in Roots : state[g] = "compiled" => state'[g] = "compiled"
      BY <1>2, <1>5 DEF Roots
    <3> QED BY <3>1, <3>2 DEF IInv, ProgressByPhase
  <2>4. phase' \notin AfterReferences \cup {"failed"} => DOMAIN stored' = {}
    BY DEF IInv, ProgressByPhase
  <2>5. \A g \in Functions : code'[g] # None => g \in Eager \cup Lazy /\ Relocatable(g)
    BY <1>5 DEF IInv, ProgressByPhase
  <2>6. \A g \in Lazy :
          /\ (state'[g] = "compiled") <=> (g \in linked')
          /\ (state'[g] = "compiled") <=> (code'[g] # None)
          /\ g \in linked' => g \in labels'
    BY <1>2, <1>3, <1>4, <1>5 DEF IInv, ProgressByPhase
  <2>7. \A i \in DOMAIN frames' :
          /\ frames'[i].function \in Functions
          /\ frames'[i].at = "publish" => frames'[i].bytes # None
          /\ frames'[i].bytes # None => Relocatable(frames'[i].function)
    BY <1>2 DEF Sound
  <2>8. /\ phase' \notin {"roots", "initialize", "loaded"} => frames' = <<>>
        /\ phase' \in {"roots", "initialize"} => Len(frames') <= 1
    BY <1>6
  <2>9. phase' \in AfterPublish \cup {"failed"}
    BY <1>6
  <2> QED BY <1>1, <2>1, <2>2, <2>3, <2>4, <2>5, <2>6, <2>7, <2>8, <2>9, SameProgram
          DEF ProgressByPhase
<1> QED BY <1>7, <1>8, <1>9, <1>10, <1>11, <1>12 DEF IInv

\* The function of the innermost activation.
LEMMA CurrentFacts ==
  ASSUME IInv, frames # <<>>
  PROVE  /\ Len(frames) \in DOMAIN frames
         /\ Current \in Lazy /\ Current \in Functions
         /\ state[Current] = "compiling"
         /\ Sound(Top)
         /\ \A i \in DOMAIN frames : frames[i].function = Current => i = Len(frames)
         /\ phase \in {"roots", "initialize"} => Len(frames) = 1
<1>1. Len(frames) \in DOMAIN frames /\ Len(frames) \in Nat /\ Len(frames) # 0
  BY FrameFacts
<1>2. Current \in Lazy /\ Sound(Top)
  BY <1>1, FramesSound DEF Current, Top, Sound
<1>3. state[Current] = "compiling"
        /\ \A i \in DOMAIN frames : frames[i].function = Current => i = Len(frames)
  BY <1>1, <1>2 DEF IInv, CompilingIsActive, Current, Top
<1>4. phase \in {"roots", "initialize"} => Len(frames) = 1
  <2>1. phase \in {"roots", "initialize"} => Len(frames) <= 1
    BY DEF IInv, ProgressByPhase
  <2>2. \A n \in Nat : n # 0 /\ n <= 1 => n = 1
    OBVIOUS
  <2> QED BY <1>1, <2>1, <2>2
<1> QED BY <1>1, <1>2, <1>3, <1>4, ProgramFacts

\* An activation goes to its next stage, with or without bytes.
LEMMA AdvanceIInv ==
  ASSUME IInv, frames # <<>>, NEW frame, Sound(frame), frame.function = Current,
         frames' = [frames EXCEPT ![Len(frames)] = frame],
         UNCHANGED <<program, phase, address, state, code, linked, labels, pending, stored, answer,
                     statistics, calls>>
  PROVE  IInv'
<1>1. PICK f \in Lazy : f = Current
  BY CurrentFacts
<1>2. /\ frames' \in Seq(Frame)
      /\ Len(frames') = Len(frames)
      /\ DOMAIN frames' = DOMAIN frames
      /\ \A i \in DOMAIN frames : frames'[i] = IF i = Len(frames) THEN frame ELSE frames[i]
  BY ReplaceFacts DEF Sound
<1>3. \A i \in DOMAIN frames : frames'[i].function = frames[i].function
  BY <1>2 DEF Current, Top
<1>4. \A i \in DOMAIN frames' : Sound(frames'[i])
  BY <1>2, FramesSound
<1>5. state[f] = "compiling" /\ state' = [state EXCEPT ![f] = "compiling"]
  BY <1>1, CurrentFacts DEF IInv, TypeOK
<1>6. phase \in {"roots", "initialize"} => Len(frames') <= 1
  BY <1>2, CurrentFacts
<1>7. /\ \A i, j \in DOMAIN frames' : frames'[i].function = frames'[j].function => i = j
      /\ \A g \in Lazy : state'[g] = "compiling" <=> \E i \in DOMAIN frames' : frames'[i].function = g
  BY <1>2, <1>3 DEF IInv, CompilingIsActive
<1> QED BY <1>1, <1>2, <1>4, <1>5, <1>6, <1>7, StackIInv, ZenonT(30) DEF IInv, TypeOK

\* The stages of one compilation, before it is published.
LEMMA StagesIInv ==
  ASSUME IInv, Compiled \/ Reserve \/ Relocate
  PROVE  IInv'
<1>1. /\ frames # <<>>
      /\ UNCHANGED <<program, phase, address, state, code, linked, labels, pending, stored, answer,
                     statistics, calls>>
  BY DEF Compiled, Reserve, Relocate, InStage, image
<1>2. Sound(Top) /\ Top \in Frame /\ Top.function = Current /\ Current \in Functions
  BY <1>1, CurrentFacts DEF Sound, Current
<1>3. CASE Compiled
  <2>1. PICK frame : frame = [Top EXCEPT !.at = "reserve"]
    OBVIOUS
  <2>2. Sound(frame) /\ frame.function = Current
    BY <1>2, <2>1 DEF Sound, Frame
  <2>3. frames' = [frames EXCEPT ![Len(frames)] = frame]
    BY <1>3, <2>1 DEF Compiled, GoTo, Top
  <2> QED BY <1>1, <2>2, <2>3, AdvanceIInv
<1>4. CASE Reserve
  <2>1. PICK frame : frame = [Top EXCEPT !.at = "relocate"]
    OBVIOUS
  <2>2. Sound(frame) /\ frame.function = Current
    BY <1>2, <2>1 DEF Sound, Frame
  <2>3. frames' = [frames EXCEPT ![Len(frames)] = frame]
    BY <1>4, <2>1 DEF Reserve, GoTo, Top
  <2> QED BY <1>1, <2>2, <2>3, AdvanceIInv
<1>5. CASE Relocate
  <2>1. PICK frame : frame = [Top EXCEPT !.at = "publish", !.bytes = relocate(Current)]
    OBVIOUS
  <2>2. /\ Relocatable(Current) /\ program.calls[Current] \in SUBSET Functions
        /\ relocate(Current) \in [program.calls[Current] -> Address]
        /\ relocate(Current) # None
    BY <1>2, <1>5, RelocateFacts DEF Relocate
  <2>3. relocate(Current) \in Captures
    BY <2>2 DEF Captures
  <2>4. /\ frame.function = Current /\ frame.at = "publish" /\ frame.bytes = relocate(Current)
        /\ frame \in Frame
    BY <1>2, <2>1, <2>3 DEF Frame
  <2>5. Sound(frame)
    BY <1>2, <2>2, <2>4 DEF Sound
  <2>6. frames' = [frames EXCEPT ![Len(frames)] = frame]
    BY <1>5, <2>1 DEF Relocate, Top
  <2> QED BY <1>1, <2>4, <2>5, <2>6, AdvanceIInv
<1> QED BY <1>3, <1>4, <1>5

\* A call of a cold function starts its compilation above the others.
LEMMA CompileColdIInv ==
  ASSUME IInv, NEW f \in Lazy, CompileCold(f)
  PROVE  IInv'
<1>1. /\ Asked(f) /\ state[f] = "uncompiled" /\ Count
      /\ state' = [state EXCEPT ![f] = "compiling"]
      /\ UNCHANGED <<program, phase, address, code, linked, labels, pending, stored, answer,
                     statistics>>
  BY DEF CompileCold, image
<1>2. PICK frame : frame = [function |-> f, at |-> "compile", bytes |-> None]
  OBVIOUS
<1>3. Sound(frame) /\ frame.function = f
  BY <1>2, ProgramFacts DEF Sound, Frame
<1>4. /\ frames' \in Seq(Frame)
      /\ Len(frames') = Len(frames) + 1
      /\ DOMAIN frames' = DOMAIN frames \cup {Len(frames) + 1}
      /\ \A i \in DOMAIN frames : frames'[i] = frames[i]
      /\ frames'[Len(frames) + 1] = frame
  BY <1>2, <1>3, PushFacts DEF CompileCold, Sound
<1>5. \A i \in DOMAIN frames' : Sound(frames'[i])
  BY <1>3, <1>4, FramesSound
<1>6. \A i \in DOMAIN frames : frames[i].function # f
  BY <1>1 DEF IInv, CompilingIsActive
<1>7. /\ \A i, j \in DOMAIN frames' : frames'[i].function = frames'[j].function => i = j
      /\ \A g \in Lazy : state'[g] = "compiling" <=> \E i \in DOMAIN frames' : frames'[i].function = g
  <2>1. \A i, j \in DOMAIN frames' : frames'[i].function = frames'[j].function => i = j
    BY <1>3, <1>4, <1>6 DEF IInv, CompilingIsActive
  <2>2. \A g \in Lazy : state'[g] = IF g = f THEN "compiling" ELSE state[g]
    BY <1>1, ProgramFacts DEF IInv, TypeOK
  <2>3. ASSUME NEW g \in Lazy
        PROVE  state'[g] = "compiling" <=> \E i \in DOMAIN frames' : frames'[i].function = g
    <3>1. CASE g = f
      BY <1>3, <1>4, <2>2, <3>1
    <3>2. CASE g # f
      <4>1. state[g] = "compiling" <=> \E i \in DOMAIN frames : frames[i].function = g
        BY DEF IInv, CompilingIsActive
      <4> QED BY <1>3, <1>4, <2>2, <3>2, <4>1
    <3> QED BY <3>1, <3>2
  <2> QED BY <2>1, <2>3
<1>8. phase \in {"roots", "initialize"} => Len(frames') <= 1
  <2>1. phase \in {"roots", "initialize"} => Len(frames) = 0
    BY <1>1, EmptySeq DEF Asked
  <2> QED BY <1>4, <2>1
<1>9. calls' \in 0..MaxCalls
  BY <1>1, ProgramAssumption DEF Count, Asked, IInv, TypeOK
<1> QED BY <1>1, <1>4, <1>5, <1>7, <1>8, <1>9, StackIInv DEF IInv, TypeOK

\* The stack after a return, successful or not.
LEMMA ReturnStack ==
  ASSUME IInv, frames # <<>>, frames' = SubSeq(frames, 1, Len(frames) - 1),
         NEW s \in {"uncompiled", "compiled"}, state' = [state EXCEPT ![Current] = s]
  PROVE  /\ frames' \in Seq(Frame)
         /\ \A i \in DOMAIN frames' : Sound(frames'[i])
         /\ phase \in {"roots", "initialize"} => frames' = <<>> /\ Len(frames') <= 1
         /\ \A i, j \in DOMAIN frames' : frames'[i].function = frames'[j].function => i = j
         /\ \A g \in Lazy :
              state'[g] = "compiling" <=> \E i \in DOMAIN frames' : frames'[i].function = g
<1>1. /\ frames' \in Seq(Frame)
      /\ Len(frames') = Len(frames) - 1
      /\ \A i \in DOMAIN frames' : frames'[i] = frames[i]
      /\ DOMAIN frames = DOMAIN frames' \cup {Len(frames)}
      /\ Len(frames) \notin DOMAIN frames'
  BY ReturnFacts
<1>2. \A i \in DOMAIN frames' : Sound(frames'[i])
  BY <1>1, FramesSound
<1>3. phase \in {"roots", "initialize"} => frames' = <<>> /\ Len(frames') <= 1
  <2>1. phase \in {"roots", "initialize"} => Len(frames) = 1
    BY CurrentFacts
  <2>2. phase \in {"roots", "initialize"} => Len(frames') = 0
    <3>1. Len(frames') = Len(frames) - 1
      BY <1>1
    <3> QED BY <2>1, <3>1
  <2>3. Len(frames') = 0 => frames' = <<>>
    BY <1>1, EmptySeq
  <2> QED BY <2>2, <2>3
<1>4. \A i, j \in DOMAIN frames' : frames'[i].function = frames'[j].function => i = j
  BY <1>1, ZenonT(30) DEF IInv, CompilingIsActive
<1>5. ASSUME NEW g \in Lazy
      PROVE  state'[g] = "compiling" <=> \E i \in DOMAIN frames' : frames'[i].function = g
  <2>1. state'[g] = IF g = Current THEN s ELSE state[g]
    BY ProgramFacts DEF IInv, TypeOK
  <2>2. state[g] = "compiling" <=> \E i \in DOMAIN frames : frames[i].function = g
    BY DEF IInv, CompilingIsActive
  <2>3. \A i \in DOMAIN frames : frames[i].function = Current <=> i = Len(frames)
    BY CurrentFacts DEF Current, Top
  <2>4. CASE g = Current
    BY <1>1, <2>1, <2>3, <2>4
  <2>5. CASE g # Current
    BY <1>1, <2>1, <2>2, <2>3, <2>5
  <2> QED BY <2>4, <2>5
<1> QED BY <1>1, <1>2, <1>3, <1>4, <1>5

\* Publishing replaces the stub of one function.
LEMMA PublishIInv ==
  ASSUME IInv, Publish
  PROVE  IInv'
<1>1. /\ frames # <<>> /\ Top.at = "publish"
      /\ UNCHANGED <<program, phase, address, pending, stored, calls>>
      /\ frames' = SubSeq(frames, 1, Len(frames) - 1)
      /\ code' = [code EXCEPT ![Current] = Top.bytes]
      /\ labels' = labels \cup {Current}
      /\ linked' = linked \cup {Current}
      /\ state' = [state EXCEPT ![Current] = "compiled"]
      /\ statistics' = [compiled |-> statistics.compiled + 1, batches |-> statistics.batches + 1]
      /\ answer' = [unit |-> Current, ok |-> TRUE]
  BY DEF Publish, InStage
<1>2. PICK f \in Lazy : f = Current /\ f \in Functions /\ state[f] = "compiling"
  BY <1>1, CurrentFacts
<1>3. Top.bytes = relocate(f) /\ Relocatable(f)
  BY <1>1, <1>2, CurrentFacts DEF Sound, Current
<1>4. /\ frames' \in Seq(Frame)
      /\ \A i \in DOMAIN frames' : Sound(frames'[i])
      /\ phase \in {"roots", "initialize"} => Len(frames') <= 1
      /\ \A i, j \in DOMAIN frames' : frames'[i].function = frames'[j].function => i = j
      /\ \A g \in Lazy :
           state'[g] = "compiling" <=> \E i \in DOMAIN frames' : frames'[i].function = g
  BY <1>1, ReturnStack
<1>5. statistics' \in [compiled : Nat, batches : Nat]
        /\ statistics'.compiled = statistics.compiled + 1
  BY <1>1 DEF IInv, TypeOK
<1>6. answer'.unit \in Functions /\ answer'.ok \in BOOLEAN /\ calls' \in 0..MaxCalls
  BY <1>1, <1>2 DEF IInv, TypeOK
<1> QED BY <1>1, <1>2, <1>3, <1>4, <1>5, <1>6, StackIInv

\* Reset makes the function uncompiled again.
LEMMA StageFailsIInv ==
  ASSUME IInv, StageFails
  PROVE  IInv'
<1>1. /\ frames # <<>>
      /\ UNCHANGED <<program, address, labels, pending, stored, code, linked, statistics, calls>>
      /\ frames' = SubSeq(frames, 1, Len(frames) - 1)
      /\ state' = [state EXCEPT ![Current] = "uncompiled"]
      /\ answer' = [unit |-> Current, ok |-> FALSE]
      /\ phase' = IF phase = "loaded" THEN "loaded" ELSE "failed"
  BY DEF StageFails, image
<1>2. PICK f \in Lazy : f = Current /\ f \in Functions /\ state[f] = "compiling"
  BY <1>1, CurrentFacts
<1>3. /\ frames' \in Seq(Frame)
      /\ \A i \in DOMAIN frames' : Sound(frames'[i])
      /\ phase \in {"roots", "initialize"} => frames' = <<>> /\ Len(frames') <= 1
      /\ \A i, j \in DOMAIN frames' : frames'[i].function = frames'[j].function => i = j
      /\ \A g \in Lazy :
           state'[g] = "compiling" <=> \E i \in DOMAIN frames' : frames'[i].function = g
  BY <1>1, ReturnStack
<1>4. \/ phase' = phase
      \/ phase' = "failed" /\ phase # "loaded" /\ frames' = <<>>
  BY <1>1, <1>3, CompilingPhases
<1>5. answer'.unit \in Functions /\ answer'.ok \in BOOLEAN
      /\ calls' \in 0..MaxCalls /\ statistics' \in [compiled : Nat, batches : Nat]
  BY <1>1, <1>2 DEF IInv, TypeOK
<1> QED BY <1>1, <1>2, <1>3, <1>4, <1>5, StackIInv

\* Every step keeps the invariant.
LEMMA StepIInv == IInv /\ [Next]_vars => IInv'
<1> SUFFICES ASSUME IInv, [Next]_vars PROVE IInv'
  OBVIOUS
<1>1. CASE UNCHANGED vars
  BY <1>1, QuietIInv DEF vars, IInv, TypeOK
<1>2. CASE Load
  <2>1. CASE \E f \in Roots : phase = "roots" /\ CompileCold(f)
    BY <2>1, CompileColdIInv DEF Roots
  <2>2. CASE \E f \in pending \cap Lazy : phase = "initialize" /\ CompileCold(f)
    BY <2>2, CompileColdIInv
  <2>3. CASE Bind \/ Prepare \/ PrepareBlocks \/ publish_lazy_entries \/ prepare_eager
               \/ publish_entries \/ publish_jump_guards \/ protect_native_entries
    BY <2>3, BindIInv, PrepareIInv, PrepareBlocksIInv, LazyEntriesIInv, PrepareEagerIInv,
       EntriesIInv, GuardsIInv, ProtectIInv
  <2>4. CASE Reject \/ publish_eager \/ index_callees \/ references
    BY <2>4, FailureIInv, PublishEagerIInv, IndexIInv, ReferencesIInv
  <2>5. CASE RootsReady \/ Loaded \/ \E f \in pending : Evaluate(f)
    BY <2>5, QuietStepIInv
  <2> QED BY <1>2, <2>1, <2>2, <2>3, <2>4, <2>5 DEF Load
<1>3. CASE LoadFails
  BY <1>3, FailureIInv
<1>4. CASE Stage
  BY <1>4, StagesIInv, PublishIInv, StageFailsIInv DEF Stage
<1>5. CASE \E f \in Lazy : Compile(f)
  BY <1>5, AnsweredIInv, CompileColdIInv DEF Compile
<1> QED BY <1>1, <1>2, <1>3, <1>4, <1>5 DEF Next

\* The addresses that each phase leaves, and the progress of publication, are what
\* every step of loading and of compilation preserves.
THEOREM Invariance == Spec => []IInv
BY InitIInv, StepIInv, PTL DEF Spec

\* Code and data never hold an address that its symbol no longer has.
THEOREM CapturedAddressesFinal == Spec => []CapturedFinal
<1>1. IInv => CapturedFinal
  BY DEF IInv
<1> QED BY <1>1, Invariance, PTL

-----------------------------------------------------------------------------
(* What the addresses by phase mean for running code.                      *)

\* Before code that could need an address is relocated, every symbol has one.
LEMMA AddressedFacts ==
  ASSUME IInv, phase \in AfterProtect, has_native \/ (phase \in AfterIndex /\ has_interpreted),
         NEW g \in Functions
  PROVE  /\ address[g] \in Address /\ address[g] # None
         /\ KindIn(phase, g) # "none"
         /\ address[g] = [kind |-> KindIn(phase, g), of |-> g, boundaries |-> BoundariesIn(phase, g)]
<1>1. phase \in AfterEntries /\ phase # "failed"
  BY DEF AfterEntries, AfterGuards, AfterProtect, AfterPublish, AfterRoots, AfterIndex,
         AfterReferences
<1>2. Checked /\ program \in Program
  BY <1>1, CheckedFacts, ProgramFacts
<1>3. KindIn(phase, g) # "none"
  BY <1>2, AllAddressed
<1>4. address[g] = AddressIn(phase, g)
  BY <1>1 DEF IInv, AddressesByPhase
<1>5. AddressIn(phase, g) \in Address /\ AddressIn(phase, g) # None
  BY <1>3, FormFacts
<1> QED BY <1>3, <1>4, <1>5 DEF AddressIn

\* What published code captured.
LEMMA CodeFacts ==
  ASSUME IInv, phase # "failed", NEW f \in Functions, code[f] # None, NEW g \in program.calls[f]
  PROVE  /\ f \in Eager \cup Lazy /\ f \in Defined /\ g \in Functions
         /\ has_native /\ Checked /\ phase \in AfterPublish /\ phase \in AfterProtect
         /\ code[f][g] = address[g] /\ address[g] # None
<1>1. f \in Eager \cup Lazy /\ Relocatable(f) /\ code[f] = relocate(f) /\ phase \in AfterPublish
  BY DEF IInv, ProgressByPhase, CapturedFinal
<1>2. g \in Functions /\ has_native /\ f \in Defined
  BY <1>1, RelocateFacts, ProgramFacts DEF Defined, Lazy, Eager, OfKind, Imports
<1>3. phase \in AfterEntries /\ phase \in AfterProtect
  BY <1>1 DEF AfterEntries, AfterGuards, AfterProtect, AfterPublish
<1>4. Checked
  BY <1>3, CheckedFacts
<1>5. code[f][g] = address[g] /\ address[g] # None
  BY <1>1 DEF relocate, Relocatable
<1> QED BY <1>1, <1>2, <1>3, <1>4, <1>5

\* The phases in which user code runs.
LEMMA RunningFacts ==
  ASSUME Running
  PROVE  /\ phase \in AfterProtect /\ phase \in AfterPublish /\ phase \in AfterRoots
         /\ phase \in AfterIndex /\ phase # "failed"
BY DEF Running, AfterProtect, AfterPublish, AfterRoots, AfterIndex, AfterReferences

\* The invariant leaves nothing unresolved in a loaded program.
LEMMA Resolved == IInv => NothingUnresolved
<1> SUFFICES ASSUME IInv PROVE NothingUnresolved
  OBVIOUS
<1>1. ASSUME InPhase("publish"), NEW f \in Eager
      PROVE  Relocatable(f)
  <2>1. phase \in AfterProtect
    BY <1>1 DEF InPhase, AfterProtect
  <2>2. has_native /\ f \in Functions
    BY ProgramFacts
  <2> QED BY <2>1, <2>2, AddressedFacts, RelocateFacts DEF Relocatable
<1>2. ASSUME InStage("relocate")
      PROVE  Relocatable(Current)
  <2>1. frames # <<>>
    BY <1>2 DEF InStage
  <2>2. Current \in Lazy /\ Current \in Functions
    BY <2>1, CurrentFacts
  <2>3. phase \in AfterProtect
    BY <2>1, CompilingPhases DEF AfterProtect
  <2>4. has_native
    BY <2>2, ProgramFacts
  <2> QED BY <2>2, <2>3, <2>4, AddressedFacts, RelocateFacts DEF Relocatable
<1>3. ASSUME InPhase("references")
      PROVE  \A f \in program.symbols : address[f] # None
  <2>1. phase \in AfterProtect /\ phase \in AfterIndex
    BY <1>3 DEF InPhase, AfterProtect, AfterPublish, AfterRoots, AfterIndex
  <2>2. program.symbols \subseteq Functions
    BY ProgramFacts DEF Program
  <2> QED BY <2>1, <2>2, AddressedFacts, ProgramFacts
<1>4. ASSUME InPhase("references")
      PROVE  LabelsKnown
  <2>1. phase \in AfterRoots /\ phase \in AfterEager
    BY <1>3, <1>4 DEF InPhase, AfterRoots, AfterIndex, AfterEager, AfterEntries, AfterGuards,
                      AfterProtect, AfterPublish
  <2>2. ASSUME NEW f \in program.labels, f \notin Blocks \cup Interpreted
        PROVE  f \in labels
    <3>1. f \in Functions /\ program.kind[f] \notin Imports /\ program \in Program
      BY ProgramFacts
    <3>2. f \in Eager \cup Lazy
      BY <2>2, <3>1 DEF Program, Natives, Blocks, Interpreted, Eager, Lazy, OfKind
    <3>3. f \in Eager => f \in labels
      BY <2>1 DEF IInv, ProgressByPhase
    <3>4. f \in Lazy => f \in labels
      <4>1. f \in Lazy => state[f] = "compiled"
        BY <2>1 DEF IInv, ProgressByPhase, Roots
      <4> QED BY <4>1 DEF IInv, ProgressByPhase
    <3> QED BY <3>2, <3>3, <3>4
  <2> QED BY <2>2 DEF LabelsKnown
<1> QED BY <1>1, <1>2, <1>3, <1>4 DEF NothingUnresolved

\* The invariant protects each boundary once.
LEMMA BoundariesExact == IInv => BoundaryOnce
<1> DEFINE Right(a, g) ==
      a.boundaries = IF native_boundary /\ g \in Defined \ program.jump THEN 1 ELSE 0
<1> SUFFICES ASSUME IInv, Running
             PROVE  /\ \A g \in Functions : address[g] # None => Right(address[g], g)
                    /\ \A f \in Functions :
                         code[f] # None => \A g \in program.calls[f] : Right(code[f][g], g)
  BY DEF BoundaryOnce
<1>1. \A g \in Functions : address[g] # None => Right(address[g], g)
  <2> SUFFICES ASSUME NEW g \in Functions PROVE Right(address[g], g)
    OBVIOUS
  <2>1. address[g] = [kind |-> KindIn(phase, g), of |-> g, boundaries |-> BoundariesIn(phase, g)]
    BY RunningFacts, ProgramFacts, AddressedFacts
  <2> QED BY <2>1, RunningFacts DEF BoundariesIn
<1>2. \A f \in Functions : code[f] # None => \A g \in program.calls[f] : Right(code[f][g], g)
  BY <1>1, CodeFacts, RunningFacts
<1> QED BY <1>1, <1>2

\* The invariant has a guard for every jump target.
LEMMA JumpsReady == IInv => JumpTargetsReady
<1> SUFFICES ASSUME IInv, Running PROVE Lazy \cap program.jump \subseteq linked
  BY DEF JumpTargetsReady
<1>1. \A f \in Roots : state[f] = "compiled"
  BY RunningFacts DEF IInv, ProgressByPhase
<1> QED BY <1>1 DEF Roots, IInv, ProgressByPhase

\* In a load that has not failed, no code captured a guard for a jump.
LEMMA JumpsStay ==
  ASSUME IInv, phase # "failed"
  PROVE  DirectJumpsStay
<1> SUFFICES ASSUME NEW f \in Functions, code[f] # None, NEW g \in program.calls[f] \cap program.jump,
                    code[f][g].kind = "guard"
             PROVE  FALSE
  BY DEF DirectJumpsStay
<1>1. /\ f \in Eager \cup Lazy /\ f \in Defined /\ g \in Functions
      /\ has_native /\ Checked /\ phase \in AfterProtect
      /\ code[f][g] = address[g] /\ address[g] # None
  BY CodeFacts
<1>2. KindIn(phase, g) = "guard"
  <2>1. address[g] = [kind |-> KindIn(phase, g), of |-> g, boundaries |-> BoundariesIn(phase, g)]
    BY <1>1, AddressedFacts
  <2> QED BY <1>1, <2>1
<1>3. mixed /\ g \in Interpreted
  BY <1>1, <1>2, NativeForm, ProgramFacts
<1>4. f \notin Interpreted /\ g \in Defined
  BY <1>1, <1>3 DEF Interpreted, Eager, Lazy, Defined, OfKind, Imports
<1>5. CrossingJump
  BY <1>1, <1>3, <1>4 DEF CrossingJump
<1> QED BY <1>1, <1>3, <1>5 DEF Checked

\* A failed load changes no code.
LEMMA FailureKeeps ==
  ASSUME IInv, [Next]_vars, phase' = "failed"
  PROVE  UNCHANGED <<program, code>>
<1>1. CASE UNCHANGED vars
  BY <1>1 DEF vars
<1>2. CASE LoadFails \/ Reject
  BY <1>2 DEF LoadFails, Reject, Abort
<1>3. CASE Stage
  <2>1. frames # <<>> /\ (~StageFails => phase' = phase)
    BY <1>3 DEF Stage, Compiled, Reserve, Relocate, Publish, StageFails, InStage
  <2>2. StageFails
    BY <2>1, CompilingPhases
  <2> QED BY <2>2 DEF StageFails
<1>4. CASE \E f \in Lazy : Compile(f)
  BY <1>4 DEF Compile, CompileCompiled, CompileRecursive, CompileCold
<1>5. CASE Load /\ ~Reject
  <2>1. CASE \/ Bind \/ Prepare \/ PrepareBlocks \/ publish_lazy_entries \/ prepare_eager
             \/ publish_entries \/ publish_jump_guards \/ protect_native_entries \/ publish_eager
             \/ RootsReady \/ index_callees \/ references \/ Loaded
    BY <2>1 DEF Bind, Prepare, PrepareBlocks, publish_lazy_entries, prepare_eager, publish_entries,
                publish_jump_guards, protect_native_entries, publish_eager, RootsReady,
                index_callees, references, Loaded
  <2>2. CASE \E f \in pending : Evaluate(f)
    BY <2>2 DEF Evaluate
  <2>3. CASE \E f \in Functions : CompileCold(f)
    BY <2>3 DEF CompileCold
  <2>4. Lazy \subseteq Functions
    BY ProgramFacts
  <2> QED BY <1>5, <2>1, <2>2, <2>3, <2>4 DEF Load, Roots
<1> QED BY <1>1, <1>2, <1>3, <1>4, <1>5 DEF Next

\* Loading is consistent between any two steps, and stays so in a failed load.
THEOREM LoadStaysConsistent == Spec => []LoadConsistent
<1>1. Init => DirectJumpsStay
  BY DEF Init, DirectJumpsStay
<1>2. IInv /\ DirectJumpsStay /\ [Next]_vars /\ (phase = "failed")' => DirectJumpsStay'
  BY FailureKeeps DEF DirectJumpsStay
<1>3. IInv /\ ~(phase = "failed") => DirectJumpsStay
  BY JumpsStay
<1>4. IInv /\ DirectJumpsStay => LoadConsistent
  BY Resolved, BoundariesExact, JumpsReady DEF IInv, LoadConsistent
<1>5. Spec => []DirectJumpsStay
  BY <1>1, <1>2, <1>3, Invariance, PTL DEF Spec
<1> QED BY <1>4, <1>5, Invariance, PTL

\* While user code can run, every call in published native code arrives at code of
\* its callee, in every program that load accepts.
THEOREM CallsArrive == Spec => []CallsLand
<1>1. IInv => CallsLand
  <2> SUFFICES ASSUME IInv, Running, NEW f \in Functions, code[f] # None,
                      NEW g \in program.calls[f]
               PROVE  Lands(code[f][g], g)
    BY DEF CallsLand
  <2>1. /\ g \in Functions /\ has_native /\ Checked /\ phase \in AfterProtect
        /\ code[f][g] = address[g]
    BY CodeFacts, RunningFacts
  <2>2. PICK kind : kind = KindIn(phase, g)
    OBVIOUS
  <2>3. code[f][g].kind = kind /\ code[f][g].of = g
    <3>1. address[g] = [kind |-> KindIn(phase, g), of |-> g, boundaries |-> BoundariesIn(phase, g)]
      BY <2>1, AddressedFacts
    <3> QED BY <2>1, <2>2, <3>1
  <2>4. /\ kind = "code" => g \in Eager
        /\ kind = "gate" => g \in Lazy
        /\ kind = "blocks" => g \in Blocks
        /\ kind = "entry" => g \in Interpreted \cup OfKind({"callback"})
        /\ kind = "guard" => g \in Interpreted \cap program.jump
        /\ kind = "host" => g \in OfKind({"foreign", "typed"})
        /\ kind \in {"code", "gate", "blocks", "entry", "guard", "host"}
    BY <2>1, <2>2, NativeForm, ProgramFacts
  <2>5. g \in Eager => code[g] # None /\ state[g] = "compiled"
    BY RunningFacts DEF IInv, ProgressByPhase
  <2>6. g \in Lazy => (g \in linked <=> code[g] # None)
    BY DEF IInv, ProgressByPhase
  <2> QED BY <2>3, <2>4, <2>5, <2>6 DEF Lands
<1> QED BY <1>1, Invariance, PTL

-----------------------------------------------------------------------------
(* The refinement: a compilation links its function or leaves every link   *)
(* alone, while loading and after it.                                      *)

Linked == {f \in Lazy : f \in linked}
Busy == {frames[i].function : i \in DOMAIN frames}

\* A function is busy while it is compiling, and linked once it is compiled.
LEMMA ViewFacts ==
  ASSUME IInv, NEW f \in Lazy
  PROVE  /\ f \in Functions
         /\ f \in Linked <=> state[f] = "compiled"
         /\ f \in Busy <=> state[f] = "compiling"
BY ProgramFacts DEF IInv, ProgressByPhase, CompilingIsActive, Linked, Busy

\* A new activation is the abstract Begin.
LEMMA BeginView ==
  ASSUME IInv, NEW f \in Lazy, CompileCold(f)
  PROVE  Linkage!Begin(f)
<1>1. /\ state[f] = "uncompiled"
      /\ frames' = Append(frames, [function |-> f, at |-> "compile", bytes |-> None])
      /\ UNCHANGED <<program, linked, answer>>
  BY DEF CompileCold
<1>2. PICK frame \in Frame : frame = [function |-> f, at |-> "compile", bytes |-> None]
  BY ProgramFacts DEF Frame
<1>3. /\ DOMAIN frames' = DOMAIN frames \cup {Len(frames) + 1}
      /\ \A i \in DOMAIN frames : frames'[i] = frames[i]
      /\ frames'[Len(frames) + 1].function = f
      /\ Len(frames) + 1 \notin DOMAIN frames
  BY <1>1, <1>2, PushFacts
<1>4. Busy' = Busy \cup {f}
  BY <1>3 DEF Busy
<1>5. f \notin Busy /\ f \notin Linked
  BY <1>1, ViewFacts
<1>6. Linked' = Linked
  BY <1>1, SameProgram DEF Linked
<1> QED BY <1>1, <1>4, <1>5, <1>6 DEF Linkage!Begin, Linked, Busy

\* A call that returns at once finds its function linked, or busy further out.
LEMMA AnswerView ==
  ASSUME IInv, NEW f \in Lazy, CompileCompiled(f) \/ CompileRecursive(f)
  PROVE  Linkage!Reuse(f) \/ Linkage!Refuse(f)
<1>1. Linked' = Linked /\ Busy' = Busy
  BY SameProgram DEF CompileCompiled, CompileRecursive, Linked, Busy
<1>2. CASE CompileCompiled(f)
  <2>1. f \in Linked /\ answer' = [unit |-> f, ok |-> TRUE]
    BY <1>2, ViewFacts DEF CompileCompiled
  <2> QED BY <1>1, <2>1 DEF Linkage!Reuse, Linked, Busy
<1>3. CASE CompileRecursive(f)
  <2>1. f \in Busy /\ answer' = [unit |-> f, ok |-> FALSE]
    BY <1>3, ViewFacts DEF CompileRecursive
  <2> QED BY <1>1, <2>1 DEF Linkage!Refuse, Linked, Busy
<1> QED BY <1>2, <1>3

\* A failing stage is the abstract Fail, publication the abstract Finish.
LEMMA ReturnView ==
  ASSUME IInv, Publish \/ StageFails
  PROVE  \E f \in Lazy : Linkage!Fail(f) \/ Linkage!Finish(f)
<1>1. frames # <<>> /\ frames' = SubSeq(frames, 1, Len(frames) - 1) /\ program' = program
  BY DEF Publish, StageFails, InStage
<1>2. PICK f \in Lazy : f = Current
  BY <1>1, CurrentFacts
<1>3. f \in Busy /\ Busy' = Busy \ {f}
  <2>1. /\ \A i \in DOMAIN frames' : frames'[i] = frames[i]
        /\ DOMAIN frames = DOMAIN frames' \cup {Len(frames)}
        /\ Len(frames) \notin DOMAIN frames'
    BY <1>1, ReturnFacts
  <2>2. \A i \in DOMAIN frames : frames[i].function = f <=> i = Len(frames)
    BY <1>1, <1>2, CurrentFacts DEF Current, Top
  <2> QED BY <2>1, <2>2 DEF Busy
<1>4. CASE Publish
  <2>1. linked' = linked \cup {f} /\ answer' = [unit |-> f, ok |-> TRUE]
    BY <1>2, <1>4 DEF Publish
  <2>2. Linked' = Linked \cup {f}
    BY <1>1, <2>1, SameProgram DEF Linked
  <2>3. Linkage!Finish(f)
    BY <1>3, <2>1, <2>2 DEF Linkage!Finish, Linked, Busy
  <2> QED BY <2>3
<1>5. CASE StageFails
  <2>1. linked' = linked /\ answer' = [unit |-> f, ok |-> FALSE]
    BY <1>2, <1>5 DEF StageFails
  <2>2. Linked' = Linked
    BY <1>1, <2>1, SameProgram DEF Linked
  <2>3. Linkage!Fail(f)
    BY <1>3, <2>1, <2>2 DEF Linkage!Fail, Linked, Busy
  <2> QED BY <2>3
<1> QED BY <1>4, <1>5

\* The stages inside a compilation are invisible to the code that calls.
LEMMA StageView ==
  ASSUME IInv, Compiled \/ Reserve \/ Relocate
  PROVE  UNCHANGED Linkage!vars
<1>1. frames # <<>> /\ UNCHANGED <<program, linked, answer>>
  BY DEF Compiled, Reserve, Relocate, InStage
<1>2. PICK frame : frames' = [frames EXCEPT ![Len(frames)] = frame] /\ frame.function = Current
  <2>1. Top \in Frame
    BY <1>1, CurrentFacts DEF Sound
  <2>2. [Top EXCEPT !.at = "reserve"].function = Current
        /\ [Top EXCEPT !.at = "relocate"].function = Current
        /\ [Top EXCEPT !.at = "publish", !.bytes = relocate(Current)].function = Current
    BY <2>1 DEF Frame, Current
  <2> QED BY <2>2 DEF Compiled, Reserve, Relocate, GoTo, Top
<1>3. /\ DOMAIN frames' = DOMAIN frames
      /\ \A i \in DOMAIN frames : frames'[i].function = frames[i].function
  BY <1>1, <1>2, FrameFacts DEF Current, Top
<1>4. Busy' = Busy
  BY <1>3 DEF Busy
<1>5. Linked' = Linked
  BY <1>1, SameProgram DEF Linked
<1> QED BY <1>1, <1>4, <1>5 DEF Linkage!vars, Linked, Busy

\* The phases of load link nothing that a gate leads to.
LEMMA PhaseView ==
  ASSUME IInv,
         UNCHANGED <<program, frames, answer>>,
         \A f \in Lazy : f \in linked' <=> f \in linked
  PROVE  UNCHANGED Linkage!vars
<1>1. Linked' = Linked
  BY SameProgram DEF Linked
<1>2. Busy' = Busy
  BY DEF Busy
<1> QED BY <1>1, <1>2 DEF Linkage!vars, Linked, Busy

\* Every step of loading and compiling is a step of LazyLinkage or invisible in it.
LEMMA StepView == IInv /\ [Next]_vars => [Linkage!Next]_(Linkage!vars)
<1> SUFFICES ASSUME IInv, [Next]_vars PROVE [Linkage!Next]_(Linkage!vars)
  OBVIOUS
<1>1. Lazy \subseteq Functions
  BY ProgramFacts
<1>2. CASE UNCHANGED vars
  BY <1>2, PhaseView DEF vars
<1>3. CASE LoadFails \/ Reject
  BY <1>3, PhaseView DEF LoadFails, Reject, Abort
<1>4. ASSUME NEW f \in Lazy, CompileCold(f) PROVE Linkage!Next
  BY <1>1, <1>4, BeginView DEF Linkage!Next
<1>5. ASSUME NEW f \in Lazy, CompileCompiled(f) \/ CompileRecursive(f) PROVE Linkage!Next
  BY <1>1, <1>5, AnswerView DEF Linkage!Next
<1>6. CASE Compiled \/ Reserve \/ Relocate
  BY <1>6, StageView
<1>7. CASE Publish \/ StageFails
  BY <1>1, <1>7, ReturnView DEF Linkage!Next
<1>8. CASE PrepareBlocks \/ prepare_eager
  <2>1. \A f \in Lazy : f \notin Blocks /\ f \notin Eager
    BY ProgramFacts
  <2>2. linked' = linked \cup Blocks \/ linked' = linked \cup Eager
    BY <1>8 DEF PrepareBlocks, prepare_eager
  <2> QED BY <1>8, <2>1, <2>2, PhaseView DEF PrepareBlocks, prepare_eager
<1>9. CASE \/ Bind \/ Prepare \/ publish_lazy_entries \/ publish_entries \/ publish_jump_guards
           \/ protect_native_entries \/ publish_eager \/ RootsReady \/ index_callees
           \/ references \/ Loaded \/ \E f \in pending : Evaluate(f)
  <2>1. UNCHANGED <<program, frames, answer, linked>>
    BY <1>9 DEF Bind, Prepare, publish_lazy_entries, publish_entries, publish_jump_guards,
                protect_native_entries, publish_eager, RootsReady, index_callees, references,
                Loaded, Evaluate
  <2> QED BY <2>1, PhaseView
<1>10. CASE Load
  BY <1>3, <1>4, <1>8, <1>9, <1>10 DEF Load, Roots
<1> QED BY <1>2, <1>3, <1>4, <1>5, <1>6, <1>7, <1>10 DEF Next, Stage, Compile

\* Function compilation, with its stages, failures and reentry from observers,
\* implements lazy linkage while loading and after it.
THEOREM LinkageKept == Spec => KeepsLinkage
<1>1. Init => Linkage!Init
  <2> SUFFICES ASSUME Init PROVE Linkage!Init
    OBVIOUS
  <2>1. DOMAIN frames = {}
    BY EmptySeq DEF Init
  <2> QED BY <2>1 DEF Init, Linkage!Init, Linkage!NoAnswer
<1>2. IInv /\ [Next]_vars => [Linkage!Next]_(Linkage!vars)
  BY StepView
<1> QED BY <1>1, <1>2, Invariance, PTL DEF Spec, KeepsLinkage, Linkage!Spec
=============================================================================
