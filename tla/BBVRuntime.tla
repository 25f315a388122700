----------------------------- MODULE BBVRuntime -----------------------------
(***************************************************************************)
(* Lazy compilation of the basic blocks of one function: BBVRuntime::State *)
(* (lib/Execution/BBVRuntime.cpp) with the first-version policy of         *)
(* BBVState (lib/CodeGen/BBVSpecialization.cpp).                           *)
(*                                                                         *)
(* Blocks are compiled when control reaches their gate, or on an explicit  *)
(* compile(id).  The observer is user code: it may call back into the      *)
(* runtime, so activations of compile nest; `frames` is their stack.  Any  *)
(* stage may fail, and what it has stored in the block stays there for the *)
(* next attempt.                                                           *)
(***************************************************************************)
EXTENDS Integers, Sequences, FiniteSets

CONSTANTS Blocks,       \* the prepared layout's blocks
          Entry,        \* its first block
          Labels,       \* blocks with a label whose address data may hold
          Properties,   \* property sets a version may be specialized for
          NoProperties, \* the empty property set
          Flow,         \* Flow[b][p]: the edges (block, outgoing properties) of
                        \* block b specialized for p, in order of emission
          Size,         \* whole pages taken by each block's code
          Capacity,     \* pages left in the arena once the gates are published
          MaxAttempts,  \* bound: compilation attempts in a behaviour
          None          \* a null pointer or an empty optional

PageIds == 0..(Capacity - 1)

ASSUME BlocksAssumption ==
  /\ IsFiniteSet(Blocks)
  /\ Entry \in Blocks
  /\ Labels \subseteq Blocks
  /\ NoProperties \in Properties
  /\ Flow \in [Blocks -> [Properties -> Seq(Blocks \X Properties)]]
  /\ Size \in [Blocks -> Nat \ {0}]
  /\ Capacity \in Nat
  /\ MaxAttempts \in Nat
  /\ None \notin Blocks
  /\ None \notin Properties
  /\ None \notin PageIds
  /\ \A S \in SUBSET Blocks : None # S

VARIABLES
  versions,     \* BBVState::versions: the incoming properties of each block's one version
  selected,     \* blocks whose version the runtime remembers
  phase,        \* Block::phase
  artifact,     \* Block::artifact: the edges of the encoded block, or None
  reservation,  \* Block::reservation: the first page reserved, or None
  code,         \* Block::code: the page published, or None
  destination,  \* where the gate jumps: None (its cold path) or a page
  used,         \* pages of the arena handed out
  pages,        \* what is published on each page: the gates its code jumps to
  frames,       \* activations of compile, innermost last
  answer,       \* the last call that returned
  statistics    \* attempts, compiled blocks and code batches

vars == <<versions, selected, phase, artifact, reservation, code, destination, used, pages,
          frames, answer, statistics>>

Stages == {"encode", "observe", "reserve", "relocate", "publish"}

TypeOK ==
  /\ versions \in [Blocks -> Properties \cup {None}]
  /\ selected \subseteq Blocks
  /\ phase \in [Blocks -> {"cold", "compiling", "compiled"}]
  /\ artifact \in [Blocks -> (SUBSET Blocks) \cup {None}]
  /\ reservation \in [Blocks -> PageIds \cup {None}]
  /\ code \in [Blocks -> PageIds \cup {None}]
  /\ destination \in [Blocks -> PageIds \cup {None}]
  /\ used \in 0..Capacity
  /\ pages \in [PageIds -> (SUBSET Blocks) \cup {None}]
  /\ frames \in Seq([block : Blocks, stage : Stages])
  /\ answer \in [unit : Blocks \cup {None}, ok : BOOLEAN]
  /\ statistics \in [attempts : 0..MaxAttempts, compiled : Nat, batches : Nat]

Running == frames # <<>>
Top == frames[Len(frames)]
Current == Top.block

\* Calls come from outside or from the observer of the innermost activation.
CallAllowed == Running => Top.stage = "observe"

At(stage) == Running /\ Top.stage = stage

GoTo(stage) == frames' = [frames EXCEPT ![Len(frames)].stage = stage]

\* Faulty form: a failed activation leaves its block compiling.
ReturnWithoutReset(ok) ==
  /\ frames' = SubSeq(frames, 1, Len(frames) - 1)
  /\ answer' = [unit |-> Current, ok |-> ok]
  /\ phase' = [phase EXCEPT ![Current] = IF ok THEN "compiled" ELSE @]

\* Return from the innermost activation; Reset makes a block that is still
\* compiling cold again.
Return(ok) ==
  /\ frames' = SubSeq(frames, 1, Len(frames) - 1)
  /\ answer' = [unit |-> Current, ok |-> ok]
  /\ phase' = [phase EXCEPT ![Current] = IF ok THEN "compiled" ELSE "cold"]

-----------------------------------------------------------------------------
(* The first-version policy.                                               *)

\* Faulty form: the last request decides the version.
request_last(made, edge) == [made EXCEPT ![edge[1]] = edge[2]]

\* BBVState::request for one edge: the version's properties are those of the
\* first request; later ones are ignored.
request(made, edge) ==
  IF made[edge[1]] = None THEN [made EXCEPT ![edge[1]] = edge[2]] ELSE made

\* BBVState::specialize requests the version of every successor in turn.
specialize(made, b) ==
  LET edges == Flow[b][made[b]]
      after[n \in 0..Len(edges)] == IF n = 0 THEN made ELSE request(after[n - 1], edges[n])
  IN  after[Len(edges)]

Successors(b) == {Flow[b][versions[b]][i][1] : i \in DOMAIN Flow[b][versions[b]]}

-----------------------------------------------------------------------------
\* create and initialize: the gates are published, every gate leads to its cold
\* path, and the entry's version has been requested with no properties.
Init ==
  /\ versions = [b \in Blocks |-> IF b = Entry THEN NoProperties ELSE None]
  /\ selected = {Entry}
  /\ phase = [b \in Blocks |-> "cold"]
  /\ artifact = [b \in Blocks |-> None]
  /\ reservation = [b \in Blocks |-> None]
  /\ code = [b \in Blocks |-> None]
  /\ destination = [b \in Blocks |-> None]
  /\ used = 0
  /\ pages = [n \in PageIds |-> None]
  /\ frames = <<>>
  /\ answer = [unit |-> None, ok |-> FALSE]
  /\ statistics = [attempts |-> 0, compiled |-> 0, batches |-> 1]

\* label_address: selects a version with no properties unless the block has one.
LabelAddress(b) ==
  /\ CallAllowed
  /\ versions' = request(versions, <<b, NoProperties>>)
  /\ selected' = selected \cup {b}
  /\ UNCHANGED <<phase, artifact, reservation, code, destination, used, pages, frames, answer,
                 statistics>>

\* Faulty form: a compiled block is compiled again.
CompileAgain(b) ==
  /\ CallAllowed
  /\ b \in selected
  /\ phase[b] # "compiling"
  /\ statistics.attempts < MaxAttempts
  /\ phase' = [phase EXCEPT ![b] = "compiling"]
  /\ statistics' = [statistics EXCEPT !.attempts = @ + 1]
  /\ frames' = Append(frames, [block |-> b, stage |-> "encode"])
  /\ UNCHANGED <<versions, selected, artifact, reservation, code, destination, used, pages, answer>>

\* compile, or the resolver behind a cold gate, on a block whose id or gate the
\* caller can have: one the runtime has selected.
CompileCold(b) ==
  /\ CallAllowed
  /\ b \in selected
  /\ phase[b] = "cold"
  /\ statistics.attempts < MaxAttempts
  /\ phase' = [phase EXCEPT ![b] = "compiling"]
  /\ statistics' = [statistics EXCEPT !.attempts = @ + 1]
  /\ frames' = Append(frames, [block |-> b, stage |-> "encode"])
  /\ UNCHANGED <<versions, selected, artifact, reservation, code, destination, used, pages, answer>>

CompileCompiled(b) ==
  /\ CallAllowed
  /\ b \in selected
  /\ phase[b] = "compiled"
  /\ answer' = [unit |-> b, ok |-> TRUE]
  /\ UNCHANGED <<versions, selected, phase, artifact, reservation, code, destination, used, pages,
                 frames, statistics>>

\* "recursive compilation of the same block"
CompileRecursive(b) ==
  /\ CallAllowed
  /\ b \in selected
  /\ phase[b] = "compiling"
  /\ answer' = [unit |-> b, ok |-> FALSE]
  /\ UNCHANGED <<versions, selected, phase, artifact, reservation, code, destination, used, pages,
                 frames, statistics>>

-----------------------------------------------------------------------------
(* The stages of one activation.                                           *)

\* A retry reuses the artifact of the attempt that encoded it.
EncodeKept ==
  /\ At("encode")
  /\ artifact[Current] # None
  /\ GoTo("observe")
  /\ UNCHANGED <<versions, selected, phase, artifact, reservation, code, destination, used, pages,
                 answer, statistics>>

\* Faulty form: the successors are not remembered.
EncodeForgetful ==
  /\ At("encode")
  /\ artifact[Current] = None
  /\ versions' = specialize(versions, Current)
  /\ artifact' = [artifact EXCEPT ![Current] = Successors(Current)]
  /\ GoTo("observe")
  /\ UNCHANGED <<selected, phase, reservation, code, destination, used, pages, answer, statistics>>

Encode ==
  /\ At("encode")
  /\ artifact[Current] = None
  /\ versions' = specialize(versions, Current)
  /\ selected' = selected \cup Successors(Current)
  /\ artifact' = [artifact EXCEPT ![Current] = Successors(Current)]
  /\ GoTo("observe")
  /\ UNCHANGED <<phase, reservation, code, destination, used, pages, answer, statistics>>

\* encode_bbv fails before or after the specialization that requests versions;
\* in neither case are the successors remembered.
EncodeFails ==
  /\ At("encode")
  /\ artifact[Current] = None
  /\ versions' \in {versions, specialize(versions, Current)}
  /\ Return(FALSE)
  /\ UNCHANGED <<selected, artifact, reservation, code, destination, used, pages, statistics>>

\* The observer's result; whatever it called has returned.
Observe ==
  /\ At("observe")
  /\ GoTo("reserve")
  /\ UNCHANGED <<versions, selected, phase, artifact, reservation, code, destination, used, pages,
                 answer, statistics>>

ObserveFails ==
  /\ At("observe")
  /\ Return(FALSE)
  /\ UNCHANGED <<versions, selected, artifact, reservation, code, destination, used, pages,
                 statistics>>

ReserveKept ==
  /\ At("reserve")
  /\ reservation[Current] # None
  /\ GoTo("relocate")
  /\ UNCHANGED <<versions, selected, phase, artifact, reservation, code, destination, used, pages,
                 answer, statistics>>

\* Faulty form: the gate is redirected as soon as the address is known.
ReserveVisible ==
  /\ At("reserve")
  /\ reservation[Current] = None
  /\ Size[Current] <= Capacity - used
  /\ reservation' = [reservation EXCEPT ![Current] = used]
  /\ destination' = [destination EXCEPT ![Current] = used]
  /\ used' = used + Size[Current]
  /\ GoTo("relocate")
  /\ UNCHANGED <<versions, selected, phase, artifact, code, pages, answer, statistics>>

Reserve ==
  /\ At("reserve")
  /\ reservation[Current] = None
  /\ Size[Current] <= Capacity - used
  /\ reservation' = [reservation EXCEPT ![Current] = used]
  /\ used' = used + Size[Current]
  /\ GoTo("relocate")
  /\ UNCHANGED <<versions, selected, phase, artifact, code, destination, pages, answer, statistics>>

\* "code arena capacity exhausted"
ReserveFails ==
  /\ At("reserve")
  /\ reservation[Current] = None
  /\ Size[Current] > Capacity - used
  /\ Return(FALSE)
  /\ UNCHANGED <<versions, selected, artifact, reservation, code, destination, used, pages,
                 statistics>>

\* Every edge of the artifact is looked up; an edge to a block that was not
\* selected, or a symbol that cannot be resolved, is an error.
Relocate ==
  /\ At("relocate")
  /\ artifact[Current] \subseteq selected
  /\ GoTo("publish")
  /\ UNCHANGED <<versions, selected, phase, artifact, reservation, code, destination, used, pages,
                 answer, statistics>>

RelocateFails ==
  /\ At("relocate")
  /\ Return(FALSE)
  /\ UNCHANGED <<versions, selected, artifact, reservation, code, destination, used, pages,
                 statistics>>

Publish ==
  /\ At("publish")
  /\ LET b == Current
         first == reservation[b]
     IN  /\ pages' = [n \in PageIds |->
                        IF n \in first..(first + Size[b] - 1) THEN artifact[b] ELSE pages[n]]
         /\ code' = [code EXCEPT ![b] = first]
         /\ reservation' = [reservation EXCEPT ![b] = None]
         /\ destination' = [destination EXCEPT ![b] = first]
  /\ statistics' = [statistics EXCEPT !.compiled = @ + 1, !.batches = @ + 1]
  /\ Return(TRUE)
  /\ UNCHANGED <<versions, selected, artifact, used>>

\* The reservation is kept for the next attempt.
PublishFails ==
  /\ At("publish")
  /\ Return(FALSE)
  /\ UNCHANGED <<versions, selected, artifact, reservation, code, destination, used, pages,
                 statistics>>

Stage ==
  \/ EncodeKept \/ Encode \/ EncodeFails
  \/ Observe \/ ObserveFails
  \/ ReserveKept \/ Reserve \/ ReserveFails
  \/ Relocate \/ RelocateFails
  \/ Publish \/ PublishFails

Next ==
  \/ \E b \in Labels : LabelAddress(b)
  \/ \E b \in Blocks : CompileCold(b) \/ CompileCompiled(b) \/ CompileRecursive(b)
  \/ Stage

\* Compilation is sequential code: an activation on top of the stack always
\* takes its next step, and an observer returns.
Spec == Init /\ [][Next]_vars /\ WF_vars(Stage)

-----------------------------------------------------------------------------
(* Properties.                                                             *)

\* A block is compiling exactly while one activation of compile is working on
\* it: a failure in any stage, at any depth of reentry, makes it cold again, and
\* no block is on the stack twice.
CompilingIsActive ==
  /\ \A b \in Blocks : phase[b] = "compiling" <=> \E i \in DOMAIN frames : frames[i].block = b
  /\ \A i, j \in DOMAIN frames : frames[i].block = frames[j].block => i = j

\* A gate leads away from its cold path only to pages that hold this block's
\* published code and nothing else, and every edge of that code is to a gate of
\* a selected block, which its resolver can compile.
GateLeadsToCode ==
  \A b \in Blocks :
    /\ destination[b] # None <=> phase[b] = "compiled"
    /\ destination[b] # None =>
         /\ destination[b] = code[b]
         /\ artifact[b] \subseteq selected
         /\ \A n \in code[b]..(code[b] + Size[b] - 1) : pages[n] = artifact[b]

\* The pages a block occupies with its published code, or holds for it.
PagesFrom(first, b) == IF first = None THEN {} ELSE first..(first + Size[b] - 1)
Extent(b) == PagesFrom(code[b], b) \cup PagesFrom(reservation[b], b)

\* No attempt, failed or not, leaks arena space or uses it twice: what is handed
\* out is, page by page, what one compiled block occupies or one block still to
\* be published holds.
ArenaAccounted ==
  /\ UNION {Extent(b) : b \in Blocks} = 0..(used - 1)
  /\ \A b, c \in Blocks : b # c => Extent(b) \cap Extent(c) = {}
  /\ \A b \in Blocks : code[b] # None => reservation[b] = None

\* Looking up an edge of an encoded block never fails: its successors were
\* remembered before the artifact was stored.
EdgesSelected ==
  \A b \in Blocks : artifact[b] # None => artifact[b] \subseteq selected

\* What a block has reached is what its stages have stored: a selected block has
\* its version, a published one its artifact, and an activation past a stage
\* finds that stage's result, its own or the one of an earlier attempt.
StagesStored ==
  /\ \A b \in selected : versions[b] # None
  /\ \A b \in Blocks : code[b] # None => phase[b] = "compiled" /\ artifact[b] # None
  /\ \A i \in DOMAIN frames :
       /\ frames[i].block \in selected
       /\ frames[i].stage # "encode" => artifact[frames[i].block] # None
       /\ frames[i].stage \in {"relocate", "publish"} => reservation[frames[i].block] # None

\* The statistics count published code: one batch for the gates and one per
\* compiled block, and never more compilations than attempts.
StatisticsExact ==
  /\ statistics.compiled = Cardinality({b \in Blocks : phase[b] = "compiled"})
  /\ statistics.batches = 1 + statistics.compiled
  /\ statistics.compiled + Len(frames) <= statistics.attempts

\* What holds of the runtime between any two steps of any activation: every
\* stage, failure and retry leaves its tables telling one story.
RuntimeConsistent ==
  /\ TypeOK
  /\ CompilingIsActive
  /\ EdgesSelected
  /\ StagesStored
  /\ StatisticsExact
  /\ ArenaAccounted

\* The version of a block, its artifact and its published code never change
\* once they exist, whatever is requested, retried or reentered later.
FirstVersionStable ==
  [][\A b \in Blocks :
       /\ versions[b] # None => versions'[b] = versions[b]
       /\ artifact[b] # None => artifact'[b] = artifact[b]
       /\ code[b] # None => code'[b] = code[b] /\ destination'[b] = destination[b]]_vars

\* Every call of compile returns: no block stays compiling forever.
CompileReturns == \A b \in Blocks : phase[b] = "compiling" ~> phase[b] # "compiling"

Linkage == INSTANCE LazyLinkage WITH
  Units <- Blocks,
  linked <- {b \in Blocks : destination[b] # None},
  busy <- {frames[i].block : i \in DOMAIN frames},
  answer <- answer

\* Block compilation with its stages, failures and reentry implements the
\* promise of lazy linkage.
KeepsLinkage == Linkage!Spec
=============================================================================
