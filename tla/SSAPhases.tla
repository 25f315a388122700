------------------------------ MODULE SSAPhases ------------------------------
(***************************************************************************)
(* The optimizer at work on one function.  Passes run one after another in *)
(* an order the client chooses; the function is in register form or in     *)
(* its SSA phase.  A client may also write through an SSARewriter, or      *)
(* build a form by hand that takes effect when its batch ends.  A refused  *)
(* edit or a failed pass ends everything.                                  *)
(***************************************************************************)
EXTENDS SSAOptimizations, FlowPasses

-----------------------------------------------------------------------------
(***************************************************************************)
(* What a function does, for comparison: what it shows to its callees and  *)
(* its caller, for given arguments.  A body computes with registers; in    *)
(* the SSA phase an operand is the value its site is joined to, and phis   *)
(* take their values all at once on the way into their block.              *)
(***************************************************************************)

Modulus == 4             \* numbers are small
Poison == 99             \* what nothing has defined
Fuel == 40               \* blocks before a run is given up

Arithmetic(op, x, y) ==
    CASE Poison \in {x, y} -> Poison
      [] op \in {"add", "addo"} -> (x + y) % Modulus
      [] op = "sub" -> (x + Modulus - y) % Modulus
      [] op = "mul" -> (x * y) % Modulus
      [] op = "twice" -> (2 * x) % Modulus
      [] op = "shift" -> (x + x) % Modulus
      [] op = "ext" -> x % 2
      [] OTHER -> x

(* m.form: by value or by register. *)
Operand(m, i, x) == IF m.form THEN m.env[m.s.use[x]] ELSE m.env[InputRegister(i, x)]
OperandAt(m, i, k) == IF InSite(i.n, k) \in InputSites(i) THEN Operand(m, i, InSite(i.n, k)) ELSE 1

(* A label address goes where its register is read, it makes no value.     *)
Assign(m, i, x) ==
    CASE ~m.form -> [m EXCEPT !.env[i.d] = x]
      [] m.form /\ HasOutput(i) -> [m EXCEPT !.env[InsnValue(i.n)] = x]
      [] OTHER -> [m EXCEPT !.env[m.s.use[InSite(i.n, 0)]] = x]

(* A block may have two edges to the next: the one that falls through      *)
(* comes first.                                                            *)
InputFrom(s, n, source, kind) ==
    LET from == {k \in DOMAIN s.phi[n].preds : s.phi[n].preds[k] = source}
    IN  InputOf(s, n, IF kind = "fallthrough" THEN Min(from) ELSE Max(from))

Enter(m, to, kind) ==
    LET phis == IF m.form THEN Range(PhisOf(m.s, m.s.f.blocks[to].n)) ELSE {}
        source == m.s.f.blocks[m.b].n
        new == [v \in {PhiValue(n) : n \in phis} |-> m.env[InputFrom(m.s, v.n, source, kind)]]
    IN  [m EXCEPT !.b = to, !.env = new @@ @]

Stop(m, event) == [m EXCEPT !.out = Append(@, event), !.on = FALSE]

Returned(m, i) ==
    <<"ret", OperandAt(m, i, 1)>>
    \o [k \in 1 .. Cardinality(Boundary(m.s.f)) |->
          LET r == SetToSeq(Boundary(m.s.f))[k]
          IN  IF m.form THEN m.env[m.s.use[HardwareSite(i.n, r)]] ELSE m.env[r]]

Branch(m, i, taken) ==
    IF taken THEN Enter(m, Target(m.s.f, i.l[1]), "branch") ELSE Enter(m, m.b + 1, "fallthrough")

Step(m, i) ==
    LET x == OperandAt(m, i, 1)
        y == OperandAt(m, i, 2)
    IN  CASE i.op = "ret" -> Stop(m, Returned(m, i))
          [] i.op = "jmp" -> Branch(m, i, TRUE)
          [] i.op = "bt" -> IF x = Poison THEN Stop(m, <<"poison">>) ELSE Branch(m, i, x # 0)
          [] i.op = "bo" -> Branch(m, i, m.flag)
          [] i.op = "call" -> LET shown == [m EXCEPT !.out = Append(@, <<"call", x>>)]
                              IN  IF i.d = NoReg THEN shown ELSE Assign(shown, i, Arithmetic("add", x, 1))
          [] i.op \in {"addr", "laddr"} -> Assign(m, i, 1)
          [] i.op = "addo" -> [Assign(m, i, Arithmetic(i.op, x, y)) EXCEPT
                                 !.flag = Poison \notin {x, y} /\ x + y >= Modulus]
          [] OTHER -> Assign(m, i, Arithmetic(i.op, x, y))

(* A block to its end, where control moves on unless the last instruction  *)
(* has moved it.                                                           *)
RunBlock(m) ==
    LET blk == m.s.f.blocks[m.b]
        done == FoldLeft(Step, m, blk.ins)
    IN  IF Terminated(blk) THEN done ELSE Enter(done, m.b + 1, "fallthrough")

RECURSIVE Running(_, _)
Running(m, fuel) ==
    IF ~m.on THEN m.out
    ELSE IF fuel = 0 THEN Append(m.out, <<"endless">>) ELSE Running(RunBlock(m), fuel - 1)

Machine(s, form, env) == [s |-> s, form |-> form, env |-> env, b |-> 1, flag |-> FALSE, on |-> TRUE, out |-> <<>>]

(* args maps the registers the caller fills to what they hold. *)
BodyShows(f, args) ==
    Running(Machine(NewForm(f), FALSE, [r \in f.regs |-> IF r \in DOMAIN args THEN args[r] ELSE Poison]), Fuel)

FormShows(s, args) ==
    Running(Machine(s, TRUE, [v \in DOMAIN s.val |->
                                IF v.k = "entry" /\ v.r \in DOMAIN args THEN args[v.r] ELSE Poison]), Fuel)
-----------------------------------------------------------------------------


CONSTANTS Starts,       \* [f, passes, edits]: a body, the passes a client may run,
                        \* each of them once, and how often it may write by itself
          Arguments,    \* what callers pass
          Templates     \* instructions clients write

VARIABLES s,            \* the form; s.f is the body, all there is in register form
          phase,        \* "register", "pending" (a form built by hand), "ssa", "failed"
          left,         \* passes and edits that remain
          touched,      \* a client has written
          exposed,      \* flaws of passes this function has met
          stored,       \* the edges of the graph the last pass stored, <<>> if none
          shows         \* what the source does for every argument

vars == <<s, phase, left, touched, exposed, stored, shows>>

Init ==
    \E start \in Starts :
      /\ s = NewForm(start.f)
      /\ phase = "register"
      /\ left = [passes |-> start.passes, edits |-> start.edits]
      /\ touched = FALSE /\ exposed = {} /\ stored = <<>>
      /\ shows = [args \in Arguments |-> BodyShows(start.f, args)]

-----------------------------------------------------------------------------
(* Passes, as the pass manager runs them: the function verifies before and *)
(* after, or the pass has failed.  A pass that meets the wrong phase says  *)
(* so and changes nothing.                                                 *)

Sound(form, inSsa) == Verified(form.f) /\ (inSsa => FormVerified(form))

\* "= TRUE" has TLC evaluate the guard as a value, which nests less deeply.
PassReady(name, from) == phase = from /\ name \in left.passes /\ Sound(s, from = "ssa") = TRUE

PassEnds(name, to, r) ==
    /\ s' = r.s
    /\ phase' = IF r.ok /\ Sound(r.s, to = "ssa") THEN to ELSE "failed"
    /\ left' = [left EXCEPT !.passes = @ \ {name}]
    /\ UNCHANGED <<touched, shows>>

RunPass(name, from, to, results) == PassReady(name, from) /\ \E r \in results : PassEnds(name, to, r)

Body(r) == [ok |-> r.ok, s |-> NewForm(r.f)]

PrepareCFGPass ==
    /\ RunPass("build-cfg", "register", "register", {Body(PrepareCFG(s.f, prune)) : prune \in BOOLEAN})
    /\ stored' = <<>> /\ UNCHANGED exposed

BuildSSAPass ==
    /\ Buildable(s.f)
    /\ RunPass("build-ssa", "register", "ssa", {BuildSSA(s.f, rename) : rename \in BOOLEAN})
    /\ stored' = <<>> /\ UNCHANGED exposed

(* What is copied out of a register that lives in memory is read there,    *)
(* by an instruction that may not, and the pass ends over it.              *)
StorageFlaws(old, r) ==
    IF ~r.ok /\ \E i \in Instructions(old.f) : IsCopy(i) /\ i.u \in old.f.backed THEN {"storage"} ELSE {}

CopyPropagationPass ==
    /\ PassReady("copy-propagation", "ssa") /\ Optimizable(s)
    /\ \E r \in {CopyPropagation(s)} :
      /\ PassEnds("copy-propagation", "ssa", r)
      /\ exposed' = exposed \cup StorageFlaws(s, r)
      /\ UNCHANGED stored

SSADeadCodePass ==
    /\ phase = "ssa" /\ Optimizable(s)
    /\ RunPass("ssa-dce", "ssa", "ssa", {DeadCode(s)})
    /\ UNCHANGED <<exposed, stored>>

(* An instruction from behind a loop that reads one of its invariants is   *)
(* moved in front of the loop with it, whatever else it reads; and an      *)
(* instruction is moved away from the branch that tests its flags.         *)
MotionFlaws(old, new, g, t) ==
    LET moved == {i \in Instructions(old.f) :
                    old.f.blocks[BlockOf(old.f, i.n)].n # new.f.blocks[BlockOf(new.f, i.n)].n}
        looping == {old.f.blocks[b - 2].n : b \in {x \in 3 .. g.count : t.parent[x] # 0}}
    IN  (IF \E i \in moved : old.f.blocks[BlockOf(old.f, i.n)].n \notin looping THEN {"hoisted"} ELSE {})
        \cup (IF \E i \in moved : i.op = "addo" THEN {"flags"} ELSE {})

LICMPass ==
    /\ PassReady("licm", "ssa") /\ Optimizable(s)
    /\ \E g \in {GraphOf(s.f)} : \E t \in {LoopTree(g)} : \E r \in {LoopInvariantMotion(s, g, t)} :
      /\ PassEnds("licm", "ssa", r)
      /\ exposed' = exposed \cup MotionFlaws(s, r.s, g, t)
      /\ UNCHANGED stored

PressureReliefPass ==
    /\ phase = "ssa" /\ Optimizable(s)
    /\ RunPass("pressure-relief", "ssa", "ssa", {PressureRelief(s)})
    /\ UNCHANGED <<exposed, stored>>

(* A phi is read in a block where a copy for its next value came first.    *)
CopyFlaws(new) ==
    LET clobbered(n, x) ==
          LET b == BlockOf(new.f, x.n)
          IN  \E k \in 1 .. PlaceOf(new.f, x.n) - 1 : new.f.blocks[b].ins[k].d = RegOf(new, PhiValue(n))
    IN  IF \E n \in DOMAIN new.phi : \E x \in Sites(new, PhiValue(n)) : x.p = "insn" /\ clobbered(n, x)
        THEN {"copies"} ELSE {}

ConventionalSSAPass ==
    /\ PassReady("conventional-ssa", "ssa")
    /\ \E r \in {ConventionalSSA(s)} :
      /\ PassEnds("conventional-ssa", "ssa", r)
      /\ exposed' = exposed \cup CopyFlaws(r.s)
      /\ UNCHANGED stored

(* Only a form that is not renamed, or conventional, can be left. *)
DestroySSAPass ==
    /\ s.renamed => s.conventional
    /\ RunPass("destroy-ssa", "ssa", "register", {Body(DestroySSA(s))})
    /\ UNCHANGED <<exposed, stored>>

JumpOptimizationPass ==
    /\ PassReady("jump-opt", "register") /\ Buildable(s.f)
    /\ \E r \in {JumpOptimization(s.f)} :
      /\ PassEnds("jump-opt", "register", Body(r))
      /\ stored' = r.edges
      /\ UNCHANGED exposed

-----------------------------------------------------------------------------
(* SSARewriter. *)

Rewriting(from, results) ==
    /\ phase \in from /\ left.edits > 0
    /\ \E r \in results : s' = r.s /\ phase' = IF r.ok THEN phase ELSE "failed"
    /\ left' = [left EXCEPT !.edits = @ - 1]
    /\ touched' = TRUE /\ stored' = <<>>
    /\ UNCHANGED shows

Rewrite(from, results) == Rewriting(from, results) /\ UNCHANGED exposed

Forms == {"pending", "ssa"}
ValuesOf == DOMAIN s.val
Blocks == BlockNodes(s.f)
Anchors(b) == {None} \cup {i.n : i \in Range(s.f.blocks[BlockAt(s.f, b)].ins)}

CreateSSA ==
    /\ phase = "register" /\ left.edits > 0 /\ Verified(s.f)
    /\ s' = NewForm(s.f) /\ phase' = "pending" /\ touched' = TRUE /\ stored' = <<>>
    /\ UNCHANGED <<left, exposed, shows>>

(* The end of the batch installs what was built. *)
FinishEdit ==
    /\ phase = "pending"
    /\ phase' = IF FormVerified(s) THEN "ssa" ELSE "failed"
    /\ UNCHANGED <<s, left, touched, exposed, stored, shows>>

EditDefinition == Rewrite(Forms, {AddDefinition(s, i) : i \in Instructions(s.f)})

(* Bound: one value of a kind for a register. *)
EditInitial ==
    Rewrite(Forms, {Initial(s, q[1], q[2]) :
                      q \in {p \in {"entry", "undef"} \X s.f.regs : Val(p[1], None, p[2]) \notin ValuesOf}})

EditPhi ==
    Rewrite(Forms, UNION {{AddPhi(s, b, r, preds) : b \in Blocks, r \in s.f.regs} :
                            preds \in {<<>>} \cup {<<p, q>> : p \in Blocks, q \in Blocks}})

EditInput == Rewrite(Forms, UNION {{AddInput(s, i, x, v) : x \in InputSites(i), v \in ValuesOf} : i \in Instructions(s.f)})

EditHardwareInput ==
    Rewrite(Forms, {AddHardwareInput(s, i, r, v) : i \in Instructions(s.f), r \in s.f.regs, v \in ValuesOf})

EditPhiInput == Rewrite(Forms, {AddPhiInput(s, n, v) : n \in DOMAIN s.phi, v \in ValuesOf})

EditRetarget == Rewrite(Forms, {Retarget(s, x, v) : x \in DOMAIN s.use, v \in ValuesOf})

EditReplaceAllUses == Rewrite(Forms, {ReplaceAllUses(s, v, w) : v \in ValuesOf, w \in ValuesOf})

EditReplaceUses == Rewrite(Forms, UNION {{ReplaceSites(s, {x \in Sites(s, v) : x.p = p}, w) : p \in {"insn", "phi"},
                                            w \in ValuesOf} : v \in ValuesOf})

(* The sites of addresses whose operand names neither the register of what *)
(* they read nor the one it had first.                                     *)
Strays(form) ==
    {x \in DOMAIN form.use :
       /\ x.p = "insn" /\ x.i = 1
       /\ LET i == InstructionAt(form.f, x.n)
              read == form.val[form.use[x]]
          IN  i.op = "addr" /\ i.u \notin {read.reg, read.origin}}

(* A rename that keeps addresses leaves behind those that named neither    *)
(* the new register nor the first one.                                     *)
EditRename ==
    \E v \in ValuesOf, r \in s.f.regs, keep \in BOOLEAN :
      /\ Rewriting(Forms, {Rename(s, v, r, keep)})
      /\ exposed' = exposed \cup IF keep /\ Strays(s') \ Strays(s) # {} THEN {"address"} ELSE {}

EditFreshRegister == Rewrite(Forms, {Kept(FreshRegister(s, r).s) : r \in s.f.regs})

Operands(t) == {vs \in BoundedSeq(ValuesOf, 2) : Len(vs) = Len(InputList(WithNode(t, None)))}

EditReplace ==
    Rewrite(Forms, UNION {{Replace(s, i.n, t, vs) : i \in Instructions(s.f), vs \in Operands(t)} : t \in Templates})

EditReplaceMemory ==
    Rewrite(Forms, {ReplaceMemory(s, i.n, r, v) : i \in Instructions(s.f), r \in s.f.regs, v \in ValuesOf})

EditCoalesceCopy ==
    Rewrite(Forms, {IF IsCopy(i) /\ InSite(i.n, 1) \in DOMAIN s.use /\ InsnValue(i.n) \in ValuesOf
                    THEN CoalesceCopy(s, i.n) ELSE Rejected(s) : i \in Instructions(s.f)})

EditErasePhiInput == Rewrite(Forms, UNION {{ErasePhiInput(s, n, k) : k \in 1 .. Inputs(s, n)} : n \in DOMAIN s.phi})

EditErasePhi ==
    Rewrite(Forms, {ErasePhi(s, n) : n \in DOMAIN s.phi} \cup {ErasePhiFor(s, n, v) : n \in DOMAIN s.phi, v \in ValuesOf})

EditEraseInstruction == Rewrite(Forms, {EraseInstruction(s, i.n) : i \in Instructions(s.f)})

EditMoveBefore ==
    Rewrite(Forms, UNION {{MoveInstruction(s, i.n, b, a) : i \in Instructions(s.f), a \in Anchors(b)} : b \in Blocks})

EditSplitFallthrough == Rewrite(Forms, {SplitFallthrough(s, b, c) : b \in Blocks, c \in Blocks})

EditInsert ==
    Rewrite(Forms, UNION {UNION {{InsertInstruction(s, b, a, t, vs, p) : vs \in Operands(t), a \in Anchors(b),
                                    p \in {None} \cup Range(PhisOf(s, b))} : b \in Blocks} : t \in Templates})

EditMarkRenamed == Rewrite(Forms, {MarkRenamed(s)})
EditMarkConventional == Rewrite(Forms, {MarkConventional(s)})

EditSetPhiPosition ==
    Rewrite(Forms, UNION {{SetPhiPosition(s, n, i.n) : i \in Instructions(s.f)} : n \in DOMAIN s.phi})

EditComplete ==
    /\ phase = "ssa" /\ left.edits > 0
    /\ s' = IF Completable(s) THEN NewForm(s.f) ELSE s
    /\ phase' = IF Completable(s) THEN "register" ELSE "failed"
    /\ left' = [left EXCEPT !.edits = @ - 1]
    /\ touched' = TRUE /\ stored' = <<>>
    /\ UNCHANGED <<exposed, shows>>

-----------------------------------------------------------------------------
Passes ==
    \/ PrepareCFGPass \/ BuildSSAPass \/ CopyPropagationPass \/ SSADeadCodePass \/ LICMPass
    \/ PressureReliefPass \/ ConventionalSSAPass \/ DestroySSAPass \/ JumpOptimizationPass

Edits ==
    \/ CreateSSA \/ FinishEdit \/ EditDefinition \/ EditInitial \/ EditPhi \/ EditInput \/ EditHardwareInput
    \/ EditPhiInput \/ EditRetarget \/ EditReplaceAllUses \/ EditReplaceUses \/ EditRename \/ EditFreshRegister
    \/ EditReplace \/ EditReplaceMemory \/ EditCoalesceCopy \/ EditErasePhiInput \/ EditErasePhi
    \/ EditEraseInstruction \/ EditMoveBefore \/ EditSplitFallthrough \/ EditInsert \/ EditMarkRenamed
    \/ EditMarkConventional \/ EditSetPhiPosition \/ EditComplete

Next == Passes \/ Edits

Spec == Init /\ [][Next]_vars

-----------------------------------------------------------------------------
(* Properties. *)

(* A phi that waits for inputs. *)
Unfilled(form) == \E n \in DOMAIN form.phi : Inputs(form, n) # Len(form.phi[n].preds)

(* The form with its stray addresses put back to the registers they read.  *)
Readdressed(form) ==
    LET new(i) == IF InSite(i.n, 1) \in Strays(form) THEN [i EXCEPT !.u = RegOf(form, form.use[InSite(i.n, 1)])] ELSE i
        ins(blk) == [i \in DOMAIN blk.ins |-> new(blk.ins[i])]
    IN  [form EXCEPT !.f.blocks = [b \in DOMAIN @ |-> [@[b] EXCEPT !.ins = ins(form.f.blocks[b])]]]

(* What the rewriter accepts the verifier accepts, with one exception:     *)
(* after every edit of an installed form the operands of the body, the     *)
(* values, the sites and the phis agree, so ending the batch cannot fail   *)
(* over an edit that was taken (SSAUpdater's edits against                 *)
(* SSAForm::verify; SSA.hpp:223 "All SSA edits update canonical operands   *)
(* and both directions of def-use edges").  The exception are addresses    *)
(* left behind by rename(value, reg, true) (SSA.cpp:468-470): one that     *)
(* already named a register the value was renamed to is kept there when    *)
(* the value goes on to the next, and the verifier takes only the first    *)
(* and the present register of a value (SSA.cpp:212-214).  Nothing else    *)
(* of the form is wrong then, and no other edit starts it.                 *)
EditsVerify ==
    phase = "ssa" /\ ~Unfilled(s) =>
      FormVerified(Readdressed(s)) /\ (Strays(s) # {} => "address" \in exposed)

(* What the function does now: by value where values have been separated   *)
(* from registers, by register elsewhere.                                  *)
ShowsNow(args) ==
    IF phase = "ssa" /\ s.renamed /\ ~s.conventional THEN FormShows(s, args) ELSE BodyShows(s.f, args)

(* Passes in any order end without an error and leave a function that      *)
(* does, for every argument, what the source did: into the SSA phase,      *)
(* through the optimizations, out of it and through the jumps.             *)
SourceKept ==
    ~touched /\ exposed = {} =>
      phase # "failed" /\ \A args \in Arguments : ShowsNow(args) = shows[args]

(* The graph jump optimization has kept by hand and stored for later       *)
(* passes is the graph of the body it leaves.                              *)
StoredGraphExact ==
    stored # <<>> /\ phase = "register" =>
      \A e \in Range(stored) \cup Range(GraphOf(s.f).edges) :
        Cardinality({k \in DOMAIN stored : stored[k] = e})
          = Cardinality({k \in DOMAIN GraphOf(s.f).edges : GraphOf(s.f).edges[k] = e})

(* Passes in any order leave a function that does what the source did.     *)
OptimizedAsWritten == ~touched => \A args \in Arguments : ShowsNow(args) = shows[args]
=============================================================================
