------------------------------- MODULE SSAForm -------------------------------
(***************************************************************************)
(* The SSA phase of a function: its body, which stays the one definition   *)
(* of the program, and beside it values, the site each is read at, and     *)
(* phis.  Every edit changes operands and edges together and returns       *)
(* [ok, s]; all of them check before they write.                           *)
(*                                                                         *)
(* Value: the output of an instruction or a phi, or what a register holds  *)
(* on entry or where nothing defines it.  Site: an operand of an           *)
(* instruction, an input of a phi, or a hardware register at a return.     *)
(***************************************************************************)
EXTENDS IRAnalyses

Val(k, n, r) == [k |-> k, n |-> n, r |-> r]
InsnValue(n) == Val("insn", n, NoReg)
PhiValue(n) == Val("phi", n, NoReg)
NoValue == Val("none", None, NoReg)

Site(p, n, i, r) == [p |-> p, n |-> n, i |-> i, r |-> r]
InSite(n, i) == Site("insn", n, i, NoReg)
PhiSite(n, i) == Site("phi", n, i, NoReg)
HardwareSite(n, r) == Site("ret", n, 0, r)

(* SSAUpdater::create: nothing is known of the body yet.                   *)
NewForm(f) ==
    [f |-> f, val |-> <<>>, use |-> <<>>, phi |-> <<>>, order |-> <<>>, made |-> 0,
     renamed |-> FALSE, conventional |-> FALSE]

Kept(s) == [ok |-> TRUE, s |-> s]
Rejected(s) == [ok |-> FALSE, s |-> s]

Instructions(f) == UNION {Range(f.blocks[b].ins) : b \in DOMAIN f.blocks}
BlockNodes(f) == {f.blocks[b].n : b \in DOMAIN f.blocks}

(* ssa_output_operand: the destination, but of a label address.            *)
HasOutput(i) == i.d # NoReg /\ i.op # "laddr"

(* input_positions: the operands that are read, in order. *)
InputList(i) ==
    SelectSeq(<<InSite(i.n, 0), InSite(i.n, 1), InSite(i.n, 2)>>,
              LAMBDA x : CASE x.i = 0 -> i.op = "laddr" /\ i.d # NoReg
                           [] x.i = 1 -> i.u # NoReg
                           [] OTHER -> i.w # NoReg)
InputSites(i) == Range(InputList(i))

InputRegister(i, site) == CASE site.i = 0 -> i.d [] site.i = 1 -> i.u [] OTHER -> i.w

Boundary(f) == (Hardware \cap f.regs) \ f.backed
Binding(r) == IF r \in Hardware THEN r ELSE NoReg

RegOf(s, v) == s.val[v].reg
Sites(s, v) == {x \in DOMAIN s.use : s.use[x] = v}
SitesOf(s, n) == {x \in DOMAIN s.use : x.n = n}
PhisOf(s, b) == IF b \in DOMAIN s.order THEN s.order[b] ELSE <<>>
Inputs(s, phi) == Cardinality(SitesOf(s, phi))
InputOf(s, phi, i) == s.use[PhiSite(phi, i)]

(* The block a site is in; an input of a phi is in the block of the phi.   *)
UseBlock(s, site) ==
    IF site.p = "phi" THEN s.phi[site.n].block ELSE s.f.blocks[BlockOf(s.f, site.n)].n

IsCopy(i) == i.op = "mov" /\ i.d # NoReg /\ i.u # NoReg

-----------------------------------------------------------------------------
(* SSAForm::verify. *)

ValuesVerified(s) ==
    \A v \in DOMAIN s.val :
      /\ {s.val[v].reg, s.val[v].origin} \subseteq s.f.regs
      /\ v.k = "insn" => \E i \in Instructions(s.f) : i.n = v.n /\ HasOutput(i) /\ i.d = RegOf(s, v)
      /\ v.k = "phi" => v.n \in DOMAIN s.phi

PhisVerified(s) ==
    \A n \in DOMAIN s.phi :
      /\ PhiValue(n) \in DOMAIN s.val /\ s.phi[n].block \in BlockNodes(s.f)
      /\ SitesOf(s, n) = {PhiSite(n, i) : i \in DOMAIN s.phi[n].preds}
      /\ Range(s.phi[n].preds) \subseteq BlockNodes(s.f)
      /\ s.phi[n].before # None =>
           s.phi[n].before \in {i.n : i \in Range(s.f.blocks[BlockAt(s.f, s.phi[n].block)].ins)}
      /\ s.conventional => \A i \in DOMAIN s.phi[n].preds : RegOf(s, InputOf(s, n, i)) = RegOf(s, PhiValue(n))

OrderVerified(s) ==
    /\ \A b \in DOMAIN s.order : IsInjective(s.order[b]) /\ \A n \in Range(s.order[b]) : n \in DOMAIN s.phi
    /\ \A n \in DOMAIN s.phi : \A b \in DOMAIN s.order : n \in Range(s.order[b]) <=> s.phi[n].block = b
    /\ {s.phi[n].block : n \in DOMAIN s.phi} \subseteq DOMAIN s.order

SiteVerified(s, x) ==
    CASE x.p = "insn" ->
           \E i \in Instructions(s.f) :
             /\ i.n = x.n /\ x \in InputSites(i)
             /\ \/ InputRegister(i, x) = RegOf(s, s.use[x])
                \/ i.op = "addr" /\ x.i = 1 /\ i.u = s.val[s.use[x]].origin
      [] x.p = "phi" -> x.n \in DOMAIN s.phi
      [] OTHER ->
           /\ \E i \in Instructions(s.f) : i.n = x.n /\ i.op = "ret"
           /\ x.r \in Boundary(s.f) /\ Binding(RegOf(s, s.use[x])) = x.r

UsesVerified(s) == \A x \in DOMAIN s.use : s.use[x] \in DOMAIN s.val /\ SiteVerified(s, x)

(* Nothing of the body is left without its value or its site.              *)
BodyCovered(s) ==
    \A i \in Instructions(s.f) :
      /\ HasOutput(i) => InsnValue(i.n) \in DOMAIN s.val
      /\ InputSites(i) \subseteq DOMAIN s.use
      /\ i.op = "ret" => \A r \in Boundary(s.f) : HardwareSite(i.n, r) \in DOMAIN s.use

FormVerified(s) ==
    ValuesVerified(s) /\ PhisVerified(s) /\ OrderVerified(s) /\ UsesVerified(s) /\ BodyCovered(s)

-----------------------------------------------------------------------------
(* Adding values, phis and sites. *)

AddDefinition(s, i) ==
    IF ~HasOutput(i) \/ InsnValue(i.n) \in DOMAIN s.val THEN Rejected(s)
    ELSE Kept([s EXCEPT !.val = @ @@ (InsnValue(i.n) :> [reg |-> i.d, origin |-> i.d])])

Initial(s, k, r) == Kept([s EXCEPT !.val = (Val(k, None, r) :> [reg |-> r, origin |-> r]) @@ @])

NextPhi(s) == [a |-> 0, g |-> s.made + 1]

AddPhi(s, b, r, preds) ==
    LET n == NextPhi(s)
        ins == s.f.blocks[BlockAt(s.f, b)].ins
    IN  Kept([s EXCEPT !.val = @ @@ (PhiValue(n) :> [reg |-> r, origin |-> r]),
                       !.phi = @ @@ (n :> [block |-> b, preds |-> preds,
                                           before |-> IF ins = <<>> THEN None ELSE Head(ins).n]),
                       !.order = (b :> <<n>> \o PhisOf(s, b)) @@ @,
                       !.made = @ + 1])

AddInput(s, i, site, v) ==
    IF \/ site \in DOMAIN s.use
       \/ InputRegister(i, site) # RegOf(s, v) /\ ~(i.op = "addr" /\ site.i = 1 /\ i.u = s.val[v].origin)
    THEN Rejected(s)
    ELSE Kept([s EXCEPT !.use = @ @@ (site :> v)])

AddHardwareInput(s, i, r, v) ==
    IF i.op # "ret" \/ r \notin Hardware \/ Binding(RegOf(s, v)) # r \/ HardwareSite(i.n, r) \in DOMAIN s.use
    THEN Rejected(s)
    ELSE Kept([s EXCEPT !.use = @ @@ (HardwareSite(i.n, r) :> v)])

AddPhiInput(s, n, v) ==
    IF Inputs(s, n) >= Len(s.phi[n].preds) THEN Rejected(s)
    ELSE Kept([s EXCEPT !.use = @ @@ (PhiSite(n, Inputs(s, n) + 1) :> v)])

-----------------------------------------------------------------------------
(* Rewriting registers under values. *)

(* The operand lists of all the sites change at once; the site of an       *)
(* address may keep the register it names.                                 *)
Renewed(sites, reg, preserve, def, i) ==
    LET moved(p) == InSite(i.n, p) \in sites /\ ~(preserve /\ i.op = "addr" /\ p = 1)
    IN  [i EXCEPT !.d = IF (def.k = "insn" /\ def.n = i.n) \/ moved(0) THEN reg ELSE @,
                  !.u = IF moved(1) THEN reg ELSE @,
                  !.w = IF moved(2) THEN reg ELSE @]

Renamed(s, sites, reg, preserve, def) ==
    LET new(done, i) == Append(done, Renewed(sites, reg, preserve, def, i))
        blocks(done, b) == Append(done, [b EXCEPT !.ins = FoldLeft(new, <<>>, @)])
    IN  [s.f EXCEPT !.blocks = FoldLeft(blocks, <<>>, @)]

(* Refused is a rewrite that takes an input of a conventional phi or a     *)
(* hardware return apart, or makes an instruction invalid.                 *)
Breaks(s, sites, reg, preserve, def) ==
    \/ \E x \in sites :
         \/ x.p = "phi" /\ s.conventional /\ reg # RegOf(s, PhiValue(x.n))
         \/ x.p = "ret" /\ Binding(reg) # x.r
    \/ \E i \in Instructions(s.f) :
         LET new == Renewed(sites, reg, preserve, def, i) IN new # i /\ ~ValidInstruction(s.f, new)

Redirect(s, sites, v) == [s EXCEPT !.use = [x \in sites |-> v] @@ @]

ReplaceSites(s, sites, v) ==
    IF Breaks(s, sites, RegOf(s, v), FALSE, NoValue) THEN Rejected(s)
    ELSE Kept([Redirect(s, sites, v) EXCEPT
                 !.f = Renamed(s, sites, RegOf(s, v), FALSE, NoValue),
                 !.renamed = @ \/ \E x \in sites : RegOf(s, s.use[x]) # RegOf(s, v)])

(* A value leaves its register when another takes its place, used or not.  *)
Apart(r, s, from, to) ==
    IF r.ok THEN Kept([r.s EXCEPT !.renamed = @ \/ RegOf(s, from) # RegOf(s, to)]) ELSE r

(* Nothing is written when the use has the value already. *)
Retarget(s, x, v) == IF s.use[x] = v THEN Kept(s) ELSE ReplaceSites(s, {x}, v)

ReplaceAllUses(s, from, to) == IF from = to THEN Kept(s) ELSE Apart(ReplaceSites(s, Sites(s, from), to), s, from, to)

Rename(s, v, reg, preserve) ==
    CASE Binding(RegOf(s, v)) # Binding(reg) -> Rejected(s)
      [] RegOf(s, v) = reg -> Kept(s)
      [] /\ v.k = "phi" /\ s.conventional
         /\ \E k \in 1 .. Inputs(s, v.n) : RegOf(s, InputOf(s, v.n, k)) # reg -> Rejected(s)
      [] Breaks(s, Sites(s, v), reg, preserve, v) -> Rejected(s)
      [] OTHER -> Kept([s EXCEPT !.f = Renamed(s, Sites(s, v), reg, preserve, v), !.val[v].reg = reg,
                                 !.renamed = TRUE])

(* A register bound to hardware is its own copy. *)
FreshRegister(s, r) ==
    IF r \in Hardware THEN [s |-> s, r |-> r]
    ELSE LET new == CHOOSE x \in Registers \ (s.f.regs \cup Hardware) : TRUE
         IN  [s |-> [s EXCEPT !.f.regs = @ \cup {new}], r |-> new]

-----------------------------------------------------------------------------
(* Instructions. *)

Without(fun, keys) == [x \in DOMAIN fun \ keys |-> fun[x]]

(* One value for every operand an instruction reads, in its register.      *)
Reading(s, i, vs) ==
    Len(vs) = Len(InputList(i)) /\ \A k \in DOMAIN vs : InputRegister(i, InputList(i)[k]) = RegOf(s, vs[k])

Edges(i, vs) == [x \in InputSites(i) |-> vs[CHOOSE k \in DOMAIN vs : InputList(i)[k] = x]]

(* A new operation for an instruction must write the values registered for *)
(* the old one and read the values it is given.                            *)
Replace(s, n, t, vs) ==
    LET body == ReplaceOwned(s.f, n, t)
        new == WithNode(t, n)
        defined == InsnValue(n) \in DOMAIN s.val
    IN  IF \/ HasOutput(t) # defined \/ (defined /\ t.d # RegOf(s, InsnValue(n)))
           \/ ~Reading(s, new, vs) \/ \E x \in SitesOf(s, n) : x.p = "ret"
           \/ ~body.ok
        THEN Rejected(s)
        ELSE Kept([s EXCEPT !.f = body.f, !.use = Edges(new, vs) @@ Without(@, SitesOf(s, n))])

(* The base of a memory operand. *)
ReplaceMemory(s, n, r, v) ==
    LET i == InstructionAt(s.f, n)
    IN  IF i.op # "load" \/ RegOf(s, v) # r THEN Rejected(s)
        ELSE Kept([s EXCEPT !.f = ReplaceOwned(s.f, n, [i EXCEPT !.u = r]).f,
                            !.use = (InSite(n, 1) :> v) @@ @])

(* The instruction after another one in its block. *)
NextInstruction(f, n) ==
    LET ins == f.blocks[BlockOf(f, n)].ins
    IN  IF PlaceOf(f, n) = Len(ins) THEN None ELSE ins[PlaceOf(f, n) + 1].n

(* Faulty form: a phi keeps an erased instruction as its place.            *)
PassAnchorsNever(s, n) == s.phi

(* Phis in front of an instruction that goes stand in front of the next.   *)
PassAnchors(s, n) ==
    [p \in {q \in DOMAIN s.phi : s.phi[q].before = n} |-> [s.phi[p] EXCEPT !.before = NextInstruction(s.f, n)]]
    @@ s.phi

EraseInstruction(s, n) ==
    IF InsnValue(n) \in DOMAIN s.val /\ Sites(s, InsnValue(n)) # {} THEN Rejected(s)
    ELSE Kept([s EXCEPT !.f = Erase(s.f, n).f, !.phi = PassAnchors(s, n),
                        !.val = Without(@, {InsnValue(n)}), !.use = Without(@, SitesOf(s, n))])

MoveInstruction(s, n, b, before) ==
    LET moved == MoveBefore(s.f, n, BlockAt(s.f, b), before)
        passed == PassAnchors(s, n)
    IN  IF Flow(InstructionAt(s.f, n).op) # "next" \/ (before # None /\ s.f.blocks[BlockOf(s.f, before)].n # b)
        THEN Rejected(s)
        ELSE IF before = n THEN Kept(s)
        ELSE IF ~moved.ok THEN Rejected(s)
        ELSE Kept([s EXCEPT !.f = moved.f,
                            !.phi = [p \in {q \in DOMAIN passed : passed[q].block = b /\ passed[q].before = before} |->
                                       [passed[p] EXCEPT !.before = n]] @@ passed])

(* Phis anchored where an instruction goes in end up in front of it, those *)
(* listed behind the phi it is put after excepted.                         *)
AnchorsAfterInsert(s, b, before, after, n) ==
    LET listed == PhisOf(s, b)
        stop == IF after = None THEN Len(listed) ELSE CHOOSE k \in DOMAIN listed : listed[k] = after
        here == {p \in {listed[k] : k \in 1 .. stop} : s.phi[p].before = before}
    IN  [p \in here |-> [s.phi[p] EXCEPT !.before = n]] @@ s.phi

InsertInstruction(s, b, before, t, vs, after) ==
    LET at == BlockAt(s.f, b)
        place == IF before = None THEN Len(s.f.blocks[at].ins) + 1 ELSE PlaceOf(s.f, before)
        n == NewNode(s.f)
        new == WithNode(t, n)
    IN  IF \/ Flow(t.op) # "next" \/ ~ValidInstruction(s.f, t)
           \/ before # None /\ BlockOf(s.f, before) # at
           \/ before = None /\ Terminated(s.f.blocks[at])
           \/ after # None /\ (s.phi[after].block # b \/ s.phi[after].before # before)
           \/ ~Reading(s, new, vs)
        THEN Rejected(s)
        ELSE Kept([s EXCEPT !.f = PlaceInstruction(s.f, at, place, t),
                            !.phi = AnchorsAfterInsert(s, b, before, after, n),
                            !.val = IF HasOutput(t) THEN @ @@ (InsnValue(n) :> [reg |-> t.d, origin |-> t.d]) ELSE @,
                            !.use = Edges(new, vs) @@ @])

(* The source of a copy takes over the register and the uses of the copy.  *)
CoalesceCopy(s, n) ==
    LET i == InstructionAt(s.f, n)
        source == s.use[InSite(n, 1)]
        all == Sites(s, source) \cup Sites(s, InsnValue(n))
    IN  IF \/ ~IsCopy(i) \/ source.k \notin {"insn", "phi"} \/ source = InsnValue(n)
           \/ /\ source.k = "phi" /\ s.conventional
              /\ \E k \in 1 .. Inputs(s, source.n) : RegOf(s, InputOf(s, source.n, k)) # i.d
           \/ Breaks(s, all, i.d, FALSE, source)
        THEN Rejected(s)
        ELSE EraseInstruction([Redirect(s, all, source) EXCEPT !.f = Renamed(s, all, i.d, FALSE, source),
                                                               !.val[source].reg = i.d, !.renamed = TRUE], n)

-----------------------------------------------------------------------------
(* Phis. *)

ErasePhiInput(s, n, k) ==
    LET kept == {x \in SitesOf(s, n) : x.i # Inputs(s, n)}
    IN  Kept([s EXCEPT !.use = [x \in kept |-> InputOf(s, n, IF x.i < k THEN x.i ELSE x.i + 1)]
                               @@ Without(@, SitesOf(s, n)),
                       !.phi[n].preds = RemoveAt(@, k),
                       !.conventional = FALSE])

DropPhi(s, n) ==
    [s EXCEPT !.val = Without(@, {PhiValue(n)}), !.use = Without(@, SitesOf(s, n)), !.phi = Without(@, {n}),
              !.order[s.phi[n].block] = SelectSeq(@, LAMBDA p : p # n)]

ErasePhi(s, n) == IF Sites(s, PhiValue(n)) # {} THEN Rejected(s) ELSE Kept(DropPhi(s, n))

ErasePhiFor(s, n, v) ==
    LET replaced == ReplaceAllUses(s, PhiValue(n), v)
    IN  IF v = PhiValue(n) \/ ~replaced.ok THEN Rejected(s) ELSE Kept(DropPhi(replaced.s, n))

SetPhiPosition(s, n, before) ==
    IF before # None /\ s.f.blocks[BlockOf(s.f, before)].n # s.phi[n].block THEN Rejected(s)
    ELSE Kept([s EXCEPT !.phi[n].before = before])

(* A branch may also lead to the next block: the edge that falls through   *)
(* is the first from its source.                                           *)
Through(preds, source, new) ==
    LET first == {k \in DOMAIN preds : preds[k] = source}
    IN  IF first = {} THEN preds ELSE [preds EXCEPT ![Min(first)] = new]

(* A block on the way from a block to the one it falls into. *)
SplitFallthrough(s, source, destination) ==
    LET at == BlockAt(s.f, source)
        new == NewNode(s.f)
        ends == Terminated(s.f.blocks[at]) /\ Flow(Last(s.f.blocks[at].ins).op) # "branch"
    IN  IF BlockAt(s.f, destination) # at + 1 \/ ends THEN Rejected(s)
        ELSE Kept([s EXCEPT !.f = CreateBlock(@, at + 1, @.blocks[at + 1].scope),
                            !.phi = [p \in Range(PhisOf(s, destination)) |->
                                       [s.phi[p] EXCEPT !.preds = Through(@, source, new)]] @@ @])

-----------------------------------------------------------------------------
(* Phases. *)

MarkRenamed(s) == Kept([s EXCEPT !.renamed = TRUE])

MarkConventional(s) ==
    IF \E n \in DOMAIN s.phi : \E k \in 1 .. Inputs(s, n) : RegOf(s, InputOf(s, n, k)) # RegOf(s, PhiValue(n))
    THEN Rejected(s)
    ELSE [ok |-> FormVerified(s), s |-> [s EXCEPT !.conventional = TRUE]]

(* The form may go when the body alone computes the same. *)
Completable(s) == FormVerified(s) /\ (s.renamed => s.conventional)
=============================================================================
