---------------------------- MODULE Serialization ----------------------------
(***************************************************************************)
(* A client builds a program through the operations of ir::Module, writes  *)
(* it as text or binary, reads it back and goes on editing what it read.   *)
(***************************************************************************)
EXTENDS BinaryFormat

-----------------------------------------------------------------------------
(***************************************************************************)
(* The symbol and data image both engines execute                          *)
(* (lib/Execution/ProgramImage.cpp): the data sections of a module, and    *)
(* the binding of every symbol of a program to its definition.             *)
(***************************************************************************)

\* data_size
DataSize(m, d) ==
  CASE d.init.k = "zero" -> d.init.n
    [] d.init.k = "init" -> Len(d.init.vals) * StorageSize(d.init.type)
    [] d.init.k = "expr" -> StorageSize(FnSig(m, d.init.f[2]).results[1])
    [] d.init.k \in {"ref", "lref"} -> StorageSize(Ty("p"))

\* layout_module_data: a section starts at a named datum and after any item
\* that is not data; its size is a multiple of 8.
Section == [items |-> <<>>, size |-> 0]
Place(section, d, size) == [items |-> Append(section.items, [d |-> d, at |-> section.size]),
                            size |-> section.size + size]
Layout(m) ==
  LET S[n \in 0..Len(m.items)] ==
        IF n = 0 THEN [out |-> <<>>, active |-> FALSE]
        ELSE LET i == m.items[n]
                 s == S[n - 1]
                 d == m.data[i.n]
                 out == IF s.active /\ m.syms[d.sym].name = NoName THEN s.out ELSE Append(s.out, Section)
             IN IF i.k # "data" THEN [s EXCEPT !.active = FALSE]
                ELSE [out |-> [out EXCEPT ![Len(out)] = Place(@, i.n, DataSize(m, d))], active |-> TRUE]
      out == S[Len(m.items)].out
  IN [n \in DOMAIN out |-> [out[n] EXCEPT !.size = ((@ + 7) \div 8) * 8]]

(***************************************************************************)
(* ProgramImage::symbols.  resolve is the client's resolver: a function    *)
(* from names to external symbols, where a name outside its domain is an   *)
(* error.  A binding keeps what the checks read.                           *)
(***************************************************************************)
SymbolBinding(m, s) ==
  LET y == m.syms[s] IN
  [kind |-> IF y.fn # 0 THEN "function" ELSE IF y.data # 0 THEN "data" ELSE "none",
   sig |-> y.sig, jump |-> y.fn # 0 /\ UsesJumpReturn(m.fns[y.fn]),
   size |-> IF y.data # 0 THEN DataSize(m, m.data[y.data]) ELSE 0,
   writable |-> y.data # 0 /\ m.data[y.data].writable]

\* The definition a symbol reaches: an import is an alias of the export of
\* its name before it is asked of the resolver.
Resolved(p, k, s, resolve) ==
  LET y == p[k].syms[s]
      own == ExportNamed(p, y.name)
      e == CHOOSE e \in own : TRUE
  IN IF y.kind # "import" THEN SymbolBinding(p[k], s)
     ELSE IF own # {} THEN SymbolBinding(p[e[1]], e[2]) ELSE resolve[y.name]
Resolves(p, k, s, resolve) ==
  p[k].syms[s].kind = "import" => ExportNamed(p, p[k].syms[s].name) # {} \/ p[k].syms[s].name \in DOMAIN resolve

CheckImport(y, b) ==
  /\ y.sig # <<>> => b.kind = "function" /\ b.sig = y.sig
  /\ y.var # <<>> => /\ b.kind = "data" /\ (Head(y.var).writable => b.writable)
                     /\ b.size >= StorageSize(Head(y.var).type)
\* The call sites are checked against what their target resolved to, with or
\* without a displacement.
CheckCall(p, k, i, resolve) ==
  i.args[2].k = "sym" =>
    LET b == Resolved(p, k, i.args[2].s, resolve) IN
    /\ b.kind = "function" /\ b.sig = p[k].syms[i.args[1].s].sig
    /\ b.jump = (i.op = "jcall")
Links(p, resolve) ==
  \A k \in DOMAIN p :
    /\ \A s \in DOMAIN p[k].syms :
         /\ Resolves(p, k, s, resolve)
         /\ p[k].syms[s].kind = "import" => CheckImport(p[k].syms[s], Resolved(p, k, s, resolve))
    /\ \A i \in Calls(p[k]) : CheckCall(p, k, i, resolve)
-----------------------------------------------------------------------------

CONSTANTS SymbolNames,     \* names the client uses
          Signatures,      \* signatures it declares
          Functions,       \* the functions it emits: <<signature, kind of body>>
          Scripts,         \* the programs it starts from
          MaxCalls         \* bound on the calls it makes
ASSUME ClientAssumption == MaxCalls \in Nat /\ NoName \notin SymbolNames

VARIABLES program,         \* the modules of the program
          calls            \* calls made so far
vars == <<program, calls>>

(***************************************************************************)
(* The client                                                              *)
(***************************************************************************)
\* A body: registers <<type, name, hardware>>, the blocks of its labels and
\* the instructions as <<block, instruction>>.
Text(regs, labels, code) == [regs |-> regs, labels |-> labels, code |-> code]
I64 == Ty("i64")
BodyOf(t, m, k) ==
  LET id == m.fns[k].id
      own == m.fns[k].sym
      r(n) == Reg(id, Len(m.fns[k].regs) + n)
      to(s, d) == Sym(m.id, s, d)
      other == IF Find(m, <<"a", 0>>) # 0 THEN Find(m, <<"a", 0>>) ELSE own
  IN CASE t = "ret" -> Text(<<>>, <<>>, <<<<1, Instr("ret", <<>>)>>>>)
       [] t = "value" -> Text(<<<<Ty("bool"), <<"a", 0>>, NoName>>>>, <<>>,
            <<<<1, Instr("mov", <<r(1), Num(-3)>>)>>, <<1, Instr("ret", <<r(1)>>)>>>>)
       [] t = "loop" -> Text(<<<<I64, <<"a", 0>>, NoName>>, <<Ty("i8"), NoName, NoName>>, <<I64, NoName, <<"rax", 0>>>>>>, <<2, 2>>,
            <<<<1, Instr("mov", <<r(1), Mem(Ty("i8"), 0, 0, 0)>>)>>, <<2, Instr("addo", <<r(1), r(2), r(3)>>)>>,
              <<2, Instr("mov", <<r(2), r(1)>>)>>, <<2, Instr("bo", <<Lab(id, 2)>>)>>, <<3, Instr("ret", <<>>)>>>>)
       [] t = "call" -> Text(<<<<Ty("p"), NoName, NoName>>>>, <<>>,
            <<<<1, Instr("mov", <<r(1), to(other, 2)>>)>>,
              <<1, Instr("call", <<to(own, 0), to(other, 0)>>)>>, <<1, Instr("ret", <<>>)>>>>)
       [] t = "block" -> Text(<<<<I64, NoName, NoName>>>>, <<>>,
            <<<<1, Instr("mov", <<r(1), Str(<<Quote, Nul, <<"7", 0>>>>)>>)>>,
              <<1, Instr("call", <<to(other, 0), r(1), Mem(Block(2), Len(m.fns[k].regs) + 1, Len(m.fns[k].regs) + 1, 1)>>)>>,
              <<1, Instr("ret", <<>>)>>>>)
       [] t = "jump" -> Text(<<<<I64, NoName, NoName>>>>, <<2>>,
            <<<<1, Instr("switch", <<r(1), Lab(id, 1), Lab(id, 1)>>)>>, <<2, Instr("jret", <<r(1)>>)>>>>)
       [] t = "tail" -> Text(<<<<I64, NoName, NoName>>>>, <<1>>,
            <<<<1, Instr("laddr", <<r(1), Lab(id, 1)>>)>>, <<1, Instr("jcall", <<to(own, 0), to(other, 0)>>)>>>>)
       [] t = "both" -> Text(<<<<I64, NoName, NoName>>>>, <<2>>,
            <<<<1, Instr("jret", <<r(1)>>)>>, <<2, Instr("jcall", <<to(own, 0), to(other, 0)>>)>>>>)
       [] t = "past" -> Text(<<>>, <<>>,
            <<<<1, Instr("call", <<to(own, 0), to(other, 2)>>)>>, <<1, Instr("ret", <<>>)>>>>)

\* Emit a body into the new function k: registers, blocks, labels, code.
Regs(f, regs) ==
  LET R[n \in 0..Len(regs)] == IF n = 0 THEN f ELSE AddRegister(R[n - 1], regs[n][1], regs[n][2], regs[n][3], FALSE).m IN R[Len(regs)]
Blocks(f, n) == IF n = 0 THEN f ELSE [f EXCEPT !.blocks = [b \in 1..n |-> [labels |-> <<>>, code |-> <<>>]]]
Labels(f, labels) ==
  LET L[n \in 0..Len(labels)] == IF n = 0 THEN f ELSE CreateLabel(L[n - 1], labels[n]) IN L[Len(labels)]
EmitAll(m, k, code) ==
  LET Step(r, c) == IF r.v = 0 THEN r ELSE Emit(r.m, k, c[1], c[2])
      E[n \in 0..Len(code)] == IF n = 0 THEN Done(m, 1) ELSE Step(E[n - 1], code[n])
  IN E[Len(code)]
FillWith(m, k, b) ==
  EmitAll([m EXCEPT !.fns[k] = Labels(Blocks(Regs(@, b.regs), b.code[Len(b.code)][1]), b.labels)], k, b.code)
Fill(r, t) == IF r.v = 0 THEN r ELSE FillWith(r.m, r.v, BodyOf(t, r.m, r.v))

\* The initializers the client gives data of module m.
Initializers(m) ==
  {[k |-> "init", type |-> Ty("u64"), vals |-> <<Num(-1), Num(2)>>], [k |-> "init", type |-> Ty("bool"), vals |-> <<Num(1)>>],
   [k |-> "init", type |-> Ty("i64"), vals |-> <<Flt(Ty("d"))>>], [k |-> "zero", n |-> 4]}
  \cup {[k |-> "ref", m |-> m.id, s |-> s, d |-> 1] : s \in DOMAIN m.syms}
  \cup {[k |-> "lref", f |-> m.fns[f].id, l |-> 1, b |-> 0, d |-> 0] : f \in {f \in DOMAIN m.fns : m.fns[f].labels # <<>>}}
  \cup {[k |-> "expr", f |-> m.fns[f].id] : f \in DOMAIN m.fns}

\* A script is a sequence of calls [op, ...] on an empty module.
Apply(m, c) ==
  CASE c.op = "function" -> Fill(CreateFunction(m, c.n, c.sig, <<>>), c.body)
    [] c.op = "proto" -> Prototype(m, c.n, c.sig)
    [] c.op = "import" -> Import(m, c.n, c.sig)
    [] c.op = "data" -> CreateData(m, c.n, c.init, c.w)
    [] c.op = "forward" -> Forward(m, c.n)
    [] c.op = "export" -> ExportSymbol(m, Find(m, c.n))
Scripted(k, script) ==
  LET S[n \in 0..Len(script)] == IF n = 0 THEN NewModule(k, <<"m", k>>) ELSE Apply(S[n - 1], script[n]).m IN S[Len(script)]

Init == /\ \E s \in Scripts : program = [k \in DOMAIN s |-> Scripted(k, s[k])]
        /\ calls = 0

Call(r) == /\ calls < MaxCalls
           /\ calls' = calls + 1
           /\ program' = [program EXCEPT ![1] = r.m]
M == program[1]
DoForward == \E n \in SymbolNames : Call(Forward(M, n))
DoFunction == \E n \in SymbolNames, t \in Functions : Call(Fill(CreateFunction(M, n, t[1], <<>>), t[2]))
DoDeclareFunction == \E n \in SymbolNames, sig \in Signatures : Call(DeclareFunction(M, n, sig))
DoDefineFunction == \E s \in DOMAIN M.syms, t \in Functions : Call(Fill(DefineFunction(M, s, <<>>), t[2]))
DoPrototype == \E n \in SymbolNames, sig \in Signatures : Call(Prototype(M, n, sig))
DoImport == \E n \in SymbolNames, sig \in {<<>>} \cup {Some(s) : s \in Signatures} : Call(Import(M, n, sig))
DoData == \E n \in SymbolNames \cup {NoName}, init \in Initializers(M) : Call(CreateData(M, n, init, FALSE))
DoDeclareData == \E n \in SymbolNames \cup {NoName} : Call(DeclareData(M, n))
DoDefineData == \E s \in DOMAIN M.syms, init \in Initializers(M) : Call(DefineData(M, s, init, TRUE))
DoLiteral == \E t \in {Ty("f"), Ty("d")} : Call(CreateLiteral(M, [k |-> "init", type |-> t, vals |-> <<Flt(t)>>]))
DoExport == \E s \in DOMAIN M.syms : Call(ExportSymbol(M, s))
DoRename == \E s \in DOMAIN M.syms, n \in SymbolNames \cup {NoName} : Call(RenameSymbol(M, s, n))
DoBind == \E s \in DOMAIN M.syms, t \in {Ty("p"), Ty("bool")}, w \in BOOLEAN : Call(BindVariable(M, s, t, w))
DoVariable == \E n \in SymbolNames, init \in {[k |-> "zero", n |-> 8], [k |-> "init", type |-> Ty("p"), vals |-> <<Num(1)>>]} :
                Call(CreateVariable(M, n, Ty("p"), init, TRUE))
DoImportVariable == \E n \in SymbolNames, t \in {Ty("p"), Ty("undef")} : Call(ImportVariable(M, n, t, TRUE))

\* Write the program and read it back.
Writable(p) == ProgramOk(p) /\ \A k \in DOMAIN p : Spellable(p[k])
ThroughText == /\ Writable(program) /\ calls < MaxCalls
               /\ program' = ReadText(WriteText(program)).p /\ calls' = calls + 1
ThroughBinary == /\ ProgramOk(program) /\ calls < MaxCalls
                 /\ program' = ReadBinary(WriteBinary(program)).p /\ calls' = calls + 1

Construct == DoForward \/ DoFunction \/ DoDeclareFunction \/ DoDefineFunction \/ DoPrototype \/ DoImport
Define == DoData \/ DoDeclareData \/ DoDefineData \/ DoLiteral \/ DoExport \/ DoRename
Variables == DoBind \/ DoVariable \/ DoImportVariable
Next == Construct \/ Define \/ Variables \/ ThroughText \/ ThroughBinary
Spec == Init /\ [][Next]_vars

(***************************************************************************)
(* What a program means, whatever its nodes are called: register names,    *)
(* label names, block boundaries, integer widths of registers and address  *)
(* temporaries are normalized by the formats and do not count.             *)
(***************************************************************************)
\* A sum of named terms and an offset.
Sum(terms, d) == [terms |-> terms, d |-> d]
Count(x, t) == IF t \in DOMAIN x.terms THEN x.terms[t] ELSE 0
Plus(x, y) == Sum([t \in DOMAIN x.terms \cup DOMAIN y.terms |-> Count(x, t) + Count(y, t)], x.d + y.d)
One(t) == Sum([x \in {t} |-> 1], 0)
Zero == Sum([x \in {} |-> 1], 0)

\* The place of a register among the arguments or locals of its function; the
\* locals past the first plain ones of the original are temporaries.
PlainLocals(f) == {r \in DOMAIN f.regs : ~f.regs[r].arg /\ f.regs[r].hw = NoName}
RegisterPlace(f, r) ==
  IF f.regs[r].hw # NoName THEN <<"hardware", f.regs[r].hw>>
  ELSE IF f.regs[r].arg THEN <<"argument", r>>
  ELSE <<"local", Cardinality({x \in PlainLocals(f) : x <= r})>>
IsTemporary(f, r, plain) == r \in PlainLocals(f) /\ Cardinality({x \in PlainLocals(f) : x <= r}) > plain
RegisterValue(f, r, env) ==
  IF r = 0 THEN Zero ELSE IF r \in DOMAIN env THEN env[r] ELSE One(RegisterPlace(f, r))
SymbolValue(m, o) == Plus(One(<<"symbol", m.syms[o.s].name>>), Sum(<<>>, o.d))
OperandValue(m, f, o, env) ==
  CASE o.k = "reg" -> RegisterValue(f, o.r, env)
    [] o.k = "sym" -> SymbolValue(m, o)
    [] o.k = "int" -> Sum(<<>>, o.v)
    [] OTHER -> Zero

\* The number of instructions in front of a label, temporaries left out.
Real(f, i, plain) == ~(i.args # <<>> /\ i.args[1].k = "reg" /\ IsTemporary(f, i.args[1].r, plain))
RealCount(f, b, plain) == Cardinality({n \in DOMAIN f.blocks[b].code : Real(f, f.blocks[b].code[n], plain)})
LabelPlace(f, l, plain) ==
  LET P[b \in 0..Len(f.blocks)] == IF b = 0 THEN 0 ELSE P[b - 1] + RealCount(f, b, plain) IN P[f.labels[l] - 1]
MeaningOf(m, f, i, n, env, plain) ==
  LET o == i.args[n] IN
  CASE n = 1 /\ IsCall(i) -> <<"signature", SignatureText(SigOf(m, o.s))>>
    [] o.k = "lab" -> <<"label", LabelPlace(f, o.l, plain)>>
    [] o.k = "str" -> <<"string", Terminated(o.v)>>
    [] o.k = "flt" -> <<"float", o.t>>
    [] o.k = "mem" -> <<"memory", TypeName(o.type), Plus(Plus(RegisterValue(f, o.base, env), RegisterValue(f, o.index, env)), Sum(<<>>, o.d))>>
    [] OTHER -> IF n = 1 /\ IsCall(i) THEN <<>> ELSE <<"value", OperandValue(m, f, o, env)>>
\* The code of a function with its temporaries replaced by what they hold.
Code(m, f, plain) ==
  LET all == Concat([b \in DOMAIN f.blocks |-> f.blocks[b].code])
      C[n \in 0..Len(all)] ==
        IF n = 0 THEN [out |-> <<>>, env |-> <<>>]
        ELSE LET c == C[n - 1]
                 i == all[n]
                 value(k) == OperandValue(m, f, i.args[k], c.env)
             IN IF Real(f, i, plain)
                THEN [c EXCEPT !.out = Append(@, <<i.op, [k \in DOMAIN i.args |-> MeaningOf(m, f, i, k, c.env, plain)]>>)]
                ELSE [c EXCEPT !.env = Extend(@, i.args[1].r, IF i.op = "mov" THEN value(2) ELSE Plus(value(2), value(3)))]
  IN C[Len(all)].out

FunctionMeaning(m, f, plain) ==
  [name |-> m.syms[f.sym].name, sig |-> SignatureText(SigOf(m, f.sym)), code |-> Code(m, f, plain)]
InitMeaning(m, init, plain) ==
  LET at(l) == IF l = 0 THEN -1 ELSE LabelPlace(m.fns[init.f[2]], l, plain[m.syms[m.fns[init.f[2]].sym].name]) IN
  CASE init.k = "init" -> <<DataType(init.type), init.vals>>
    [] init.k = "zero" -> <<"zero", init.n>>
    [] init.k = "ref" -> <<"symbol", m.syms[init.s].name, init.d>>
    [] init.k = "lref" -> <<"label", m.syms[m.fns[init.f[2]].sym].name, at(init.l), at(init.b), init.d>>
    [] init.k = "expr" -> <<"expression", m.syms[m.fns[init.f[2]].sym].name>>
SectionMeaning(m, section, plain) ==
  [size |-> section.size,
   items |-> [n \in DOMAIN section.items |->
     LET d == m.data[section.items[n].d] IN
     <<section.items[n].at, m.syms[d.sym].name, InitMeaning(m, d.init, plain)>>]]
Named(m, kinds) == {m.syms[s].name : s \in {s \in DOMAIN m.syms : m.syms[s].kind \in kinds}}
\* plain: the number of plain locals of every function of the original.
PlainOf(m) == [n \in {m.syms[m.fns[f].sym].name : f \in DOMAIN m.fns} |-> Cardinality(PlainLocals(m.fns[m.syms[Find(m, n)].fn]))]
Meaning(m, plain) ==
  [name |-> m.name, imports |-> Named(m, {"import"}),
   exports |-> {m.syms[s].name : s \in {s \in DOMAIN m.syms : m.syms[s].exported}},
   functions |-> {FunctionMeaning(m, m.fns[f], plain[m.syms[m.fns[f].sym].name]) : f \in DOMAIN m.fns},
   sections |-> [n \in DOMAIN Layout(m) |-> SectionMeaning(m, Layout(m)[n], plain)]]
SameMeaning(m, q) ==
  /\ {m.syms[m.fns[f].sym].name : f \in DOMAIN m.fns} = {q.syms[q.fns[f].sym].name : f \in DOMAIN q.fns}
  /\ Meaning(m, PlainOf(m)) = Meaning(q, PlainOf(m))
ReadsBack(r) ==
  /\ r.ok /\ Len(r.p) = Len(program) /\ ProgramOk(r.p)
  /\ \A k \in DOMAIN program : SameMeaning(program[k], r.p[k])

(***************************************************************************)
(* Properties                                                              *)
(***************************************************************************)
\* The symbol table of a module has exactly the named symbols, each under its
\* own name, however names were reserved, defined and renamed; what a symbol
\* points to points back, and the slots of data still declared are its own.
TableExact ==
  \A k \in DOMAIN program : LET m == program[k] IN
    /\ DOMAIN m.names = {m.syms[s].name : s \in DOMAIN m.syms} \ {NoName}
    /\ \A n \in DOMAIN m.names : m.syms[m.names[n]].name = n
    /\ \A s1, s2 \in DOMAIN m.syms : m.syms[s1].name = m.syms[s2].name => s1 = s2 \/ m.syms[s1].name = NoName
    /\ \A s \in DOMAIN m.syms : LET y == m.syms[s] IN
         /\ y.fn # 0 => m.fns[y.fn].sym = s
         /\ y.data # 0 => m.data[y.data].sym = s
         /\ y.slot # 0 => m.items[y.slot] = Item("decl", s)

\* An operation that fails records its error and changes nothing else of the
\* module (IR.cpp:566 "so an invalid definition is atomic"), and after an
\* error nothing but a rename changes it.  A client step that creates a
\* function and then emits its body is several calls: when one of the later
\* ones fails the function is there, with its symbol, its item and the valid
\* instructions in front of the refused one, and all else is as it was.
Unbuilt(m) == [m EXCEPT !.error = "none", !.literals = 0]
Unnamed(m) == [Unbuilt(m) EXCEPT !.names = <<>>, !.syms = [s \in DOMAIN @ |-> [@[s] EXCEPT !.name = NoName]]]
OnlyBuilt(m, q) ==
  LET f == q.fns[Len(q.fns)]
      old == DOMAIN m.syms \ {f.sym}
  IN /\ q.fns # <<>> /\ q.fns = Append(m.fns, f) /\ q.items = Append(m.items, Item("function", Len(q.fns))) /\ q.data = m.data
     /\ DOMAIN q.syms = old \cup {f.sym} /\ \A s \in old : q.syms[s] = m.syms[s]
     /\ q.names = Bind(m.names, q.syms[f.sym].name, f.sym)
     /\ \A i \in Instructions(f) : ValidInstruction(q, f, i)
FailureAtomic ==
  [][LET m == program[1]
         q == program'[1]
     IN /\ m.error = "none" /\ q.error # "none" => Unbuilt(q) = Unbuilt(m) \/ OnlyBuilt(m, q)
        /\ m.error # "none" => Unnamed(q) = Unnamed(m)]_vars

LastBlock(f) == f.blocks[Len(f.blocks)]

\* The text of a verified program whose names can be spelled is read back as
\* a verified program that means the same: same code, exports and imports,
\* and the same data at the same places of the same sections, although the
\* writer renames registers and labels, inserts address temporaries and
\* prototypes, and moves declarations to the front.  (A void function that
\* ends in a jcall is read back with a return behind it.)
TextReadsBack ==
  Writable(program) /\ (\A k \in DOMAIN program : \A f \in DOMAIN program[k].fns : Terminator(LastBlock(program[k].fns[f])))
    => ReadsBack(ReadText(WriteText(program)))

\* The binary form of every verified program is read back the same.
BinaryReadsBack == ProgramOk(program) => ReadsBack(ReadBinary(WriteBinary(program)))

\* What either writer wrote, its reader understands as the writer meant it.
FormatsReadBack == TextReadsBack /\ BinaryReadsBack

\* What Program::verify accepts, the linker binds, but for the call targets
\* with a displacement.  The verifier reads no symbol in those (symbol_operand,
\* IR.cpp:982) and accepts whatever is named; ProgramImage (:199-210) asks of
\* the named symbol what it asks of every target: a function, of the signature
\* of the call and its return convention.  So when every import is exported
\* by a module of the program and no resolver is needed, the linker refuses
\* a verified program exactly when one of its displaced calls fails there.
ClosedProgram == \A k \in DOMAIN program : \A n \in Named(program[k], {"import"}) : ExportNamed(program, n) # {}
Displaced(m) == {i \in Calls(m) : i.args[2].k = "sym" /\ i.args[2].d # 0}
VerifiedLinks ==
  ProgramOk(program) /\ ClosedProgram
    => (Links(program, <<>>) <=> \A k \in DOMAIN program : \A i \in Displaced(program[k]) : CheckCall(program, k, i, <<>>))
=============================================================================
