------------------------------ MODULE IRModule ------------------------------
(***************************************************************************)
(* The IR container of lib/IR/IR.cpp and lib/IR/Variables.cpp: programs,   *)
(* modules with their symbol table and item list, functions with blocks,   *)
(* labels and registers, and the verifier.                                 *)
(*                                                                         *)
(* Nodes are records in sequences and a pointer is an index (0 is null).   *)
(* An operation takes the module it edits and returns [m |-> the module    *)
(* afterwards, v |-> the node it returns], v = 0 when it returned an       *)
(* error.  A type is [k |-> kind, n |-> block size], a name <<prefix,      *)
(* number>>, an operand a record tagged by k.                              *)
(***************************************************************************)
EXTENDS Integers, Sequences, FiniteSets

NoName == <<"", 0>>
Ty(k) == [k |-> k, n |-> 0]
Block(n) == [k |-> "blk", n |-> n]

IsInteger(t) == t.k \in {"bool", "i8", "i64", "u64", "p"}
IsFloat(t) == t.k \in {"f", "d"}
IsScalar(t) == IsInteger(t) \/ IsFloat(t)
IsBlock(t) == t.k \in {"blk", "rblk"}
IsVector(t) == t.k = "v"
Storable(t) == IsScalar(t) \/ IsVector(t)

\* storage_size
StorageSize(t) == CASE t.k = "v" -> 16 [] t.k = "i8" -> 1 [] t.k = "f" -> 4 [] OTHER -> 8

\* type_role: the operand class of a type; every type that is not floating
\* point or vector is an integer to the verifier.
TypeRole(t) == IF t.k \in {"f", "d", "v"} THEN t.k ELSE "i"

(***************************************************************************)
(* Instruction descriptors (IR/Opcodes.def): roles, operand count, flow.   *)
(* An output role is an upper-case letter of the source.                   *)
(***************************************************************************)
In(c) == [c |-> c, out |-> FALSE]
Out(c) == [c |-> c, out |-> TRUE]
Descriptor(op) ==
  CASE op \in {"mov", "neg"} -> [roles |-> <<Out("i"), In("i")>>, count |-> "fixed", flow |-> "next"]
    [] op \in {"add", "mul", "addo"} -> [roles |-> <<Out("i"), In("i"), In("i")>>, count |-> "fixed", flow |-> "next"]
    [] op = "addr" -> [roles |-> <<Out("i"), In("r")>>, count |-> "fixed", flow |-> "next"]
    [] op = "laddr" -> [roles |-> <<Out("i"), In("l")>>, count |-> "fixed", flow |-> "next"]
    [] op = "bt" -> [roles |-> <<In("l"), In("i")>>, count |-> "fixed", flow |-> "branch"]
    [] op = "bo" -> [roles |-> <<In("l")>>, count |-> "fixed", flow |-> "branch"]
    [] op = "jmp" -> [roles |-> <<In("l")>>, count |-> "fixed", flow |-> "exit"]
    [] op \in {"jmpi", "jret"} -> [roles |-> <<In("i")>>, count |-> "fixed", flow |-> "exit"]
    [] op \in {"call", "jcall"} -> [roles |-> <<>>, count |-> "call", flow |-> "next"]
    [] op = "switch" -> [roles |-> <<>>, count |-> "switch", flow |-> "exit"]
    [] op = "ret" -> [roles |-> <<>>, count |-> "return", flow |-> "exit"]
IsCall(i) == Descriptor(i.op).count = "call"

(***************************************************************************)
(* Nodes                                                                   *)
(***************************************************************************)
NewSymbol(name, kind) == [name |-> name, kind |-> kind, sig |-> <<>>, fn |-> 0, data |-> 0,
                          var |-> <<>>, exported |-> FALSE, fwd |-> FALSE, slot |-> 0]
NewModule(id, name) == [id |-> id, name |-> name, syms |-> <<>>, names |-> <<>>, items |-> <<>>,
                        fns |-> <<>>, data |-> <<>>, error |-> "none", literals |-> 0]

\* An optional value is a sequence of length 0 or 1.
Some(x) == <<x>>
SigOf(m, s) == Head(m.syms[s].sig)
FnSig(m, f) == SigOf(m, m.fns[f].sym)

\* names_ is a function from names to symbols.
Find(m, name) == IF name \in DOMAIN m.names THEN m.names[name] ELSE 0
Bind(names, name, s) == [n \in DOMAIN names \cup {name} |-> IF n = name THEN s ELSE names[n]]
Unbind(names, name) == [n \in DOMAIN names \ {name} |-> names[n]]

\* Module::fail keeps the first error of a module.
Fail(m, e) == [m |-> [m EXCEPT !.error = IF @ = "none" THEN e ELSE @], v |-> 0]
Same(m) == [m |-> m, v |-> 0]
Done(m, v) == [m |-> m, v |-> v]

\* Signature::verify
SignatureOk(sig) ==
  /\ \A n \in DOMAIN sig.results : Storable(sig.results[n])
  /\ \A n \in DOMAIN sig.params :
       LET t == sig.params[n].k IN
       /\ t # "undef"
       /\ t \in {"blk", "rblk"} => sig.params[n].n # 0
       /\ t = "rblk" => n = 1 /\ sig.results = <<>>

(***************************************************************************)
(* The symbol table                                                        *)
(***************************************************************************)
Symbol(m, name, kind, allowForward) ==
  LET found == Find(m, name)
      old == m.syms[found]
      fresh == [m EXCEPT !.syms = Append(@, NewSymbol(name, kind)),
                         !.names = IF name = NoName THEN @ ELSE Bind(@, name, Len(m.syms) + 1)]
  IN CASE m.error # "none" -> Same(m)
       [] name = NoName /\ kind # "data" -> Fail(m, "invalid")
       [] found # 0 /\ allowForward /\ old.kind = "forward" ->
            IF old.exported /\ kind \notin {"function", "data"} THEN Fail(m, "invalid")
            ELSE Done([m EXCEPT !.syms[found].kind = kind], found)
       [] found # 0 /\ ~(allowForward /\ old.kind = "forward") -> Fail(m, "duplicate")
       [] found = 0 /\ (name # NoName \/ kind = "data") -> Done(fresh, Len(fresh.syms))

AddItem(m, item) == [m EXCEPT !.items = Append(@, item)]
Item(k, n) == [k |-> k, n |-> n]

ReserveSymbol(m, name) ==
  IF m.error # "none" THEN Same(m)
  ELSE IF Find(m, name) # 0 THEN Done(m, Find(m, name)) ELSE Symbol(m, name, "forward", FALSE)

MarkForward(r) ==
  IF r.v = 0 THEN r ELSE Done(AddItem([r.m EXCEPT !.syms[r.v].fwd = TRUE], Item("forward", r.v)), r.v)
Forward(m, name) ==
  LET found == Find(m, name) IN
  IF m.error = "none" /\ found # 0 /\ (m.syms[found].fwd \/ m.syms[found].kind \in {"import", "prototype"})
  THEN Fail(m, "duplicate") ELSE MarkForward(ReserveSymbol(m, name))

\* Declare a function, a prototype or an import: intern the signature, then
\* publish the symbol with it and append the item.
Publish(r, sig, item) ==
  IF r.v = 0 THEN r ELSE Done(AddItem([r.m EXCEPT !.syms[r.v].sig = sig], Item(item, r.v)), r.v)
Declare(m, name, kind, sig, item) ==
  IF sig # <<>> /\ ~SignatureOk(Head(sig)) THEN Fail(m, "invalid")
  ELSE Publish(Symbol(m, name, kind, TRUE), sig, item)
DeclareFunction(m, name, sig) == Declare(m, name, "function", Some(sig), "forward")
Prototype(m, name, sig) == Declare(m, name, "prototype", Some(sig), "symbol")
Import(m, name, sig) == Declare(m, name, "import", sig, "symbol")

(***************************************************************************)
(* Functions: registers, blocks, labels                                    *)
(***************************************************************************)
Register(type, name, hw, arg) == [type |-> type, name |-> name, hw |-> hw, arg |-> arg]
NewFunction(id, s) == [id |-> id, sym |-> s, regs |-> <<>>, names |-> <<>>,
                       labels |-> <<>>, blocks |-> <<>>]

\* compatible_binding: all integer widths share a hardware register.
CompatibleBinding(a, b) == a = b \/ (IsInteger(a) /\ IsInteger(b))

\* Function::add_register on a function record; v = 0 when it is refused.
AddRegister(f, type, name, hw, arg) ==
  LET bound == {r \in DOMAIN f.regs : hw # NoName /\ f.regs[r].hw = hw}
      named(r) == IF name = NoName THEN f.names ELSE Bind(f.names, name, r)
      reuse == CHOOSE r \in bound : TRUE
      next == Len(f.regs) + 1
  IN CASE ~Storable(type) /\ ~(arg /\ IsBlock(type)) -> Same(f)
       [] (Storable(type) \/ arg) /\ name # NoName /\ name \in DOMAIN f.names -> Same(f)
       [] hw # NoName /\ arg -> Same(f)
       [] OTHER ->
            IF bound # {}
            THEN IF CompatibleBinding(f.regs[reuse].type, type)
                 THEN Done([f EXCEPT !.names = named(reuse)], reuse) ELSE Same(f)
            ELSE Done([f EXCEPT !.regs = Append(@, Register(type, name, hw, arg)),
                                !.names = named(next)], next)

CreateBlock(f) == [f EXCEPT !.blocks = Append(@, [labels |-> <<>>, code |-> <<>>])]
\* Function::create_label appends to the function and to the block.
CreateLabel(f, b) == [f EXCEPT !.labels = Append(@, b),
                               !.blocks[b].labels = Append(@, Len(f.labels) + 1)]

UniqueNames(names) == \A i, j \in DOMAIN names : names[i] # NoName /\ (i # j => names[i] # names[j])
ArgumentsOk(sig, names) ==
  /\ sig.variadic => sig.params # <<>>
  /\ names # <<>> => Len(names) = Len(sig.params)
  /\ UniqueNames(names)

DefineFunction(m, s, names) ==
  LET sig == SigOf(m, s)
      at(n) == IF names = <<>> THEN NoName ELSE names[n]
      args == [n \in DOMAIN sig.params |-> Register(sig.params[n], at(n), NoName, TRUE)]
      byName == [x \in {names[n] : n \in DOMAIN names} |-> CHOOSE n \in DOMAIN names : names[n] = x]
      f == [NewFunction(<<m.id, Len(m.fns) + 1>>, s) EXCEPT !.regs = args, !.names = byName]
  IN CASE m.error # "none" -> Same(m)
       [] m.syms[s].kind # "function" \/ m.syms[s].sig = <<>> \/ m.syms[s].fn # 0 -> Fail(m, "invalid")
       [] OTHER ->
            IF ~ArgumentsOk(sig, names) THEN Fail(m, "invalid")
            ELSE Done(AddItem([m EXCEPT !.fns = Append(@, f), !.syms[s].fn = Len(m.fns) + 1],
                              Item("function", Len(m.fns) + 1)), Len(m.fns) + 1)

DefinePublished(r, sig, names) ==
  IF r.v = 0 THEN r ELSE DefineFunction([r.m EXCEPT !.syms[r.v].sig = Some(sig)], r.v, names)
\* Faulty form: the symbol is published before the argument names are checked.
CheckPublished(r, sig, names) ==
  IF r.v # 0 /\ (~SignatureOk(sig) \/ ~ArgumentsOk(sig, names)) THEN Fail(r.m, "invalid") ELSE DefinePublished(r, sig, names)
CreateFunctionEarly(m, name, sig, names) == CheckPublished(Symbol(m, name, "function", TRUE), sig, names)
\* Module::create_function validates before it publishes the symbol.
CreateFunction(m, name, sig, names) ==
  IF ~SignatureOk(sig) \/ ~ArgumentsOk(sig, names) THEN Fail(m, "invalid")
  ELSE DefinePublished(Symbol(m, name, "function", TRUE), sig, names)

(***************************************************************************)
(* Operands and instructions                                               *)
(***************************************************************************)
Reg(f, r) == [k |-> "reg", f |-> f, r |-> r]
Lab(f, l) == [k |-> "lab", f |-> f, l |-> l]
Sym(m, s, d) == [k |-> "sym", m |-> m, s |-> s, d |-> d]
Mem(type, base, index, d) == [k |-> "mem", type |-> type, base |-> base, index |-> index, d |-> d]
Num(v) == [k |-> "int", v |-> v]
Str(v) == [k |-> "str", v |-> v]
Flt(t) == [k |-> "flt", t |-> t]
Instr(op, args) == [op |-> op, args |-> args]

OperandType(f, o) ==
  CASE o.k = "reg" -> f.regs[o.r].type
    [] o.k = "mem" -> o.type
    [] o.k = "flt" -> o.t
    [] OTHER -> Ty("i64")
\* symbol_operand: the symbol of a reference without displacement.
SymbolOperand(o) == IF o.k = "sym" /\ o.d = 0 THEN o.s ELSE 0

\* The class of an operand and the owner checks of check_role.
AddressOk(f, base) ==
  base = 0 \/ (base \in DOMAIN f.regs /\ (IsInteger(f.regs[base].type) \/ IsBlock(f.regs[base].type)))
OperandOwned(m, f, o) ==
  CASE o.k \in {"reg", "lab"} -> o.f = f.id
    [] o.k = "mem" -> AddressOk(f, o.base) /\ AddressOk(f, o.index)
    [] o.k = "sym" -> o.m = m.id /\ m.syms[o.s].kind # "prototype" /\ m.syms[o.s].name # NoName
    [] OTHER -> TRUE
RoleOk(m, f, o, role) ==
  /\ OperandOwned(m, f, o)
  /\ (o.k = "lab") = (role.c = "l")
  /\ o.k # "lab" =>
       /\ role.out => o.k \in {"reg", "mem"} /\ ~(o.k = "mem" /\ IsBlock(o.type))
       /\ role.c = "r" => o.k = "reg"
       /\ role.c \in {"r", "a"} \/ role.c = TypeRole(OperandType(f, o))

\* The operands of a call against its signature symbol.
ValidCall(m, f, i) ==
  LET a == i.args
      p == SymbolOperand(a[1])
      sig == SigOf(m, p)
      t == SymbolOperand(a[2])
      results == Len(sig.results)
      fixed == 2 + results + Len(sig.params)
  IN /\ Len(a) >= 2
     /\ p # 0 /\ a[1].m = m.id /\ m.syms[p].sig # <<>>
     /\ i.op = "jcall" => sig.results = <<>> /\ sig.params = <<>> /\ ~sig.variadic
     /\ Len(a) >= fixed /\ (~sig.variadic => Len(a) = fixed)
     /\ RoleOk(m, f, a[2], In("i")) /\ ~(a[2].k = "mem" /\ IsBlock(a[2].type))
     /\ t # 0 => /\ m.syms[t].var = <<>>
                 /\ m.syms[t].kind \in {"function", "import", "forward"}
                 /\ m.syms[t].sig # <<>> => SigOf(m, t) = sig
     /\ \A n \in 1..results : RoleOk(m, f, a[2 + n], Out(TypeRole(sig.results[n])))
     /\ \A n \in DOMAIN sig.params :
          LET o == a[2 + results + n] IN
          IF IsBlock(sig.params[n]) THEN o.k = "mem" /\ o.type = sig.params[n] /\ RoleOk(m, f, o, In("a"))
          ELSE ~(o.k = "mem" /\ IsBlock(o.type)) /\ RoleOk(m, f, o, In(TypeRole(sig.params[n])))
     /\ \A n \in (fixed + 1)..Len(a) :
          /\ RoleOk(m, f, a[n], In("a"))
          /\ OperandType(f, a[n]).k \notin {"v", "f", "rblk"} /\ OperandType(f, a[n]) # Block(0)

\* validate_instruction
ValidInstruction(m, f, i) ==
  LET d == Descriptor(i.op)
      sig == SigOf(m, f.sym)
  IN /\ \A n \in DOMAIN i.args : i.args[n].k = "mem" => (IsBlock(i.args[n].type) => d.count = "call")
                                                        /\ i.args[n].type.k # "undef"
     /\ CASE d.count = "call" -> ValidCall(m, f, i)
          [] d.count = "return" ->
               /\ Len(i.args) = Len(sig.results)
               /\ \A n \in DOMAIN i.args : RoleOk(m, f, i.args[n], In(TypeRole(sig.results[n])))
          [] d.count = "switch" ->
               /\ Len(i.args) >= 2
               /\ i.args[1].k = "int" => i.args[1].v \in 0..(Len(i.args) - 2)
               /\ \A n \in DOMAIN i.args : RoleOk(m, f, i.args[n], In(IF n = 1 THEN "i" ELSE "l"))
          [] d.count = "fixed" ->
               /\ Len(i.args) = Len(d.roles)
               /\ \A n \in DOMAIN i.args : RoleOk(m, f, i.args[n], d.roles[n])
               /\ i.op = "addr" => f.regs[i.args[2].r].hw = NoName
               /\ i.op = "jret" => sig.results = <<>> /\ sig.params = <<>> /\ ~sig.variadic

Terminator(b) == b.code # <<>> /\ Descriptor(b.code[Len(b.code)].op).flow # "next"

\* InstructionBuilder::emit: an open block and a valid instruction, or the
\* module's error.
Emit(m, f, b, i) ==
  LET fn == m.fns[f] IN
  CASE m.error # "none" -> Same(m)
    [] Terminator(fn.blocks[b]) \/ ~ValidInstruction(m, fn, i) -> Fail(m, "invalid")
    [] OTHER -> Done([m EXCEPT !.fns[f].blocks[b].code = Append(@, i)], 1)

(***************************************************************************)
(* Data and variables                                                      *)
(***************************************************************************)
ExpressionOk(m, f) ==
  LET sig == FnSig(m, f) IN
  /\ ~sig.variadic /\ sig.params = <<>> /\ Len(sig.results) = 1
  /\ \A b \in DOMAIN m.fns[f].blocks : \A n \in DOMAIN m.fns[f].blocks[b].code :
       LET i == m.fns[f].blocks[b].code[n] IN
       ~IsCall(i) /\ \A a \in DOMAIN i.args : i.args[a].k # "mem"

\* validate_initializer
InitializerOk(m, init) ==
  CASE init.k = "init" ->
         Storable(init.type) /\ \A n \in DOMAIN init.vals :
           (init.vals[n].k = "int" /\ TypeRole(init.type) = "i")
           \/ (init.vals[n].k = "flt" /\ init.vals[n].t = init.type)
    [] init.k = "ref" -> init.m = m.id /\ m.syms[init.s].name # NoName /\ m.syms[init.s].kind # "prototype"
    [] init.k = "lref" -> init.f[1] = m.id
    [] init.k = "expr" -> init.f[1] = m.id /\ ExpressionOk(m, init.f[2])
    [] init.k = "zero" -> TRUE

ReserveSlot(r) ==
  IF r.v = 0 THEN r
  ELSE Done(AddItem([r.m EXCEPT !.syms[r.v].slot = Len(r.m.items) + 1], Item("decl", r.v)), r.v)
DeclareData(m, name) == ReserveSlot(Symbol(m, name, "data", TRUE))

DefineData(m, s, init, writable) ==
  LET d == Len(m.data) + 1
      slot == m.syms[s].slot
  IN CASE m.error # "none" -> Same(m)
       [] m.syms[s].kind # "data" \/ m.syms[s].data # 0 \/ slot = 0 -> Fail(m, "invalid")
       [] OTHER ->
            IF ~InitializerOk(m, init) THEN Fail(m, "invalid")
            ELSE Done([m EXCEPT !.data = Append(@, [sym |-> s, init |-> init, writable |-> writable,
                                                    literal |-> FALSE]),
                                !.syms[s].data = d, !.syms[s].slot = 0,
                                !.items[slot] = Item("data", d)], d)

DefineDeclared(r, init, writable) == IF r.v = 0 THEN r ELSE DefineData(r.m, r.v, init, writable)
CreateData(m, name, init, writable) ==
  IF ~InitializerOk(m, init) THEN Fail(m, "invalid") ELSE DefineDeclared(DeclareData(m, name), init, writable)

\* Module::create_literal names pool entries ".literal0", ".literal1", ...
\* skipping the names that are taken.
LiteralName(m) ==
  <<".literal", CHOOSE n \in m.literals..(m.literals + Len(m.syms)) :
     /\ Find(m, <<".literal", n>>) = 0
     /\ \A k \in m.literals..(n - 1) : Find(m, <<".literal", k>>) # 0>>
MarkLiteral(r) == IF r.v = 0 THEN r ELSE Done([r.m EXCEPT !.data[r.v].literal = TRUE], r.v)
CreateLiteral(m, init) ==
  LET name == LiteralName(m) IN
  MarkLiteral(CreateData([m EXCEPT !.literals = name[2] + 1], name, init, FALSE))

ExportSymbol(m, s) ==
  CASE m.error # "none" -> Same(m)
    [] m.syms[s].name = NoName \/ m.syms[s].kind \in {"prototype", "import"} -> Fail(m, "invalid")
    [] OTHER -> IF m.syms[s].exported THEN Fail(m, "duplicate")
                ELSE Done(AddItem([m EXCEPT !.syms[s].exported = TRUE], Item("export", s)), s)

\* Faulty form: the old name stays in the table.
RenameSymbolKept(m, s, name) ==
  IF name = NoName \/ (m.syms[s].name # name /\ Find(m, name) # 0) THEN Same(m)
  ELSE Done([m EXCEPT !.names = Bind(@, name, s), !.syms[s].name = name], s)
\* Module::rename_symbol neither looks at the module's error nor records one.
RenameSymbol(m, s, name) ==
  IF name = NoName \/ (m.syms[s].name # name /\ Find(m, name) # 0) THEN Same(m)
  ELSE Done([m EXCEPT !.names = Bind(Unbind(@, m.syms[s].name), name, s),
                      !.syms[s].name = name], s)

\* validate_variable_binding
CompatibleStorage(binding, storage) ==
  binding = storage \/ (binding.k \in {"bool", "p"} /\ storage.k \in {"i64", "u64"})
BindingOk(m, s, type, writable) ==
  LET y == m.syms[s]
      d == m.data[y.data]
  IN /\ Storable(type) /\ y.name # NoName
     /\ (y.kind = "import" /\ y.sig = <<>>)
        \/ /\ y.kind = "data" /\ y.data # 0
           /\ writable => d.writable
           /\ CASE d.init.k = "init" -> Len(d.init.vals) = 1 /\ CompatibleStorage(type, d.init.type)
                [] d.init.k = "zero" -> d.init.n = StorageSize(type)
                [] d.init.k \in {"ref", "lref"} -> type.k \in {"p", "i64", "u64"}
                [] d.init.k = "expr" -> CompatibleStorage(type, FnSig(m, d.init.f[2]).results[1])

BindVariable(m, s, type, writable) ==
  LET v == [type |-> type, writable |-> writable] IN
  CASE m.error # "none" -> Same(m)
    [] ~BindingOk(m, s, type, writable) -> Fail(m, "invalid")
    [] OTHER -> IF m.syms[s].var \notin {<<>>, Some(v)} THEN Fail(m, "invalid")
                ELSE Done([m EXCEPT !.syms[s].var = Some(v)], s)

\* Module::create_variable: data of the variable's type, bound to it.  A
\* pointer keeps a symbol initial as a relocation; none is zero storage.
BindDatum(r, type, writable) == IF r.v = 0 THEN r ELSE BindVariable(r.m, r.m.data[r.v].sym, type, writable)
CreateVariable(m, name, type, init, writable) ==
  IF m.error = "none" /\ (name = NoName \/ ~Storable(type)) THEN Fail(m, "invalid")
  ELSE BindDatum(CreateData(m, name, init, writable), type, writable)

BindImport(r, type, writable) == IF r.v = 0 THEN r ELSE BindVariable(r.m, r.v, type, writable)
ImportVariable(m, name, type, writable) ==
  IF m.error = "none" /\ ~Storable(type) THEN Fail(m, "invalid") ELSE BindImport(Import(m, name, <<>>), type, writable)

(***************************************************************************)
(* Verification                                                            *)
(***************************************************************************)
\* The code of a function in layout order; the labels of a block show as one
\* "label" entry in front of its instructions.
LabelMark(b) == IF b.labels = <<>> THEN <<>> ELSE <<Instr("label", <<>>)>>
Flat(f) ==
  LET F[n \in 0..Len(f.blocks)] ==
        IF n = 0 THEN <<>> ELSE F[n - 1] \o LabelMark(f.blocks[n]) \o f.blocks[n].code
  IN F[Len(f.blocks)]
\* An overflow branch follows its overflow instruction with register moves
\* and no label in between.
RegisterMove(i) == i.op = "mov" /\ i.args[2].k = "reg"
FlagSourceOk(f) ==
  LET c == Flat(f) IN
  \A n \in DOMAIN c : c[n].op = "bo" =>
    \E k \in 1..(n - 1) : c[k].op = "addo" /\ \A j \in (k + 1)..(n - 1) : RegisterMove(c[j])
BlockInstructions(b) == {b.code[n] : n \in DOMAIN b.code}
Instructions(f) == UNION {BlockInstructions(f.blocks[b]) : b \in DOMAIN f.blocks}
FunctionOps(f) == {i.op : i \in Instructions(f)}
UsesJumpReturn(f) == "jret" \in FunctionOps(f)

FunctionOk(m, f) ==
  LET last == f.blocks[Len(f.blocks)].code
      end == last[Len(last)].op
  IN /\ SignatureOk(SigOf(m, f.sym)) /\ f.blocks # <<>>
     /\ \A b \in DOMAIN f.blocks : \A n \in DOMAIN f.blocks[b].code :
          LET i == f.blocks[b].code[n] IN
          /\ ValidInstruction(m, f, i)
          /\ n < Len(f.blocks[b].code) => Descriptor(i.op).flow = "next"
     /\ ~({"ret", "jret"} \subseteq FunctionOps(f))
     /\ FlagSourceOk(f)
     /\ last # <<>> /\ (end = "jcall" \/ Descriptor(end).flow = "exit")

\* Faulty form: the calling convention is not compared.
CallTargetLoose(m, i, t, target) ==
  /\ target.syms[t].kind = "function" /\ target.syms[t].fn # 0
  /\ SigOf(m, SymbolOperand(i.args[1])) = SigOf(target, t)
CallTargetOk(m, i, t, target) ==
  LET y == target.syms[t] IN
  /\ y.kind = "function" /\ y.fn # 0
  /\ SigOf(m, SymbolOperand(i.args[1])) = SigOf(target, t)
  /\ (i.op = "jcall") = UsesJumpReturn(target.fns[y.fn])

Calls(m) == {i \in UNION {Instructions(m.fns[f]) : f \in DOMAIN m.fns} : IsCall(i)}

ModuleOk(m) ==
  /\ m.error = "none"
  /\ \A s \in DOMAIN m.syms : LET y == m.syms[s] IN
       /\ y.kind # "forward" /\ (y.kind = "function" => y.fn # 0) /\ (y.kind = "data" => y.data # 0)
       /\ y.var # <<>> => BindingOk(m, s, Head(y.var).type, Head(y.var).writable)
  /\ \A f \in DOMAIN m.fns : FunctionOk(m, m.fns[f])
  /\ \A i \in Calls(m) : LET t == SymbolOperand(i.args[2]) IN
       t # 0 /\ m.syms[t].kind = "function" => CallTargetOk(m, i, t, m)
  /\ \A d \in DOMAIN m.data : InitializerOk(m, m.data[d].init)

\* The exported symbols of a program: <<module, symbol>>.
Exports(p) == UNION {{<<k, s>> : s \in {s \in DOMAIN p[k].syms : p[k].syms[s].exported}} : k \in DOMAIN p}
ExportNamed(p, name) == {e \in Exports(p) : p[e[1]].syms[e[2]].name = name}

\* Program::verify
ProgramOk(p) ==
  /\ \A k \in DOMAIN p : ModuleOk(p[k])
  /\ \A e1, e2 \in Exports(p) : p[e1[1]].syms[e1[2]].name = p[e2[1]].syms[e2[2]].name => e1 = e2
  /\ \A k \in DOMAIN p :
       /\ \A s \in DOMAIN p[k].syms : LET y == p[k].syms[s] IN
            y.kind = "import" => \A e \in ExportNamed(p, y.name) :
              LET x == p[e[1]].syms[e[2]] IN
              /\ y.var # <<>> =>
                   /\ BindingOk(p[e[1]], e[2], Head(y.var).type, Head(y.var).writable)
                   /\ x.var # <<>> => /\ Head(x.var).type = Head(y.var).type
                                      /\ Head(y.var).writable => Head(x.var).writable
              /\ y.sig # <<>> => x.sig = y.sig
       /\ \A i \in Calls(p[k]) : LET t == SymbolOperand(i.args[2]) IN
            t # 0 /\ p[k].syms[t].kind = "import" =>
              \A e \in ExportNamed(p, p[k].syms[t].name) : CallTargetOk(p[k], i, e[2], p[e[1]])
=============================================================================
