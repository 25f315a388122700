----------------------------- MODULE TextFormat -----------------------------
(***************************************************************************)
(* Portable MIR text (lib/Serialization/Text.cpp): the formatter turns a   *)
(* verified module into statements, the parser turns statements into a     *)
(* module through the operations of IRModule.                              *)
(*                                                                         *)
(* A statement is a record tagged by st; a label line is a statement of    *)
(* its own until Split attaches it to the next one, as the parser does.    *)
(* An operand is a token: a name, a literal or a memory form.              *)
(***************************************************************************)
EXTENDS IRModule

CONSTANT Unspellable        \* names that are not identifiers of the grammar
ASSUME UnspellableAssumption == NoName \in Unspellable

Identifier(name) == name \notin Unspellable
Concat(parts) ==
  LET C[n \in 0..Len(parts)] == IF n = 0 THEN <<>> ELSE C[n - 1] \o parts[n] IN C[Len(parts)]

(***************************************************************************)
(* Names the formatter makes up                                            *)
(***************************************************************************)
\* The least number from n on whose name with this prefix is not taken.
FreeNumber(prefix, n, taken) ==
  CHOOSE k \in n..(n + Cardinality(taken)) :
    <<prefix, k>> \notin taken /\ \A j \in n..(k - 1) : <<prefix, j>> \in taken

\* Register names: the register's own unless it is unspellable, a symbol of
\* the module (which it would shadow) or taken; then ".r0", ".r1", ...
RegisterNames(m, f) ==
  LET usable(n, used) == Identifier(n) /\ Find(m, n) = 0 /\ n \notin used
      N[k \in 0..Len(f.regs)] ==
        IF k = 0 THEN [out |-> <<>>, used |-> {}, next |-> 0]
        ELSE LET a == N[k - 1]
                 own == f.regs[k].name
                 num == FreeNumber(".r", a.next, a.used \cup DOMAIN m.names)
                 name == IF usable(own, a.used) THEN own ELSE <<".r", num>>
             IN [out |-> Append(a.out, name), used |-> a.used \cup {name},
                 next |-> IF usable(own, a.used) THEN a.next ELSE num + 1]
  IN N[Len(f.regs)].out

\* Functions that initialize data are written first.
Expressions(m) == {m.data[d].init.f[2] : d \in {d \in DOMAIN m.data : m.data[d].init.k = "expr"}}
FunctionItems(m) == SelectSeq(m.items, LAMBDA i : i.k = "function")
FunctionOrder(m) ==
  LET expr == Expressions(m) IN
  SelectSeq(FunctionItems(m), LAMBDA i : i.n \in expr) \o SelectSeq(FunctionItems(m), LAMBDA i : i.n \notin expr)

\* Labels are numbered over the whole module, block by block.
FunctionLabels(f) ==
  Concat([b \in DOMAIN f.blocks |-> [l \in DOMAIN f.blocks[b].labels |-> Lab(f.id, f.blocks[b].labels[l])]])
LabelsInOrder(m) == Concat([n \in DOMAIN FunctionOrder(m) |-> FunctionLabels(m.fns[FunctionOrder(m)[n].n])])
LabelNames(m, taken) ==
  LET order == LabelsInOrder(m)
      N[k \in 0..Len(order)] == IF k = 0 THEN -1 ELSE FreeNumber(".L", N[k - 1] + 1, taken)
  IN [l \in {order[k] : k \in DOMAIN order} |-> <<".L", N[CHOOSE k \in DOMAIN order : order[k] = l]>>]

\* An operand that the grammar cannot spell takes an address temporary: a
\* symbol with a displacement, block memory with one.
NeedsTemporary(o) == (o.k = "sym" /\ o.d # 0) \/ (o.k = "mem" /\ IsBlock(o.type) /\ o.d # 0)

\* The places the formatter visits, in item order: prototypes as they become
\* visible, and every instruction.
FunctionPlaces(m, f) ==
  Concat([b \in DOMAIN m.fns[f].blocks |-> [n \in DOMAIN m.fns[f].blocks[b].code |-> <<f, b, n>>]])
ItemPlaces(m, i) ==
  CASE i.k = "function" -> FunctionPlaces(m, i.n)
    [] i.k = "symbol" /\ m.syms[i.n].kind = "prototype" -> <<<<i.n>>>>
    [] OTHER -> <<>>
Places(m) == Concat([k \in DOMAIN m.items |-> ItemPlaces(m, m.items[k])])

\* Give every temporary and every call without a visible prototype a name.
\* gen lists the generated prototypes <<name, signature>>.
Extend(fn, k, v) == [x \in DOMAIN fn \cup {k} |-> IF x = k THEN v ELSE fn[x]]
Fresh(a, prefix) == <<prefix, FreeNumber(prefix, a.next, a.taken)>>
Take(a, name) == [a EXCEPT !.taken = @ \cup {name}, !.next = name[2] + 1]
Temporaries(a, place, args) ==
  LET T[n \in 0..Len(args)] ==
        IF n = 0 THEN [a EXCEPT !.temps = Extend(@, place, <<>>)]
        ELSE LET t == T[n - 1]
                 name == Fresh(t, ".addr")
             IN IF NeedsTemporary(args[n])
                THEN [Take(t, name) EXCEPT !.temps[place] = Append(@, <<n, name>>)] ELSE t
  IN T[Len(args)]
CallSignature(a, m, place, i) ==
  LET p == SymbolOperand(i.args[1])
      known == {g \in DOMAIN a.gen : a.gen[g][2] = SigOf(m, p)}
      name == Fresh(a, ".sig")
  IN CASE ~IsCall(i) -> a
       [] IsCall(i) /\ p \in a.visible -> [a EXCEPT !.sigs = Extend(@, place, m.syms[p].name)]
       [] IsCall(i) /\ p \notin a.visible ->
            IF known # {} THEN [a EXCEPT !.sigs = Extend(@, place, a.gen[CHOOSE g \in known : TRUE][1])]
            ELSE [Take(a, name) EXCEPT !.sigs = Extend(@, place, name),
                                       !.gen = Append(@, <<name, SigOf(m, p)>>)]
Names(m, taken) ==
  LET places == Places(m)
      Instruction(p) == m.fns[p[1]].blocks[p[2]].code[p[3]]
      N[k \in 0..Len(places)] ==
        IF k = 0 THEN [taken |-> taken, next |-> 0, temps |-> <<>>, sigs |-> <<>>, gen |-> <<>>, visible |-> {}]
        ELSE LET p == places[k] IN
             IF Len(p) = 1 THEN [N[k - 1] EXCEPT !.visible = @ \cup {p[1]}]
             ELSE CallSignature(Temporaries(N[k - 1], p, Instruction(p).args), m, p, Instruction(p))
  IN N[Len(places)]

(***************************************************************************)
(* Statements                                                              *)
(***************************************************************************)
\* type_name: bool is written as i64.
TypeName(t) == IF t.k = "bool" THEN Ty("i64") ELSE t
SignatureText(sig) == [sig EXCEPT !.results = [n \in DOMAIN @ |-> TypeName(@[n])],
                                  !.params = [n \in DOMAIN @ |-> TypeName(@[n])]]

\* A string is a sequence of characters, which are names of one character.
\* A literal is written with its terminating NUL, escaped.
Nul == <<"nul", 0>>
Back == <<"back", 0>>
Quote == <<"quote", 0>>
Octal == {<<"0", 0>>, <<"7", 0>>}
Escape(c) == CASE c = Nul -> <<Back, <<"0", 0>>, <<"0", 0>>, <<"0", 0>>>>
               [] c \in {Quote, Back} -> <<Back, c>>
               [] OTHER -> <<c>>
Terminated(v) == IF v = <<>> \/ v[Len(v)] # Nul THEN Append(v, Nul) ELSE v
Quoted(v) == Concat([n \in DOMAIN Terminated(v) |-> Escape(Terminated(v)[n])])
\* The lexer reads up to three octal digits after a backslash.
OctalRun(t, n) == CHOOSE k \in 0..3 : /\ \A j \in 1..k : n + j <= Len(t) /\ t[n + j] \in Octal
                                      /\ k = 3 \/ n + k + 1 > Len(t) \/ t[n + k + 1] \notin Octal
OctalByte(t, n) == IF \A j \in 1..OctalRun(t, n) : t[n + j] = <<"0", 0>> THEN Nul ELSE <<"byte", 0>>
Unquoted(t) ==
  LET U[n \in 0..Len(t)] ==      \* the bytes of the suffix that starts at n + 1
        IF n = Len(t) THEN <<>>
        ELSE IF t[n + 1] # Back THEN <<t[n + 1]>> \o U[n + 1]
        ELSE IF OctalRun(t, n + 1) = 0 THEN <<t[n + 2]>> \o U[n + 2]
        ELSE <<OctalByte(t, n + 1)>> \o U[n + 1 + OctalRun(t, n + 1)]
  IN Terminated(U[0])

NameToken(n) == [t |-> "name", n |-> n]
LiteralToken(v) == [t |-> "lit", v |-> v]
MemoryToken(regs, o, override) ==
  LET named(r) == IF r = 0 THEN NoName ELSE regs[r] IN
  [t |-> "mem", type |-> o.type.k, d |-> IF IsBlock(o.type) THEN o.type.n ELSE o.d,
   base |-> IF override # NoName THEN override ELSE named(o.base),
   index |-> IF override # NoName THEN NoName ELSE named(o.index)]
Token(m, regs, labels, o) ==
  CASE o.k = "reg" -> NameToken(regs[o.r])
    [] o.k = "lab" -> NameToken(labels[o])
    [] o.k = "sym" -> NameToken(m.syms[o.s].name)
    [] o.k = "mem" -> MemoryToken(regs, o, NoName)
    [] o.k = "str" -> LiteralToken(Str(Quoted(o.v)))
    [] OTHER -> LiteralToken(o)
OpStatement(op, args) == [st |-> "op", op |-> op, args |-> args]

\* The instructions that compute an address temporary.
AddressCode(m, regs, o, name) ==
  LET t == NameToken(name)
      step(op, x) == <<OpStatement(op, <<t, t, x>>)>>
  IN IF o.k = "sym"
     THEN <<OpStatement("mov", <<t, NameToken(m.syms[o.s].name)>>)>> \o step("add", LiteralToken(Num(o.d)))
     ELSE <<OpStatement("mov", <<t, IF o.index # 0 THEN NameToken(regs[o.index]) ELSE LiteralToken(Num(0))>>)>>
          \o (IF o.base # 0 THEN step("add", NameToken(regs[o.base])) ELSE <<>>)
          \o step("add", LiteralToken(Num(o.d)))

WriteInstruction(m, regs, labels, names, place, i) ==
  LET temps == names.temps[place]
      of(n) == {k \in DOMAIN temps : temps[k][1] = n}
      temp(n) == temps[CHOOSE k \in of(n) : TRUE][2]
      A[k \in 0..Len(temps)] ==
        IF k = 0 THEN <<>> ELSE A[k - 1] \o AddressCode(m, regs, i.args[temps[k][1]], temps[k][2])
      arg(n) == IF of(n) # {}
                THEN IF i.args[n].k = "mem" THEN MemoryToken(regs, i.args[n], temp(n)) ELSE NameToken(temp(n))
                ELSE IF n = 1 /\ IsCall(i) THEN NameToken(names.sigs[place])
                ELSE Token(m, regs, labels, i.args[n])
  IN A[Len(temps)] \o <<OpStatement(i.op, [n \in DOMAIN i.args |-> arg(n)])>>

\* Registers are declared with the width their class has: every integer is i64.
LocalType(t) == IF IsInteger(t) THEN Ty("i64") ELSE t
LocalStatement(r, name) == [st |-> "local", type |-> LocalType(r.type), n |-> name, hw |-> r.hw]
TemporaryStatement(name) == [st |-> "local", type |-> Ty("i64"), n |-> name, hw |-> NoName]

WriteFunction(m, k, labels, names) ==
  LET f == m.fns[k]
      regs == RegisterNames(m, f)
      args == SelectSeq([r \in DOMAIN f.regs |-> <<f.regs[r].arg, regs[r]>>], LAMBDA x : x[1])
      locals == Concat([r \in DOMAIN f.regs |->
                  IF f.regs[r].arg THEN <<>> ELSE <<LocalStatement(f.regs[r], regs[r])>>])
      temps == Concat([b \in DOMAIN f.blocks |-> Concat([n \in DOMAIN f.blocks[b].code |->
                 [t \in DOMAIN names.temps[<<k, b, n>>] |-> TemporaryStatement(names.temps[<<k, b, n>>][t][2])]])])
      block(b) == [l \in DOMAIN f.blocks[b].labels |->
                     [st |-> "label", n |-> labels[Lab(f.id, f.blocks[b].labels[l])]]]
                  \o Concat([n \in DOMAIN f.blocks[b].code |->
                       WriteInstruction(m, regs, labels, names, <<k, b, n>>, f.blocks[b].code[n])])
  IN <<[st |-> "func", n |-> m.syms[f.sym].name, sig |-> SignatureText(SigOf(m, f.sym)),
        args |-> [n \in DOMAIN args |-> args[n][2]]]>>
     \o locals \o temps \o Concat([b \in DOMAIN f.blocks |-> block(b)]) \o <<[st |-> "endfunc"]>>

\* Initialized pointers are written as u64.
DataType(t) == IF t.k = "p" THEN Ty("u64") ELSE TypeName(t)
WriteData(m, d, labels) ==
  LET init == d.init IN
  [st |-> "data", n |-> m.syms[d.sym].name, kind |-> init.k,
   body |-> CASE init.k = "init" -> [type |-> DataType(init.type), vals |-> init.vals]
              [] init.k = "zero" -> [size |-> init.n]
              [] init.k = "ref" -> [to |-> m.syms[init.s].name, d |-> init.d]
              [] init.k = "lref" -> [to |-> labels[Lab(init.f, init.l)], d |-> init.d,
                                     base |-> IF init.b = 0 THEN NoName ELSE labels[Lab(init.f, init.b)]]
              [] init.k = "expr" -> [to |-> m.syms[m.fns[init.f[2]].sym].name]]

\* Items that are hoisted to the front of the module and skipped in place.
Hoisted(m, i) == \/ i.k = "forward"
                 \/ i.k = "symbol" /\ m.syms[i.n].kind = "import"
                 \/ i.k = "function" /\ i.n \in Expressions(m)
Declarations(m) ==
  Concat([s \in DOMAIN m.syms |->
    CASE m.syms[s].kind = "import" -> <<[st |-> "import", n |-> m.syms[s].name]>>
      [] m.syms[s].kind = "function" \/ (m.syms[s].kind = "data" /\ m.syms[s].name # NoName) ->
           <<[st |-> "forward", n |-> m.syms[s].name]>>
      [] OTHER -> <<>>])
EmptySignature == [results |-> <<>>, params |-> <<>>, variadic |-> FALSE]
ProtoStatement(name, sig) == [st |-> "proto", n |-> name, sig |-> SignatureText(sig)]

\* A skipped item between two data items would let an anonymous datum join
\* the section before it: an empty prototype keeps them apart.
NeedsBoundary(m, i, lastData, skipped) ==
  i.k = "data" /\ m.syms[m.data[i.n].sym].name = NoName /\ lastData /\ skipped
WriteItem(m, i, labels, names) ==
  CASE i.k = "function" -> WriteFunction(m, i.n, labels, names)
    [] i.k = "data" -> <<WriteData(m, m.data[i.n], labels)>>
    [] i.k = "symbol" -> <<ProtoStatement(m.syms[i.n].name, SigOf(m, i.n))>>
    [] i.k = "export" -> <<[st |-> "export", n |-> m.syms[i.n].name]>>
WriteItems(m, labels, names) ==
  LET W[n \in 0..Len(m.items)] ==
        IF n = 0 THEN [out |-> <<>>, a |-> names, last |-> FALSE, skipped |-> FALSE]
        ELSE LET w == W[n - 1]
                 i == m.items[n]
                 name == Fresh(w.a, ".boundary")
                 boundary == NeedsBoundary(m, i, w.last, w.skipped)
             IN IF Hoisted(m, i) THEN [w EXCEPT !.skipped = TRUE]
                ELSE [out |-> w.out \o (IF boundary THEN <<ProtoStatement(name, EmptySignature)>> ELSE <<>>)
                              \o WriteItem(m, i, labels, names),
                      a |-> IF boundary THEN Take(w.a, name) ELSE w.a, last |-> i.k = "data", skipped |-> FALSE]
  IN W[Len(m.items)].out

\* Formatter::write_module: the statements of a module, or none when a name
\* has no spelling.
WriteModuleWith(m, labels, names) ==
  LET order == FunctionOrder(m)
      hoisted == [n \in DOMAIN order |-> IF order[n].n \in Expressions(m)
                                         THEN WriteFunction(m, order[n].n, labels, names) ELSE <<>>]
  IN <<[st |-> "module", n |-> m.name]>> \o Declarations(m)
     \o [g \in DOMAIN names.gen |-> ProtoStatement(names.gen[g][1], names.gen[g][2])]
     \o Concat(hoisted) \o WriteItems(m, labels, names) \o <<[st |-> "endmodule"]>>
WriteModule(m) ==
  LET taken == DOMAIN m.names \cup UNION {{RegisterNames(m, m.fns[f])[r] : r \in DOMAIN m.fns[f].regs} : f \in DOMAIN m.fns} IN
  WriteModuleWith(m, LabelNames(m, taken), Names(m, taken))
Spellable(m) ==
  /\ \A n \in DOMAIN m.names \cup {m.name} : Identifier(n)
  /\ \A f \in DOMAIN m.fns : \A r \in DOMAIN m.fns[f].regs :
       m.fns[f].regs[r].hw = NoName \/ Identifier(m.fns[f].regs[r].hw)

(***************************************************************************)
(* The parser                                                              *)
(***************************************************************************)
\* Parser::split attaches label lines to the statement that follows them.
Split(text) ==
  LET S[n \in 0..Len(text)] ==
        IF n = 0 THEN [out |-> <<>>, labels |-> <<>>]
        ELSE LET p == S[n - 1] IN
             IF text[n].st = "label" THEN [p EXCEPT !.labels = Append(@, text[n].n)]
             ELSE [out |-> Append(p.out, [s |-> text[n], labels |-> p.labels]), labels |-> <<>>]
  IN S[Len(text)].out

\* A parse in progress: the module, the labels by name, the bodies still to
\* be filled (function, place of each statement) and the data to define.
Start(m) == [m |-> m, ok |-> TRUE, labels |-> <<>>, bodies |-> <<>>, data |-> <<>>]
Stop(p) == [p EXCEPT !.ok = FALSE]
Into(p, r) == IF r.v = 0 THEN Stop(p) ELSE [p EXCEPT !.m = r.m]

\* First pass: reserve the name of every record outside functions.
Reserve(p, text) ==
  LET R[n \in 0..Len(text)] ==
        IF n = 0 THEN p
        ELSE LET q == R[n - 1]
                 s == text[n].s
             IN IF q.ok /\ s.st \in {"func", "proto", "data", "import", "export", "forward"} /\ s.n # NoName
                THEN Into(q, ReserveSymbol(q.m, s.n)) ELSE q
  IN R[Len(text)]

\* Parser::prepare for one statement of a body: registers, blocks, labels.
\* A block starts at a label after an instruction and after a terminator.
PrepareStatement(b, x) ==
  LET s == x.s
      r == AddRegister(b.f, s.type, s.n, s.hw, FALSE)
      split == b.term \/ (b.has /\ x.labels # <<>>)
      g == IF split THEN CreateBlock(b.f) ELSE b.f
      at == Len(g.blocks)
      L[k \in 0..Len(x.labels)] == IF k = 0 THEN g ELSE CreateLabel(L[k - 1], at)
      label(k) == Lab(g.id, Len(g.labels) + k)
  IN IF ~b.ok THEN b
     ELSE IF s.st = "local" THEN IF r.v = 0 THEN [b EXCEPT !.ok = FALSE] ELSE [b EXCEPT !.f = r.m]
     ELSE [b EXCEPT !.f = L[Len(x.labels)], !.has = TRUE, !.term = Descriptor(s.op).flow # "next",
                    !.at = Append(@, at),
                    !.ok = @ /\ \A k \in DOMAIN x.labels : x.labels[k] \notin DOMAIN b.labels,
                    !.labels = [n \in DOMAIN @ \cup {x.labels[k] : k \in DOMAIN x.labels} |->
                      IF n \in DOMAIN b.labels THEN b.labels[n]
                      ELSE label(CHOOSE k \in DOMAIN x.labels : x.labels[k] = n)]]
Prepare(f, labels, body) ==
  LET P[n \in 0..Len(body)] ==
        IF n = 0 THEN [f |-> CreateBlock(f), labels |-> labels, has |-> FALSE, term |-> FALSE, at |-> <<>>, ok |-> TRUE]
        ELSE PrepareStatement(P[n - 1], body[n])
  IN P[Len(body)]

\* Second pass: publish every record in its place.
BodyEnd(text, n) == CHOOSE e \in n..Len(text) : text[e].s.st = "endfunc" /\ \A k \in n..(e - 1) : text[k].s.st # "endfunc"
Prepared(p, k, b, body) ==
  [p EXCEPT !.m.fns[k] = b.f, !.labels = b.labels, !.ok = @ /\ b.ok,
            !.bodies = Append(@, [f |-> k, at |-> b.at, code |-> SelectSeq(body, LAMBDA x : x.s.st = "op")])]
Created(p, r, body) ==
  IF r.v = 0 THEN Stop(p) ELSE Prepared([p EXCEPT !.m = r.m], r.v, Prepare(r.m.fns[r.v], p.labels, body), body)
ReadFunction(p, text, n) ==
  LET s == text[n].s
      end == BodyEnd(text, n)
  IN Created([p EXCEPT !.ok = text[end].labels = <<>>], CreateFunction(p.m, s.n, s.sig, s.args), SubSeq(text, n + 1, end - 1))
Declared(p, s, r) == IF r.v = 0 THEN Stop(p) ELSE [p EXCEPT !.m = r.m, !.data = Append(@, [s |-> s, sym |-> r.v])]
ReadRecord(p, text, n) ==
  LET s == text[n].s IN
     IF ~p.ok THEN p ELSE
     CASE s.st = "func" -> ReadFunction(p, text, n)
       [] s.st = "proto" -> Into(p, Prototype(p.m, s.n, s.sig))
       [] s.st = "import" -> Into(p, Import(p.m, s.n, <<>>))
       [] s.st = "forward" -> Into(p, Forward(p.m, s.n))
       [] s.st = "export" -> Into(p, ExportSymbol(p.m, Find(p.m, s.n)))
       [] s.st = "data" -> Declared(p, s, DeclareData(p.m, s.n))
       [] OTHER -> p
ReadRecords(p, text) ==
  LET R[n \in 0..Len(text)] == IF n = 0 THEN p ELSE ReadRecord(R[n - 1], text, n)
  IN R[Len(text)]

\* Parser::operand: literals, memory, then labels where the role wants one,
\* then registers before symbols.
ReadOperand(p, f, op, n, t) ==
  LET roles == Descriptor(op).roles
      label == (n \in DOMAIN roles /\ roles[n].c = "l") \/ (op = "switch" /\ n > 1)
      reg(name) == IF name = NoName THEN 0 ELSE f.names[name]
      block == t.type \in {"blk", "rblk"}
  IN CASE t.t = "lit" -> IF t.v.k = "str" THEN Str(Unquoted(t.v.v)) ELSE t.v
       [] t.t = "mem" -> Mem([k |-> t.type, n |-> IF block THEN t.d ELSE 0], reg(t.base), reg(t.index),
                             IF block THEN 0 ELSE t.d)
       [] t.t = "name" /\ label -> p.labels[t.n]
       [] t.t = "name" /\ ~label -> IF t.n \in DOMAIN f.names THEN Reg(f.id, f.names[t.n])
                                    ELSE Sym(p.m.id, Find(p.m, t.n), 0)
Resolvable(p, f, op, n, t) ==
  LET roles == Descriptor(op).roles
      label == (n \in DOMAIN roles /\ roles[n].c = "l") \/ (op = "switch" /\ n > 1)
  IN CASE t.t = "lit" -> TRUE
       [] t.t = "mem" -> {t.base, t.index} \subseteq DOMAIN f.names \cup {NoName}
       [] t.t = "name" -> IF label THEN t.n \in DOMAIN p.labels ELSE t.n \in DOMAIN f.names \/ Find(p.m, t.n) # 0

\* Third pass: emit the instructions; a void function that would fall off its
\* end gets a return.
ReadInstruction(p, k, at, s) ==
  LET f == p.m.fns[k]
      i == Instr(s.op, [n \in DOMAIN s.args |-> ReadOperand(p, f, s.op, n, s.args[n])])
  IN IF p.ok /\ \A n \in DOMAIN s.args : Resolvable(p, f, s.op, n, s.args[n]) THEN Into(p, Emit(p.m, k, at, i)) ELSE Stop(p)
FallsOff(f) ==
  LET last == f.blocks[Len(f.blocks)] IN
  ~Terminator(last) \/ Descriptor(last.code[Len(last.code)].op).flow = "branch"
CloseBody(p, k) ==
  LET f == p.m.fns[k]
      g == IF Terminator(f.blocks[Len(f.blocks)]) THEN CreateBlock(f) ELSE f
  IN IF ~p.ok \/ ~FallsOff(f) THEN p
     ELSE IF FnSig(p.m, k).results # <<>> THEN Stop(p)
     ELSE Into(p, Emit([p.m EXCEPT !.fns[k] = g], k, Len(g.blocks), Instr("ret", <<>>)))
ReadBody(p, b) ==
  LET I[n \in 0..Len(b.code)] ==
        IF n = 0 THEN p ELSE ReadInstruction(I[n - 1], b.f, b.at[n], b.code[n].s)
  IN CloseBody(I[Len(b.code)], b.f)
ReadBodies(p) ==
  LET B[n \in 0..Len(p.bodies)] == IF n = 0 THEN p ELSE ReadBody(B[n - 1], p.bodies[n])
  IN B[Len(p.bodies)]

\* Parser::initializer
ReadInitializer(p, s) ==
  LET b == s.body IN
  CASE s.kind = "init" -> [k |-> "init", type |-> b.type, vals |-> b.vals]
    [] s.kind = "zero" -> [k |-> "zero", n |-> b.size]
    [] s.kind = "ref" -> [k |-> "ref", m |-> p.m.id, s |-> Find(p.m, b.to), d |-> b.d]
    [] s.kind = "lref" -> [k |-> "lref", f |-> p.labels[b.to].f, l |-> p.labels[b.to].l,
                           b |-> IF b.base = NoName THEN 0 ELSE p.labels[b.base].l, d |-> b.d]
    [] s.kind = "expr" -> [k |-> "expr", f |-> p.m.fns[p.m.syms[Find(p.m, b.to)].fn].id]
ReadDatum(p, d) == IF ~p.ok THEN p ELSE Into(p, DefineData(p.m, d.sym, ReadInitializer(p, d.s), TRUE))
ReadData(p) ==
  LET D[n \in 0..Len(p.data)] == IF n = 0 THEN p ELSE ReadDatum(D[n - 1], p.data[n])
  IN D[Len(p.data)]

\* Parser::module
ReadModule(m, text) ==
  LET body == Split(SubSeq(text, 2, Len(text) - 1))
  IN ReadData(ReadBodies(ReadRecords(Reserve(Start(m), body), body)))
AddModule(q, r) == [ok |-> q.ok /\ r.ok, p |-> Append(q.p, r.m)]
ReadText(texts) ==
  LET P[n \in 0..Len(texts)] ==
        IF n = 0 THEN [ok |-> TRUE, p |-> <<>>]
        ELSE AddModule(P[n - 1], ReadModule(NewModule(n, texts[n][1].n), texts[n]))
  IN P[Len(texts)]
WriteText(p) == [k \in DOMAIN p |-> WriteModule(p[k])]
=============================================================================
