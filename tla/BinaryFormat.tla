---------------------------- MODULE BinaryFormat ----------------------------
(***************************************************************************)
(* The raw binary format (lib/Serialization/Binary.cpp).  The writer emits *)
(* one stream of tagged tokens; strings are numbered in the order of their *)
(* first use and a token carries the number.  The reader parses the stream *)
(* into records and builds the module from them through IRModule.          *)
(***************************************************************************)
EXTENDS TextFormat

CONSTANTS Base,       \* 2^8 in the source: the values of a wire byte
          Wide,       \* 8 in the source: the bytes of a 64-bit value
          Inline      \* 127 in the source: the greatest one-byte unsigned
ASSUME WireAssumption == Base \in Nat \ {0, 1} /\ Wide \in Nat \ {0} /\ Inline \in 0..(Base - 1)

(***************************************************************************)
(* Numbers                                                                 *)
(***************************************************************************)
Range64 == Base ^ Wide
Bits(v) == v % Range64
Signed(bits) == IF bits >= Range64 \div 2 THEN bits - Range64 ELSE bits
\* Faulty form: a value of Base ^ n is given n bytes.
WidthShort(v) == CHOOSE n \in 1..Wide : v <= Base ^ n /\ (n = 1 \/ v > Base ^ (n - 1))
\* The fewest bytes that hold a value, and the value in that many bytes.
Width(v) == CHOOSE n \in 1..Wide : v < Base ^ n /\ (n = 1 \/ v >= Base ^ (n - 1))
Little(v, n) == [k \in 1..n |-> (v \div Base ^ (k - 1)) % Base]
FromLittle(d) ==
  LET F[k \in 0..Len(d)] == IF k = 0 THEN 0 ELSE F[k - 1] + d[k] * Base ^ (k - 1) IN F[Len(d)]

Tok(tag, v) == [tag |-> tag, v |-> v]
Uint(v) == IF v <= Inline THEN Tok("U0", <<v>>) ELSE Tok("U", Little(v, Width(v)))
Sint(v) == Tok("I", Little(Bits(v), Width(Bits(v))))
IsUint(t) == t.tag \in {"U0", "U"}
UintOf(t) == FromLittle(t.v)
SintOf(t) == Signed(FromLittle(t.v))

\* Names are written with a terminating NUL, so a name and a literal with
\* the same bytes share one string.
WireName(n) == (IF n = NoName THEN <<>> ELSE <<n>>) \o <<Nul>>
NameTok(n) == Tok("NAME", WireName(n))
RegTok(n) == Tok("REG", WireName(n))
Kind(k) == Tok("NAME", <<<<k, 0>>, Nul>>)
Eoi == Tok("EOI", <<>>)
\* type_code / scalar_type: bool is i64 on the wire.
TypeTok(t) == Tok("TYPE", TypeName(t).k)

(***************************************************************************)
(* Writer                                                                  *)
(***************************************************************************)
\* Registers keep their names unless empty or taken: a register operand has
\* a tag of its own, so it may share a symbol's name.
BinaryRegisters(f) ==
  LET N[k \in 0..Len(f.regs)] ==
        IF k = 0 THEN [out |-> <<>>, used |-> {}, next |-> 0]
        ELSE LET a == N[k - 1]
                 own == f.regs[k].name
                 num == FreeNumber(".r", a.next, a.used)
                 keep == own # NoName /\ own \notin a.used
                 name == IF keep THEN own ELSE <<".r", num>>
             IN [out |-> Append(a.out, name), used |-> a.used \cup {name}, next |-> IF keep THEN a.next ELSE num + 1]
  IN N[Len(f.regs)].out
LabelNumber(m, l) == (CHOOSE k \in DOMAIN LabelsInOrder(m) : LabelsInOrder(m)[k] = l) - 1

\* Memory: the form says which of displacement, base and index follow.
MemoryTokens(regs, o, override) ==
  LET base == override # NoName \/ o.base # 0
      index == override = NoName /\ o.index # 0
      d == IF IsBlock(o.type) THEN o.type.n ELSE IF override # NoName THEN 0 ELSE o.d
  IN <<Tok("MEM", [disp |-> d # 0 \/ (~base /\ ~index), base |-> base, index |-> index]), TypeTok(o.type)>>
     \o (IF d # 0 \/ (~base /\ ~index) THEN <<Sint(d)>> ELSE <<>>)
     \o (IF base THEN <<RegTok(IF override # NoName THEN override ELSE regs[o.base])>> ELSE <<>>)
     \o (IF index THEN <<RegTok(regs[o.index]), Uint(1)>> ELSE <<>>)
OperandTokens(m, regs, o) ==
  CASE o.k = "int" -> <<Sint(o.v)>>
    [] o.k = "flt" -> <<Tok("FLT", o.t.k)>>
    [] o.k = "str" -> <<Tok("STR", o.v)>>
    [] o.k = "reg" -> <<RegTok(regs[o.r])>>
    [] o.k = "lab" -> <<Tok("LAB", LabelNumber(m, o))>>
    [] o.k = "mem" -> MemoryTokens(regs, o, NoName)
    [] o.k = "sym" -> <<NameTok(m.syms[o.s].name)>>
SignatureTokens(sig, args) ==
  <<Uint(IF sig.variadic THEN 1 ELSE 0), Uint(Len(sig.results))>>
  \o [n \in DOMAIN sig.results |-> TypeTok(sig.results[n])]
  \o Concat([n \in DOMAIN sig.params |->
       <<TypeTok(sig.params[n]), NameTok(IF args = <<>> THEN <<".arg", n - 1>> ELSE args[n])>>
       \o IF IsBlock(sig.params[n]) THEN <<Uint(sig.params[n].n)>> ELSE <<>>])
  \o <<Eoi>>
OpTok(op) == Tok("OP", op)
ExpansionTokens(m, regs, o, name) ==
  LET t == RegTok(name) IN
  IF o.k = "sym" THEN <<OpTok("mov"), t, NameTok(m.syms[o.s].name), OpTok("add"), t, t, Sint(o.d)>>
  ELSE <<OpTok("mov"), t>> \o (IF o.index # 0 THEN <<RegTok(regs[o.index])>> ELSE <<Sint(0)>>)
       \o (IF o.base # 0 THEN <<OpTok("add"), t, t, RegTok(regs[o.base])>> ELSE <<>>)
       \o <<OpTok("add"), t, t, Sint(o.d)>>
InstructionTokens(m, regs, names, place, i) ==
  LET temps == names.temps[place]
      of(n) == {k \in DOMAIN temps : temps[k][1] = n}
      temp(n) == temps[CHOOSE k \in of(n) : TRUE][2]
      arg(n) == IF of(n) # {} THEN IF i.args[n].k = "mem" THEN MemoryTokens(regs, i.args[n], temp(n)) ELSE <<RegTok(temp(n))>>
                ELSE IF n = 1 /\ IsCall(i) THEN <<NameTok(names.sigs[place])>>
                ELSE OperandTokens(m, regs, i.args[n])
  IN Concat([k \in DOMAIN temps |-> ExpansionTokens(m, regs, i.args[temps[k][1]], temps[k][2])])
     \o <<OpTok(i.op)>> \o Concat([n \in DOMAIN i.args |-> arg(n)])
     \o IF Descriptor(i.op).count # "fixed" THEN <<Eoi>> ELSE <<>>

\* Writer::function: plain registers and temporaries in one local record,
\* hardware-bound ones in a global record.
FunctionTokens(m, k, names) ==
  LET f == m.fns[k]
      regs == BinaryRegisters(f)
      args == SelectSeq([r \in DOMAIN f.regs |-> <<f.regs[r].arg, regs[r]>>], LAMBDA x : x[1])
      entry(r, hw) == IF f.regs[r].arg \/ (f.regs[r].hw # NoName) # hw THEN <<>>
                      ELSE <<TypeTok(LocalType(f.regs[r].type)), NameTok(regs[r])>>
                           \o IF hw THEN <<NameTok(f.regs[r].hw)>> ELSE <<>>
      temps == Concat([n \in DOMAIN FunctionPlaces(m, k) |-> LET p == FunctionPlaces(m, k)[n] IN
                 Concat([t \in DOMAIN names.temps[p] |-> <<TypeTok(Ty("i64")), NameTok(names.temps[p][t][2])>>])])
      locals == Concat([r \in DOMAIN f.regs |-> entry(r, FALSE)]) \o temps
      globals == Concat([r \in DOMAIN f.regs |-> entry(r, TRUE)])
      block(b) == [l \in DOMAIN f.blocks[b].labels |-> Tok("LAB", LabelNumber(m, Lab(f.id, f.blocks[b].labels[l])))]
                  \o Concat([n \in DOMAIN f.blocks[b].code |->
                       InstructionTokens(m, regs, names, <<k, b, n>>, f.blocks[b].code[n])])
  IN <<Kind("func"), NameTok(m.syms[f.sym].name)>> \o SignatureTokens(SigOf(m, f.sym), [n \in DOMAIN args |-> args[n][2]])
     \o (IF locals # <<>> THEN <<Kind("local")>> \o locals \o <<Eoi>> ELSE <<>>)
     \o (IF globals # <<>> THEN <<Kind("global")>> \o globals \o <<Eoi>> ELSE <<>>)
     \o Concat([b \in DOMAIN f.blocks |-> block(b)]) \o <<Kind("endfunc")>>

\* Integers are written in the signedness of the element type.
ElementTok(t, v) == CASE v.k = "flt" -> Tok("FLT", v.t.k)
                      [] v.k = "int" -> IF t.k = "u64" THEN Uint(Bits(v.v)) ELSE Sint(v.v)
DataTokens(m, d) ==
  LET init == d.init
      name == m.syms[d.sym].name
      kind == CASE init.k = "init" -> "data" [] init.k = "zero" -> "bss" [] OTHER -> init.k
      label(l) == IF l = 0 THEN Sint(-1) ELSE Sint(LabelNumber(m, Lab(init.f, l)))
  IN (IF name = NoName THEN <<Kind(kind)>> ELSE <<Tok("NAME", <<<<"n" \o kind, 0>>, Nul>>), NameTok(name)>>)
     \o CASE init.k = "init" -> <<TypeTok(DataType(init.type))>>
                                \o [n \in DOMAIN init.vals |-> ElementTok(DataType(init.type), init.vals[n])] \o <<Eoi>>
          [] init.k = "zero" -> <<Uint(init.n)>>
          [] init.k = "ref" -> <<NameTok(m.syms[init.s].name), Sint(init.d)>>
          [] init.k = "lref" -> <<label(init.l), label(init.b), Sint(init.d)>>
          [] init.k = "expr" -> <<NameTok(m.syms[m.fns[init.f[2]].sym].name)>>

BinaryItem(m, i, names) ==
  CASE i.k = "function" -> FunctionTokens(m, i.n, names)
    [] i.k = "data" -> DataTokens(m, m.data[i.n])
    [] i.k = "symbol" -> <<Kind("proto"), NameTok(m.syms[i.n].name)>> \o SignatureTokens(SigOf(m, i.n), <<>>)
    [] i.k = "export" -> <<Kind("export"), NameTok(m.syms[i.n].name)>>
BinaryItems(m, names) ==
  LET W[n \in 0..Len(m.items)] ==
        IF n = 0 THEN [out |-> <<>>, a |-> names, last |-> FALSE, skipped |-> FALSE]
        ELSE LET w == W[n - 1]
                 i == m.items[n]
                 name == Fresh(w.a, ".boundary")
                 boundary == NeedsBoundary(m, i, w.last, w.skipped)
             IN IF Hoisted(m, i) THEN [w EXCEPT !.skipped = TRUE]
                ELSE [out |-> w.out \o (IF boundary THEN <<Kind("proto"), NameTok(name)>> \o SignatureTokens(EmptySignature, <<>>) ELSE <<>>)
                              \o BinaryItem(m, i, names),
                      a |-> IF boundary THEN Take(w.a, name) ELSE w.a, last |-> i.k = "data", skipped |-> FALSE]
  IN W[Len(m.items)].out

ModuleTokensWith(m, names, order, decls) ==
     <<Kind("module"), NameTok(m.name)>>
     \o Concat([d \in DOMAIN decls |-> <<Kind(decls[d].st), NameTok(decls[d].n)>>])
     \o Concat([g \in DOMAIN names.gen |-> <<Kind("proto"), NameTok(names.gen[g][1])>> \o SignatureTokens(names.gen[g][2], <<>>)])
     \o Concat([n \in DOMAIN order |-> IF order[n].n \in Expressions(m) THEN FunctionTokens(m, order[n].n, names) ELSE <<>>])
     \o BinaryItems(m, names) \o <<Kind("endmodule")>>
RegisterSpellings(f) == LET regs == BinaryRegisters(f) IN {regs[r] : r \in DOMAIN regs}
ModuleTokens(m) ==
  ModuleTokensWith(m, Names(m, {m.syms[s].name : s \in DOMAIN m.syms} \cup UNION {RegisterSpellings(m.fns[f]) : f \in DOMAIN m.fns}),
                   FunctionOrder(m), Declarations(m))

\* Writer::string numbers the strings in the order of their first use; a
\* token carries the number.
HasString(t) == t.tag \in {"NAME", "REG", "STR"}
Strings(stream) ==
  LET S[n \in 0..Len(stream)] ==
        IF n = 0 THEN <<>>
        ELSE LET s == S[n - 1] IN
             IF HasString(stream[n]) /\ \A k \in DOMAIN s : s[k] # stream[n].v THEN Append(s, stream[n].v) ELSE s
  IN S[Len(stream)]
StringId(strings, v) == (CHOOSE k \in DOMAIN strings : strings[k] = v) - 1
Numbered(strings, t) == IF HasString(t) THEN [t EXCEPT !.v = StringId(strings, t.v)] ELSE t
WriteBinaryWith(stream, strings) ==
  [strings |-> strings, body |-> [n \in DOMAIN stream |-> Numbered(strings, stream[n])]]
WriteStream(stream) == WriteBinaryWith(stream, Strings(stream))
WriteBinary(p) == WriteStream(Concat([k \in DOMAIN p |-> ModuleTokens(p[k])]) \o <<Tok("EOF", <<>>)>>)

(***************************************************************************)
(* Reader: parsing.  A parser returns [at |-> next position, v |-> value]. *)
(* The streams read are the ones written, so the refusals that remain are  *)
(* those of the module operations below.                                   *)
(***************************************************************************)
RECURSIVE ParseTypes(_, _, _), ParseParams(_, _), ParseArgs(_, _, _), ParseLocals(_, _, _), ParseVals(_, _), ParseRecords(_, _, _, _)

\* Reader::terminated: the name a string spells.
Spelled(w, t) == LET s == w.strings[t.v + 1] IN IF Len(s) = 1 THEN NoName ELSE s[1]
WireType(t, n) == [k |-> t.v, n |-> n]

ParseTypes(w, at, n) ==
  IF n = 0 THEN [at |-> at, v |-> <<>>]
  ELSE LET r == ParseTypes(w, at + 1, n - 1) IN [r EXCEPT !.v = <<WireType(w.body[at], 0)>> \o @]
ParseParams(w, at) ==
  IF w.body[at].tag = "EOI" THEN [at |-> at + 1, v |-> <<>>]
  ELSE LET block == w.body[at].v \in {"blk", "rblk"}
           size == IF block THEN UintOf(w.body[at + 2]) ELSE 0
           r == ParseParams(w, at + IF block THEN 3 ELSE 2)
       IN [r EXCEPT !.v = <<<<WireType(w.body[at], size), Spelled(w, w.body[at + 1])>>>> \o @]
ParseSignature(w, at) ==
  LET results == ParseTypes(w, at + 2, UintOf(w.body[at + 1]))
      params == ParseParams(w, results.at)
  IN [at |-> params.at, args |-> [n \in DOMAIN params.v |-> params.v[n][2]],
      v |-> [variadic |-> UintOf(w.body[at]) = 1, results |-> results.v,
             params |-> [n \in DOMAIN params.v |-> params.v[n][1]]]]

\* Reader::operand: memory forms read what they announce.
ParseMemory(w, at) ==
  LET f == w.body[at].v
      t == w.body[at + 1]
      a == at + IF f.disp THEN 3 ELSE 2
      b == a + IF f.base THEN 1 ELSE 0
  IN [at |-> b + IF f.index THEN 2 ELSE 0,
      v |-> [t |-> "mem", type |-> t.v, d |-> IF f.disp THEN SintOf(w.body[at + 2]) ELSE 0,
             base |-> IF f.base THEN Spelled(w, w.body[a]) ELSE NoName,
             index |-> IF f.index THEN Spelled(w, w.body[b]) ELSE NoName]]
ParseOperand(w, at) ==
  LET t == w.body[at]
      one(v) == [at |-> at + 1, v |-> v]
  IN CASE t.tag = "I" -> one(LiteralToken(Num(SintOf(t))))
       [] t.tag = "FLT" -> one(LiteralToken(Flt(Ty(t.v))))
       [] t.tag = "STR" -> one(LiteralToken(Str(w.strings[t.v + 1])))
       [] t.tag = "REG" -> one([t |-> "reg", n |-> Spelled(w, t)])
       [] t.tag = "NAME" -> one(NameToken(Spelled(w, t)))
       [] t.tag = "LAB" -> one([t |-> "lab", n |-> t.v])
       [] t.tag = "MEM" -> ParseMemory(w, at)
\* A fixed instruction reads as many operands as it has roles, others read
\* to the end marker.
ParseArgs(w, at, left) ==
  IF left = 0 THEN [at |-> at, v |-> <<>>]
  ELSE IF w.body[at].tag = "EOI" THEN [at |-> at + 1, v |-> <<>>]
  ELSE LET o == ParseOperand(w, at)
           r == ParseArgs(w, o.at, left - 1)
       IN [r EXCEPT !.v = <<o.v>> \o @]
ParseLocals(w, at, hw) ==
  IF w.body[at].tag = "EOI" THEN [at |-> at + 1, v |-> <<>>]
  ELSE LET r == ParseLocals(w, at + IF hw THEN 3 ELSE 2, hw)
           local == [type |-> WireType(w.body[at], 0), n |-> Spelled(w, w.body[at + 1]),
                     hw |-> IF hw THEN Spelled(w, w.body[at + 2]) ELSE NoName]
       IN [r EXCEPT !.v = <<local>> \o @]
\* Reader::data
ParseVals(w, at) ==
  IF w.body[at].tag = "EOI" THEN [at |-> at + 1, v |-> <<>>]
  ELSE LET r == ParseVals(w, at + 1)
           t == w.body[at]
           v == CASE t.tag = "FLT" -> Flt(Ty(t.v)) [] IsUint(t) -> Num(Signed(UintOf(t))) [] t.tag = "I" -> Num(SintOf(t))
       IN [r EXCEPT !.v = <<v>> \o @]
ParseData(w, at, kind) ==
  LET vals == ParseVals(w, at + 1) IN
  CASE kind = "data" -> [at |-> vals.at, kind |-> "init", body |-> [type |-> WireType(w.body[at], 0), vals |-> vals.v]]
    [] kind = "bss" -> [at |-> at + 1, kind |-> "zero", body |-> [size |-> UintOf(w.body[at])]]
    [] kind = "ref" -> [at |-> at + 2, kind |-> "ref", body |-> [to |-> Spelled(w, w.body[at]), d |-> SintOf(w.body[at + 1])]]
    [] kind = "lref" -> [at |-> at + 3, kind |-> "lref", body |-> [to |-> SintOf(w.body[at]), base |-> SintOf(w.body[at + 1]),
                                                                  d |-> SintOf(w.body[at + 2])]]
    [] kind = "expr" -> [at |-> at + 1, kind |-> "expr", body |-> [to |-> Spelled(w, w.body[at])]]
DataKinds == {"data", "bss", "ref", "lref", "expr"}

\* Reader::parse_module: the records up to endmodule.  A function record
\* collects locals and instructions with the labels in front of them.
AddTo(records, field, x) == [records EXCEPT ![Len(records)][field] = @ \o x]
ParseRecords(w, at, labels, records) ==
  LET t == w.body[at]
      kind == Spelled(w, t)[1]
      sig == ParseSignature(w, at + 2)
      d == Descriptor(t.v)
      args == ParseArgs(w, at + 1, IF d.count = "fixed" THEN Len(d.roles) ELSE Len(w.body))
      locals == ParseLocals(w, at + 1, kind = "global")
      name == Spelled(w, w.body[at + 1])
      plain(next, r) == ParseRecords(w, next, <<>>, Append(records, r))
      record(n, x) == plain(x.at, [st |-> "data", n |-> n, kind |-> x.kind, body |-> x.body])
      data(start, k, n) == record(n, ParseData(w, start, k))
  IN CASE t.tag = "LAB" -> ParseRecords(w, at + 1, Append(labels, t.v), records)
       [] t.tag = "OP" -> ParseRecords(w, args.at, <<>>, AddTo(records, "code", <<[op |-> t.v, labels |-> labels, args |-> args.v]>>))
       [] t.tag = "NAME" /\ kind = "endmodule" -> [at |-> at + 1, v |-> records]
       [] t.tag = "NAME" /\ kind = "endfunc" -> ParseRecords(w, at + 1, <<>>, records)
       [] t.tag = "NAME" /\ kind \in {"local", "global"} -> ParseRecords(w, locals.at, <<>>, AddTo(records, "locals", locals.v))
       [] t.tag = "NAME" /\ kind = "func" ->
            plain(sig.at, [st |-> "func", n |-> name, sig |-> sig.v, args |-> sig.args, locals |-> <<>>, code |-> <<>>])
       [] t.tag = "NAME" /\ kind = "proto" -> plain(sig.at, [st |-> "proto", n |-> name, sig |-> sig.v])
       [] t.tag = "NAME" /\ kind \in {"import", "forward", "export"} -> plain(at + 2, [st |-> kind, n |-> name])
       [] t.tag = "NAME" /\ kind \in DataKinds -> data(at + 1, kind, NoName)
       [] t.tag = "NAME" /\ \E k \in DataKinds : kind = "n" \o k ->
            data(at + 2, CHOOSE k \in DataKinds : kind = "n" \o k, name)

(***************************************************************************)
(* Reader: building                                                        *)
(***************************************************************************)
\* Blocks of a parsed function: a label after an instruction, or anything
\* after a terminator, starts a new one.
BuildBlocks(f, labels, code) ==
  LET Step(b, i) ==
        LET g == IF b.term \/ (b.has /\ i.labels # <<>>) THEN CreateBlock(b.f) ELSE b.f
            L[k \in 0..Len(i.labels)] == IF k = 0 THEN g ELSE CreateLabel(L[k - 1], Len(g.blocks))
        IN [f |-> L[Len(i.labels)], at |-> Append(b.at, Len(g.blocks)), has |-> TRUE, term |-> Descriptor(i.op).flow # "next",
            ok |-> b.ok /\ \A k \in DOMAIN i.labels : i.labels[k] \notin DOMAIN b.labels,
            labels |-> [n \in DOMAIN b.labels \cup {i.labels[k] : k \in DOMAIN i.labels} |->
              IF n \in DOMAIN b.labels THEN b.labels[n]
              ELSE Lab(g.id, Len(g.labels) + CHOOSE k \in DOMAIN i.labels : i.labels[k] = n)]]
      B[n \in 0..Len(code)] ==
        IF n = 0 THEN [f |-> CreateBlock(f), at |-> <<>>, has |-> FALSE, term |-> FALSE, ok |-> TRUE, labels |-> labels]
        ELSE Step(B[n - 1], code[n])
  IN B[Len(code)]
BuildRegisters(f, locals) ==
  LET Add(r, x) == IF r.v = 0 THEN r ELSE AddRegister(r.m, x.type, x.n, x.hw, FALSE)
      R[n \in 0..Len(locals)] == IF n = 0 THEN Done(f, 1) ELSE Add(R[n - 1], locals[n])
  IN R[Len(locals)]
Built(p, k, b, code) ==
  [p EXCEPT !.m.fns[k] = b.f, !.labels = b.labels, !.ok = b.ok, !.bodies = Append(@, [f |-> k, at |-> b.at, code |-> code])]
WithRegisters(p, k, regs, s) ==
  IF regs.v = 0 THEN Stop(p) ELSE Built(p, k, BuildBlocks(regs.m, p.labels, s.code), s.code)
WithFunction(p, r, s) ==
  IF r.v = 0 THEN Stop(p) ELSE WithRegisters([p EXCEPT !.m = r.m], r.v, BuildRegisters(r.m.fns[r.v], s.locals), s)
BuildFunction(p, s) == WithFunction(p, CreateFunction(p.m, s.n, s.sig, s.args), s)
BuildRecord(p, s) ==
  IF ~p.ok THEN p ELSE
  CASE s.st = "func" -> BuildFunction(p, s)
    [] s.st = "proto" -> Into(p, Prototype(p.m, s.n, s.sig))
    [] s.st = "import" -> Into(p, Import(p.m, s.n, <<>>))
    [] s.st = "forward" -> Into(p, Forward(p.m, s.n))
    [] s.st = "export" -> Into(p, ExportSymbol(p.m, Find(p.m, s.n)))
    [] s.st = "data" -> Declared(p, s, DeclareData(p.m, s.n))

BuildOperand(p, f, t) ==
  LET reg(n) == IF n = NoName THEN 0 ELSE f.names[n]
      block == t.type \in {"blk", "rblk"}
  IN CASE t.t = "lit" -> t.v
       [] t.t = "reg" -> Reg(f.id, f.names[t.n])
       [] t.t = "name" -> Sym(p.m.id, Find(p.m, t.n), 0)
       [] t.t = "lab" -> p.labels[t.n]
       [] t.t = "mem" -> Mem([k |-> t.type, n |-> IF block THEN t.d ELSE 0], reg(t.base), reg(t.index), IF block THEN 0 ELSE t.d)
Known(p, f, t) ==
  CASE t.t = "lit" -> TRUE
    [] t.t = "reg" -> t.n \in DOMAIN f.names
    [] t.t = "name" -> Find(p.m, t.n) # 0
    [] t.t = "lab" -> t.n \in DOMAIN p.labels
    [] t.t = "mem" -> {t.base, t.index} \subseteq DOMAIN f.names \cup {NoName}
BuildBody(p, b) ==
  LET Step(q, n) ==
        LET f == q.m.fns[b.f]
            s == b.code[n]
        IN IF q.ok /\ \A a \in DOMAIN s.args : Known(q, f, s.args[a])
           THEN Into(q, Emit(q.m, b.f, b.at[n], Instr(s.op, [a \in DOMAIN s.args |-> BuildOperand(q, f, s.args[a])])))
           ELSE Stop(q)
      I[n \in 0..Len(b.code)] == IF n = 0 THEN p ELSE Step(I[n - 1], n)
  IN I[Len(b.code)]
BuildInitializer(p, s) ==
  LET b == s.body IN
  CASE s.kind = "init" -> [k |-> "init", type |-> b.type, vals |-> b.vals]
    [] s.kind = "zero" -> [k |-> "zero", n |-> b.size]
    [] s.kind = "ref" -> [k |-> "ref", m |-> p.m.id, s |-> Find(p.m, b.to), d |-> b.d]
    [] s.kind = "lref" -> [k |-> "lref", f |-> p.labels[b.to].f, l |-> p.labels[b.to].l,
                           b |-> IF b.base = -1 THEN 0 ELSE p.labels[b.base].l, d |-> b.d]
    [] s.kind = "expr" -> [k |-> "expr", f |-> p.m.fns[p.m.syms[Find(p.m, b.to)].fn].id]

\* Reader::build: reserve every name, publish the records in order, then the
\* instructions, then the data.
ReserveName(p, name) == IF p.ok /\ name # NoName THEN Into(p, ReserveSymbol(p.m, name)) ELSE p
BuildDatum(p, d) == IF ~p.ok THEN p ELSE Into(p, DefineData(p.m, d.sym, BuildInitializer(p, d.s), TRUE))
BuildBodies(p) ==
  LET B[n \in 0..Len(p.bodies)] == IF n = 0 THEN p ELSE BuildBody(B[n - 1], p.bodies[n]) IN B[Len(p.bodies)]
BuildData(p) ==
  LET D[n \in 0..Len(p.data)] == IF n = 0 THEN p ELSE BuildDatum(D[n - 1], p.data[n]) IN D[Len(p.data)]
BuildModule(m, records) ==
  LET S[n \in 0..Len(records)] == IF n = 0 THEN Start(m) ELSE ReserveName(S[n - 1], records[n].n)
      R[n \in 0..Len(records)] == IF n = 0 THEN S[Len(records)] ELSE BuildRecord(R[n - 1], records[n])
  IN BuildData(BuildBodies(R[Len(records)]))

\* Reader::run: modules until the end of the file.
RECURSIVE ReadModules(_, _, _), ReadNext(_, _, _, _), ContinueReading(_, _, _, _)
ReadModules(w, at, p) ==
  IF w.body[at].tag = "EOF" THEN [ok |-> at = Len(w.body), p |-> p]
  ELSE ReadNext(w, at, p, ParseRecords(w, at + 2, <<>>, <<>>))
ReadNext(w, at, p, records) ==
  ContinueReading(w, records.at, p, BuildModule(NewModule(Len(p) + 1, Spelled(w, w.body[at + 1])), records.v))
ContinueReading(w, at, p, r) == IF r.ok THEN ReadModules(w, at, Append(p, r.m)) ELSE [ok |-> FALSE, p |-> p]
ReadBinary(w) == ReadModules(w, 1, <<>>)
=============================================================================
