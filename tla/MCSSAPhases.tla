----------------------------- MODULE MCSSAPhases -----------------------------
(* Instances of SSAPhases: loops, joins and jumps small enough to try all. *)
EXTENDS SSAPhases

Named == {"a", "n", "t", "x", "y", "h"}
MCRegisters == Named \cup {"v1", "v2", "v3", "v4", "v5", "v6", "v7", "v8", "v9", "v10", "v11", "v12", "v13", "v14",
                           "v15", "v16", "v17", "v18", "v19", "v20"}
MCArguments == {[a |-> p, n |-> q, t |-> 0] : p \in {1, 3}, q \in {0, 2}}
MCTemplates == {Insn("mov", "x", "a", <<>>), Insn("mov", "x", NoReg, <<>>)}

AllPasses == {"build-cfg", "build-ssa", "copy-propagation", "ssa-dce", "licm", "pressure-relief",
              "conventional-ssa", "destroy-ssa", "jump-opt"}

(* A block is <<has a label, instructions>>; a label is the number of its  *)
(* block.                                                                  *)
N(k) == [a |-> k, g |-> k]
Place(t, n) == WithNode([t EXCEPT !.l = [j \in DOMAIN @ |-> N(10 * @[j] + 1)]], n)
Source(blocks, regs) ==
    [EmptyFunction EXCEPT
       !.blocks = [b \in DOMAIN blocks |->
                     [n |-> N(10 * b), labels |-> IF blocks[b][1] THEN <<N(10 * b + 1)>> ELSE <<>>, scope |-> 0,
                      ins |-> [k \in DOMAIN blocks[b][2] |-> Place(blocks[b][2][k], N(10 * b + 1 + k))]]],
       !.regs = regs, !.gen = 100]

Mov(d, u) == Insn("mov", d, u, <<>>)
Lit(d) == Insn("mov", d, NoReg, <<>>)
Two(op, d, u, w) == Insn2(op, d, u, w, <<>>)
Ret(u) == Insn("ret", NoReg, u, <<>>)

(* A loop that counts t down and does two more things.                     *)
Work == {Mov("y", "t"), Mov("a", "n"), Mov("n", "y"), Two("add", "a", "a", "x"), Two("mul", "y", "n", "n"),
         Insn("twice", "y", "a", <<>>), Insn("ext", "y", "y", <<>>), Insn("call", NoReg, "a", <<>>)}
Loop(i, j, test, result) ==
    Source(<< <<FALSE, <<Mov("t", "n"), Lit("x"), Mov("y", "a")>> >>,
              <<TRUE, <<i, j, Two("sub", "t", "t", "x"), Insn("bt", NoReg, test, <<2>>)>> >>,
              <<FALSE, <<Ret(result)>> >> >>, Named \ {"h"})

(* Two ways to the same place, one of them over a jump to a jump.          *)
Join(i, j) ==
    Source(<< <<FALSE, <<Lit("x"), Mov("y", "a"), Insn("ext", "t", "a", <<>>), Insn("bt", NoReg, "t", <<4>>)>> >>,
              <<FALSE, <<i, Insn("jmp", NoReg, NoReg, <<3>>)>> >>,
              <<TRUE, <<Insn("jmp", NoReg, NoReg, <<5>>)>> >>,
              <<TRUE, <<j>> >>,
              <<TRUE, <<Mov("h", "y"), Ret("a")>> >> >>, Named)

(* The flags of an addition decide. *)
Overflow ==
    Source(<< <<FALSE, <<Two("addo", "y", "a", "n"), Insn("bo", NoReg, NoReg, <<3>>)>> >>,
              <<FALSE, <<Mov("a", "n")>> >>,
              <<TRUE, <<Ret("a")>> >> >>, Named \ {"x", "h"})

(* A loop that may be left out. *)
Guarded(i) ==
    Source(<< <<FALSE, <<Insn("bt", NoReg, "n", <<3>>)>> >>,
              <<TRUE, <<i, Two("sub", "t", "t", "a"), Insn("bt", NoReg, "t", <<2>>)>> >>,
              <<TRUE, <<Ret("n")>> >> >>, {"a", "n", "t"})

(* Blocks to prepare: two labels in one place, a branch to the next block, *)
(* an empty block, jumps in a ring, blocks nobody reaches, and an entry    *)
(* others jump to.                                                         *)
Untidy ==
    [Source(<< <<TRUE, <<Insn("bt", NoReg, "a", <<2>>)>> >>,
               <<TRUE, <<Two("sub", "n", "n", "a"), Insn("bt", NoReg, "n", <<3>>)>> >>,
               <<TRUE, <<>> >>,
               <<FALSE, <<Insn("bt", NoReg, "n", <<1>>)>> >>,
               <<FALSE, <<Insn("bt", NoReg, "t", <<7>>)>> >>,
               <<TRUE, <<Ret("n")>> >>,
               <<TRUE, <<Insn("jmp", NoReg, NoReg, <<8>>)>> >>,
               <<TRUE, <<Insn("jmp", NoReg, NoReg, <<7>>)>> >>,
               <<TRUE, <<Insn("jmp", NoReg, NoReg, <<6>>)>> >>,
               <<FALSE, <<Ret("n")>> >> >>, {"a", "n", "t"})
       EXCEPT !.blocks[6].labels = <<N(61), N(62)>>]

(* What clients write to by hand. *)
Plain == Source(<< <<FALSE, <<Ret("a")>> >> >>, {"a"})
Bound == Source(<< <<FALSE, <<Ret(NoReg)>> >> >>, {"h"})
Tiny == Source(<< <<FALSE, <<Mov("x", "a"), Ret("x")>> >> >>, {"a", "x"})
Triangle ==
    Source(<< <<FALSE, <<Insn("bt", NoReg, "a", <<3>>)>> >>,
              <<FALSE, <<Insn("load", "x", "a", <<>>)>> >>,
              <<TRUE, <<Ret("x")>> >> >>, {"a", "x"})

(* An address of a value that has left its first register already, and one *)
(* of a value that can be sent away twice.                                 *)
Addressed == Source(<< <<FALSE, <<Lit("x"), Insn("addr", "y", "x", <<>>), Ret("y")>> >> >>, {"x", "y"})
TwoNames ==
    Source(<< <<FALSE, <<Lit("x"), Mov("x", "x"), Insn("addr", "y", "x", <<>>), Ret("y")>> >> >>, {"x", "y"})

(* A register that lives in memory, and one whose address is taken.        *)
InMemory ==
    [Source(<< <<FALSE, <<Lit("x"), Mov("t", "n"), Insn("addr", "y", "t", <<>>), Insn("bt", NoReg, "a", <<2>>)>> >>,
               <<TRUE, <<Mov("n", "x"), Insn("twice", "n", "n", <<>>), Ret("n")>> >> >>, {"a", "n", "t", "x", "y"})
       EXCEPT !.backed = {"x"}]

(* A jump through the address of a label. *)
Labelled ==
    Source(<< <<FALSE, <<Insn("laddr", "y", NoReg, <<2>>), Insn("call", NoReg, "y", <<>>)>> >>,
              <<TRUE, <<Ret("a")>> >> >>, {"a", "y"})

Phases == {"build-ssa", "conventional-ssa", "destroy-ssa"}
Run(f, passes, edits) == [f |-> f, passes |-> passes, edits |-> edits]

MCStarts ==
    {Run(Loop(i, j, "t", "y"), AllPasses, 0) : i \in Work, j \in Work}
    \cup {Run(Join(i, j), AllPasses, 0) : i \in {Mov("a", "n"), Two("mul", "y", "n", "n")}, j \in Work}
    \cup {Run(Guarded(i), AllPasses, 0) : i \in {Two("mul", "n", "a", "a"), Mov("n", "a")}}
    \cup {Run(Overflow, AllPasses, 0), Run(Untidy, Phases \cup {"build-cfg", "jump-opt"}, 0)}
    \cup {Run(Addressed, {"build-ssa"}, 2), Run(TwoNames, Phases, 1)}
    \cup {Run(InMemory, AllPasses, 0), Run(Labelled, AllPasses, 0)}
    \cup {Run(Plain, {}, 4), Run(Bound, {}, 3), Run(Tiny, {}, 3)}
    \cup {Run(Triangle, {"build-ssa"}, 2), Run(Triangle, Phases, 1)}

(* A loop that counts its turns in a and tests what t was before this one. *)
MCCopied == {Run(Loop(Two("add", "a", "a", "x"), Mov("y", "t"), "y", "a"),
                 {"build-ssa", "copy-propagation", "conventional-ssa", "destroy-ssa"}, 0)}
=============================================================================
