----------------------------- MODULE MCIREditing -----------------------------
(***************************************************************************)
(* Instance: a diamond, a loop, a body with an indirect jump, and one that *)
(* is just being made.                                                     *)
(***************************************************************************)
EXTENDS IREditing

Symmetry == Permutations(Batches)

MCTemplates == {Insn("mov", "r1", "r2", <<>>), Insn("ret", NoReg, NoReg, <<>>)}

N(x) == [a |-> x, g |-> x]

I(x, op, d, u, l) == WithNode(Insn(op, d, u, l), N(x))

B(x, labels, ins) == [n |-> N(x), labels |-> labels, ins |-> ins, scope |-> 0]

Body(blocks, count) == [EmptyFunction EXCEPT !.blocks = blocks, !.regs = {"r1", "r2"}, !.gen = count]

Diamond ==
    Body(<<B(1, <<>>, <<I(2, "bt", NoReg, "r1", <<N(6)>>)>>),
           B(3, <<>>, <<I(4, "mov", "r1", "r2", <<>>)>>),
           B(5, <<N(6), N(7)>>, <<I(8, "ret", NoReg, "r1", <<>>)>>)>>, 8)

Loop ==
    Body(<<B(1, <<N(2)>>, <<I(3, "mov", "r2", "r1", <<>>), I(4, "bt", NoReg, "r2", <<N(2)>>)>>),
           B(5, <<>>, <<>>),
           B(6, <<>>, <<I(7, "jmp", NoReg, NoReg, <<N(2)>>)>>)>>, 7)

Indirect ==
    Body(<<B(1, <<>>, <<I(2, "laddr", "r1", NoReg, <<N(5)>>), I(3, "jmpi", NoReg, "r1", <<>>)>>),
           B(4, <<N(5)>>, <<I(6, "ret", NoReg, "r2", <<>>)>>)>>, 6)

Small ==
    [Body(<<B(1, <<N(2)>>, <<I(3, "mov", "r1", "r1", <<>>)>>), B(4, <<>>, <<I(5, "ret", NoReg, NoReg, <<>>)>>)>>, 5)
       EXCEPT !.regs = {"r1"}]

Start(f, edits, asks, holds, opens) ==
    [f |-> f, making |-> f = EmptyFunction, edits |-> edits, asks |-> asks, holds |-> holds, opens |-> opens]

MCStarts == {Start(Diamond, 1, 2, 0, 1), Start(Loop, 1, 2, 0, 1), Start(Indirect, 1, 2, 0, 1),
             Start(Small, 2, 0, 1, 1), Start(Small, 2, 0, 0, 2), Start(EmptyFunction, 3, 0, 0, 0)}
=============================================================================
