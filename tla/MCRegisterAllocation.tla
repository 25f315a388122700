------------------------- MODULE MCRegisterAllocation -------------------------
(***************************************************************************)
(* Register 0 is caller-saved, 1 is kept by calls and bound to B, 7 is     *)
(* destroyed by calls and bound to K; 2 and 3 are the temporaries.         *)
(* Register 4 takes the sixteen-byte W and is only half kept by calls, 5   *)
(* and 6 are its temporaries.  M lives in memory.  Frame offsets from two  *)
(* units on are far.                                                       *)
(*                                                                         *)
(* Three sets of functions.  In the first an instruction asks for          *)
(* everything the allocation can do, or copies bound values, three groups  *)
(* of instructions in a row.  In the second X and Y compete for register   *)
(* 0: X is written in the first block and read in the last, and the        *)
(* blocks between read X, work on Y, call, or do nothing, on seven         *)
(* families of control flow.  The third has every small control flow and   *)
(* no values.                                                              *)
(***************************************************************************)
EXTENDS RegisterAllocation

X == 8
Y == 9
W == 10
M == 11
B == 12
K == 13

Bindings == (B :> 1 @@ K :> 7)
NarrowPair == <<2, 3>>
WidePair == <<5, 6>>

Op(out, in) == Insn("op", out, in)
Mov(to, from) == Insn("mov", <<to>>, <<from>>)
Call(in) == Insn("call", <<>>, in)
Indexed(i) == [i EXCEPT !.mem = <<X, Y>>]

\* K is mentioned in every block with a call, and no call reads it.
Groups == {
    <<Op(<<X>>, <<>>)>>,
    <<Op(<<Y>>, <<X, Y>>)>>,
    <<Op(<<W>>, <<W>>)>>,
    <<Mov(X, Y)>>,
    <<Mov(Y, X), Op(<<X>>, <<Y, B>>)>>,
    <<Op(<<Y>>, <<X, K>>), Call(<<X>>)>>,
    <<Call(<<X>>), Op(<<>>, <<K>>)>>,
    <<Call(<<>>), Op(<<K>>, <<Y>>), Call(<<Y>>)>>,
    <<Mov(0, X), [Insn("call", <<0>>, <<>>) EXCEPT !.args = {0}], Mov(Y, 0), Mov(K, 0)>>,
    <<Indexed(Op(<<X>>, <<>>))>>,
    <<Indexed(Insn("store", <<>>, <<M>>))>>,
    <<[Op(<<Y>>, <<Y, X>>) EXCEPT !.folds = TRUE]>>,
    <<Insn("addr", <<X>>, <<M>>), Op(<<M>>, <<>>)>>,
    <<[Op(<<0>>, <<X>>) EXCEPT !.early = {0}], Mov(Y, 0)>> }

\* Copies of bound values, for functions without calls.
Copies == {
    <<Mov(B, X)>>,
    <<Mov(Y, B)>>,
    <<Mov(B, K)>>,
    <<Mov(K, Y), Mov(X, Y)>>,
    <<Op(<<K>>, <<>>), Op(<<>>, <<K>>), Mov(Y, X), Mov(K, Y)>> }

Prologue == <<Op(<<X>>, <<>>), Op(<<Y>>, <<>>), Op(<<W>>, <<>>), Op(<<M>>, <<>>),
              Op(<<B>>, <<>>), Op(<<K>>, <<>>)>>
Epilogue == <<Op(<<>>, <<X, Y>>), Op(<<>>, <<W, B>>), Op(<<>>, <<K>>), Insn("ret", <<>>, <<>>)>>
Again == [Insn("branch", <<>>, <<>>) EXCEPT !.to = <<3>>]

\* The groups that ask for certain registers or for memory.
LastGroups == {g \in Groups : \E k \in DOMAIN g : g[k].op \in {"call", "addr"} \/ g[k].early # {}}
CallFree == {g \in Groups : \A k \in DOMAIN g : g[k].op # "call"}

\* Three groups, the second in a loop.
InLoop(a, b, c) ==
    [body |-> (2 :> Prologue \o a @@ 3 :> Append(b, Again) @@ 4 :> c \o Epilogue),
     labelled |-> {3}, addressed |-> {}]

Looped ==
    {InLoop(a, b, c) : a \in Groups, b \in Groups, c \in LastGroups}
    \cup {InLoop(a, b, c) : a \in Copies \cup CallFree, b \in Copies, c \in Copies}

-----------------------------------------------------------------------------
Write(v) == Insn("op", <<v>>, <<>>)
Read(v) == Insn("op", <<>>, <<v, v>>)
Branch(b, on) == [Insn("branch", <<>>, on) EXCEPT !.to = <<b>>]
Jmp(b) == [Insn("jmp", <<>>, <<>>) EXCEPT !.to = <<b>>]
Ret == Insn("ret", <<>>, <<>>)
Calling == <<Op(<<>>, <<K>>), Call(<<>>)>>

Function(bodies, labelled) ==
    [body |-> [b \in 2 .. Len(bodies) + 1 |-> bodies[b - 1]],
     labelled |-> labelled, addressed |-> {}]

First == {<<Write(X)>>, <<Write(X), Write(Y)>>}
Middle == {<<>>, <<Read(X)>>, <<Write(Y), Read(Y), Read(Y)>>, <<Read(Y)>> \o Calling, <<Write(X)>> \o Calling}
LastBody == {<<Read(X), Read(X), Ret>>, Calling \o <<Read(X), Ret>>, <<Read(Y), Ret>>}

Straight == {Function(<<a, m, n, z>>, {}) : a \in First, m \in Middle, n \in Middle, z \in LastBody}
Forks == {Function(<<Append(a, Branch(4, <<>>)), Append(m, Jmp(5)), n, z>>, {4, 5}) :
            a \in First, m \in Middle, n \in Middle, z \in LastBody}
Loops(on) == {Function(<<a, m, Append(n, Branch(3, on)), z>>, {3}) :
                a \in First, m \in Middle, n \in Middle, z \in LastBody}
Skips(on) == {Function(<<a, Append(m, Branch(5, on)), n, z>>, {5}) :
                a \in First, m \in Middle, n \in Middle, z \in LastBody}
Crossing(on) == {Function(<<a, Append(m, Branch(5, on)), Append(n, Branch(3, on)), z>>, {3, 5}) :
                a \in First, m \in Middle, n \in Middle, z \in LastBody}

\* X and Y change places between two blocks.
Often(v) == <<Read(v), Read(v), Read(v), Read(v)>>
Swaps == {Function(<<<<Write(X)>> \o a, <<Write(Y)>> \o m, Often(X), Append(z, Ret)>>, {}) :
            a \in {<<>>, Often(X)}, m \in {<<>>, Often(Y)}, z \in {Often(Y), Calling \o Often(Y)}}

Shapes ==
    Swaps \cup
    Straight \cup Forks \cup Loops(<<X>>) \cup Skips(<<Y>>) \cup Crossing(<<>>) \cup Crossing(<<X>>)

-----------------------------------------------------------------------------
\* All functions of up to three blocks in which a block ends in no jump, a jump,
\* a conditional branch, a return or an indirect jump to the last block; and all
\* those of four blocks without the unconditional and the indirect jumps whose
\* last block returns or branches to the second or third.
JumpTo(op, b) == <<[Insn(op, <<>>, <<>>) EXCEPT !.to = <<b>>]>>

Conditional(n) == {<<>>, <<Ret>>} \cup {JumpTo("branch", b) : b \in 2 .. n + 1}

Terminators(n) ==
    Conditional(n) \cup {<<Insn("jmpi", <<>>, <<>>)>>} \cup {JumpTo("jmp", b) : b \in 2 .. n + 1}

Graphs ==
    UNION {[body : [2 .. n + 1 -> Terminators(n)], labelled : {2 .. n + 1}, addressed : {{n + 1}}] : n \in 1 .. 3}
    \cup [body : {[b \in 2 .. 5 |-> IF b = 5 THEN z ELSE t[b]] :
                    t \in [2 .. 4 -> Conditional(4)], z \in {<<Ret>>} \cup {JumpTo("branch", b) : b \in 3 .. 4}},
          labelled : {2 .. 5}, addressed : {{}}]

MCCompilations ==
    (Shapes \cup Looped \cup Graphs) \X {2}
    \cup (Swaps \cup Loops(<<X>>) \cup Skips(<<Y>>)) \X {0, 1}

\* A copy of a bound value that a call changes.
CopyOfBound ==
    {Function(<<<<Op(<<B>>, <<>>), Mov(X, B), Call(<<>>), Op(<<>>, <<X, B>>), Op(<<>>, <<B, K>>), Ret>>>>, {})} \X {2}
=============================================================================
