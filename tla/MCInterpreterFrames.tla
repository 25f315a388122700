------------------------ MODULE MCInterpreterFrames ------------------------
(* Two programs.  One for the stack: allocations of half a segment, and     *)
(* one that needs a segment of its own, in memory for three segments.  One  *)
(* for variadic functions and budgets, three frames deep.                   *)
EXTENDS InterpreterFrames

Stacking == [memory |-> {0, 8, 16}, sizes |-> {0, 1, 5}, arguments |-> {-1, 1}, unnamed |-> {-1},
             callers |-> {"interpreted"}, instructions |-> 8, depth |-> 2]
Variadic == [memory |-> {}, sizes |-> {}, arguments |-> {-1}, unnamed |-> {-1, 0, 1},
             callers |-> {"interpreted", "native"}, instructions |-> 5, depth |-> 3]
MCPrograms == {Stacking, Variadic}
=============================================================================
