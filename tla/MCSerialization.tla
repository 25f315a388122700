--------------------------- MODULE MCSerialization ---------------------------
(* Programs of one or two modules over two names, two free calls each. *)
EXTENDS Serialization

A == <<"a", 0>>
B == <<"b", 0>>
L == <<".literal", 0>>
Void == [results |-> <<>>, params |-> <<>>, variadic |-> FALSE]
Value == [results |-> <<Ty("bool")>>, params |-> <<>>, variadic |-> FALSE]
Takes == [results |-> <<>>, params |-> <<Block(2)>>, variadic |-> FALSE]
Bad == [results |-> <<Block(2)>>, params |-> <<>>, variadic |-> FALSE]

Fn(n, sig, body) == [op |-> "function", n |-> n, sig |-> sig, body |-> body]
Proto(n, sig) == [op |-> "proto", n |-> n, sig |-> sig]
Imp(n, sig) == [op |-> "import", n |-> n, sig |-> sig]
Data(n, init) == [op |-> "data", n |-> n, init |-> init, w |-> TRUE]
Exp(n) == [op |-> "export", n |-> n]
Fwd(n) == [op |-> "forward", n |-> n]
Z == [k |-> "zero", n |-> 4]

MCNames == {A, B}
MCSignatures == {Void, Value, Takes, Bad}
MCFunctions == {<<Void, t>> : t \in {"ret", "loop", "call", "block", "jump", "tail", "both", "past"}} \cup {<<Value, "value">>, <<Takes, "call">>, <<Bad, "ret">>}
MCScripts ==
  {<<<<>>>>,
   <<<<Fn(A, Void, "loop"), Data(NoName, Z)>>>>,
   <<<<Proto(A, Takes), Fn(B, Void, "block")>>>>,
   <<<<Data(NoName, Z), Fn(A, Value, "value"), Data(NoName, [k |-> "expr", f |-> <<1, 1>>])>>>>,
   <<<<Fn(A, Void, "jump"), Fn(B, Void, "tail")>>>>,
   <<<<Data(L, Z), Fn(A, Takes, "tail")>>>>,
   <<<<Imp(A, <<>>)>>, <<Fn(A, Void, "jump"), Exp(A)>>>>,
   <<<<Imp(A, Some(Void))>>, <<Fn(A, Void, "ret"), Exp(A)>>>>,
   <<<<Imp(A, <<>>), Data(NoName, Z)>>, <<Data(A, Z), Exp(A)>>>>,
   <<<<Data(A, Z), Exp(A), Fn(B, Void, "past")>>>>,
   <<<<Imp(A, <<>>), Fn(B, Void, "past")>>, <<Fn(A, Value, "value"), Exp(A)>>>>,
   <<<<Fwd(A), Fn(B, Void, "call")>>, <<Imp(A, <<>>)>>>>}
MCUnspellable == {NoName}
=============================================================================
