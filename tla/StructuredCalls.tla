--------------------------- MODULE StructuredCalls ---------------------------
(***************************************************************************)
(* What C++ code on a thread may rely on while native code, interpreter    *)
(* and host functions call each other: its activations end one at a time,  *)
(* innermost first, whatever fails.  Native frames do not appear here;     *)
(* recovery may drop them, but never a C++ activation above the one that   *)
(* is returned to.                                                         *)
(***************************************************************************)
EXTENDS Integers, Sequences

CONSTANT Kinds    \* kinds of C++ activations

VARIABLE active   \* the C++ activations of the thread, outermost first

Init == active = <<"host">>

\* A call starts one or several nested activations.
Call ==
  /\ Len(active') > Len(active)
  /\ SubSeq(active', 1, Len(active)) = active
  /\ \A i \in DOMAIN active' : active'[i] \in Kinds

\* The innermost activation ends; the thread's own host code never does.
Return ==
  /\ Len(active) > 1
  /\ active' = SubSeq(active, 1, Len(active) - 1)

Next == Call \/ Return

Spec == Init /\ [][Next]_active
=============================================================================
