---------------------------- MODULE LazyLinkage ----------------------------
(***************************************************************************)
(* What a lazy compiler promises to the code that calls through its gates  *)
(* (BBVRuntime for blocks, LoadedProgram::compile_native for functions):   *)
(* a unit is linked at most once and for good, a call that succeeds finds  *)
(* its unit linked, a call that fails leaves every link as it was, and a   *)
(* unit is never compiled by two activations at a time.                    *)
(***************************************************************************)
CONSTANTS Units, None

VARIABLES linked,   \* units whose gate leads to published code
          busy,     \* units being compiled, outermost first
          answer    \* the last call that returned: its unit and its result

vars == <<linked, busy, answer>>

NoAnswer == [unit |-> None, ok |-> FALSE]

Init ==
  /\ linked = {}
  /\ busy = {}
  /\ answer = NoAnswer

Begin(u) ==
  /\ u \notin linked \cup busy
  /\ busy' = busy \cup {u}
  /\ UNCHANGED <<linked, answer>>

Finish(u) ==
  /\ u \in busy
  /\ busy' = busy \ {u}
  /\ linked' = linked \cup {u}
  /\ answer' = [unit |-> u, ok |-> TRUE]

Fail(u) ==
  /\ u \in busy
  /\ busy' = busy \ {u}
  /\ answer' = [unit |-> u, ok |-> FALSE]
  /\ UNCHANGED linked

\* A call on a unit already linked, or on one that is being compiled further
\* out, returns at once.
Reuse(u) ==
  /\ u \in linked
  /\ answer' = [unit |-> u, ok |-> TRUE]
  /\ UNCHANGED <<linked, busy>>

Refuse(u) ==
  /\ u \in busy
  /\ answer' = [unit |-> u, ok |-> FALSE]
  /\ UNCHANGED <<linked, busy>>

Next == \E u \in Units : Begin(u) \/ Finish(u) \/ Fail(u) \/ Reuse(u) \/ Refuse(u)

Spec == Init /\ [][Next]_vars
=============================================================================
