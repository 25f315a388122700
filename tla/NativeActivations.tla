------------------------- MODULE NativeActivations -------------------------
(***************************************************************************)
(* Calls between host code, native code and the interpreter on one thread, *)
(* and recovery from errors in native code: Recovery.cpp,                  *)
(* NativeBoundary.cpp, NativeCalls::call, dispatch of                      *)
(* InterpreterEntries.cpp and InterpreterInvocation of Interpreter.cpp.    *)
(*                                                                         *)
(* stack is the machine's control stack.  The thread-local pointers of the *)
(* code are variables of their own, changed only by the saves and restores *)
(* the code makes; a pointer to an object on the control stack is its      *)
(* position there, and 0 is null.                                          *)
(***************************************************************************)
EXTENDS Integers, Sequences, FiniteSets

CONSTANTS Programs,      \* loaded programs used on the thread
          Native,        \* those with native functions
          Interpreting,  \* those with interpreted functions
          Boundary,      \* those with a native_boundary (mixed, or with block versions)
          Limit,         \* call_depth_limit, as large as the interpreter's stack allows
          MaxStack,      \* bound: control stack
          MaxErrors      \* bound: errors reported

ASSUME ProgramAssumption ==
  /\ Native \cup Interpreting = Programs
  /\ Native \cap Interpreting \subseteq Boundary
  /\ Boundary \subseteq Native
  /\ Limit \in Nat \ {0}
  /\ MaxStack \in Nat \ {0}
  /\ MaxErrors \in Nat

Null == <<"null", 0>>

VARIABLES
  stack,       \* activations, innermost last
  current,     \* current_state: the innermost checkpoint
  raw_frames,  \* RawFrames::frames, cached for the life of the thread
  raw_depth,   \* RawFrames::depth
  scope,       \* the innermost ExecutionInvocation
  activation,  \* InvocationActivation::current_
  errors       \* errors raised so far; each has its number

vars == <<stack, current, raw_frames, raw_depth, scope, activation, errors>>

\* kind: "host" code, a "native" body, the return slot of a boundary ("raw"), an
\* "invoke" (NativeRecovery::invoke), a "scope" (a native call without recovery)
\* or an "interp" (InterpreterInvocation::invoke).
\* checkpoint, outer, previous: the pointers the activation saved.
\* error, seen: the first error of a scope, and all errors raised under it.
\* invocation, depth: the InterpreterInvocation used and, where it lives, its depth.
\* role: what an interp runs.  reports: its caller is dispatch.  failing: the error
\* it is about to return, or 0.
Activation ==
  [kind : {"host", "native", "raw", "invoke", "scope", "interp"},
   program : Programs \cup {"none"},
   checkpoint : {"null", "invoke", "raw"} \X Nat,
   outer : Nat, error : Nat, seen : SUBSET Nat,
   previous : Nat, invocation : Nat, depth : Nat,
   role : {"none", "body", "host", "native"},
   reports : BOOLEAN, failing : Nat]

Plain(kind, p) ==
  [kind |-> kind, program |-> p, checkpoint |-> Null, outer |-> 0, error |-> 0, seen |-> {},
   previous |-> 0, invocation |-> 0, depth |-> 0, role |-> "none", reports |-> FALSE,
   failing |-> 0]

Sp == Len(stack)
Top == stack[Sp]
Room(n) == Sp + n <= MaxStack

TypeOK ==
  /\ \A i \in DOMAIN stack : stack[i] \in Activation
  /\ Len(stack) \in 1..MaxStack
  /\ current \in {Null} \cup ({"invoke"} \X (1..Len(stack)))
                       \cup ({"raw"} \X (1..Len(raw_frames)))
  /\ \A i \in DOMAIN raw_frames :
       /\ raw_frames[i].sp \in 1..MaxStack
       /\ raw_frames[i].previous \in {"null", "invoke", "raw"} \X (0..MaxStack)
  /\ raw_depth \in 0..Len(raw_frames)
  /\ scope \in 0..Len(stack)
  /\ activation \in 0..Len(stack)
  /\ errors \in 0..MaxErrors

Init ==
  /\ stack = <<Plain("host", "none")>>
  /\ current = Null
  /\ raw_frames = <<>>
  /\ raw_depth = 0
  /\ scope = 0
  /\ activation = 0
  /\ errors = 0

-----------------------------------------------------------------------------
(* Errors.                                                                 *)

\* The innermost scope on the control stack, which is what scope should be.
InnermostScope(s) ==
  LET scopes == {i \in DOMAIN s : s[i].kind \in {"invoke", "scope"}}
  IN  IF scopes = {} THEN 0 ELSE CHOOSE i \in scopes : \A j \in scopes : j <= i

\* Faulty form: a later error replaces the first.
ReportedLast(s, error) ==
  [i \in DOMAIN s |->
     [s[i] EXCEPT !.error = IF i = scope THEN error ELSE @,
                  !.seen = IF i = InnermostScope(s) THEN @ \cup {error} ELSE @]]

\* report_execution_error: the first error of the innermost ExecutionInvocation is
\* kept, one without a scope is dropped.  seen records the error where it arose.
Reported(s, error) ==
  [i \in DOMAIN s |->
     [s[i] EXCEPT !.error = IF i = scope /\ @ = 0 THEN error ELSE @,
                  !.seen = IF i = InnermostScope(s) THEN @ \cup {error} ELSE @]]

-----------------------------------------------------------------------------
(* Checked calls into native code: NativeCalls::call, scalar_call.         *)

\* The frames of a checked call to native code of p on top of s: the objects on
\* the C++ stack and the generated adapter they call.
Checked(p, s) ==
  s \o <<[Plain(IF p \in Boundary THEN "invoke" ELSE "scope", p)
            EXCEPT !.checkpoint = current, !.outer = scope],
         Plain("native", p)>>

EnterChecked(p, s) ==
  /\ stack' = Checked(p, s)
  /\ current' = IF p \in Boundary THEN <<"invoke", Len(s) + 1>> ELSE current
  /\ scope' = Len(s) + 1

\* FunctionHandle::call and scalar_call on a native function.
HostCallsNative(p) ==
  /\ Top.kind = "host"
  /\ p \in Native
  /\ Room(2)
  /\ EnterChecked(p, stack)
  /\ UNCHANGED <<raw_frames, raw_depth, activation, errors>>

\* Faulty form: the checkpoint of the finished call stays current.
InvokeReturnsKeeping ==
  /\ Top.kind \in {"invoke", "scope"}
  /\ current' = current
  /\ scope' = Top.outer
  /\ LET rest == SubSeq(stack, 1, Sp - 1)
     IN  stack' = [rest EXCEPT ![Sp - 1].failing =
                     IF rest[Sp - 1].kind = "interp" THEN Top.error ELSE 0]
  /\ UNCHANGED <<raw_frames, raw_depth, activation, errors>>

\* The adapter has returned: status is read, then the destructors run.
InvokeReturns ==
  /\ Top.kind \in {"invoke", "scope"}
  /\ current' = IF Top.kind = "invoke" THEN Top.checkpoint ELSE current
  /\ scope' = Top.outer
  /\ LET rest == SubSeq(stack, 1, Sp - 1)
     IN  stack' = [rest EXCEPT ![Sp - 1].failing =
                     IF rest[Sp - 1].kind = "interp" THEN Top.error ELSE 0]
  /\ UNCHANGED <<raw_frames, raw_depth, activation, errors>>

-----------------------------------------------------------------------------
(* The native boundary.                                                    *)

\* NativeBoundary::enter on top of s: the next cached frame is filled.
RawFramesAfterEnter(s) ==
  LET frame == [sp |-> Len(s) + 1, previous |-> current]
  IN  IF raw_depth = Len(raw_frames)
      THEN Append(raw_frames, frame)
      ELSE [raw_frames EXCEPT ![raw_depth + 1] = frame]

enter(p, s, body) ==
  /\ stack' = s \o <<Plain("raw", p)>> \o body
  /\ raw_frames' = RawFramesAfterEnter(s)
  /\ raw_depth' = raw_depth + 1
  /\ current' = <<"raw", raw_depth + 1>>

\* What leave compares before it restores anything; it returns null otherwise,
\* and the continuation traps.
LeaveMatches == raw_depth > 0 /\ current = <<"raw", raw_depth>>

leave ==
  /\ LeaveMatches
  /\ current' = raw_frames[raw_depth].previous
  /\ raw_depth' = raw_depth - 1

\* Faulty form: host code is given the address behind the gate.
CallsInside(p) ==
  /\ \/ Top.kind = "native" /\ Top.program = p
     \/ Top.kind = "host"
  /\ p \in Native
  /\ Room(2)
  /\ IF p \in Boundary /\ Top.kind = "native"
     THEN enter(p, stack, <<Plain("native", p)>>)
     ELSE /\ stack' = Append(stack, Plain("native", p))
          /\ UNCHANGED <<raw_frames, raw_depth, current>>
  /\ UNCHANGED <<scope, activation, errors>>

\* Native code calls a native function of its program, or host code calls its
\* address: through the gate when the program has a boundary.
CallsAddress(p) ==
  /\ \/ Top.kind = "native" /\ Top.program = p
     \/ Top.kind = "host"
  /\ p \in Native
  /\ Room(2)
  /\ IF p \in Boundary
     THEN enter(p, stack, <<Plain("native", p)>>)
     ELSE /\ stack' = Append(stack, Plain("native", p))
          /\ UNCHANGED <<raw_frames, raw_depth, current>>
  /\ UNCHANGED <<scope, activation, errors>>

NativeReturns ==
  /\ Top.kind = "native"
  /\ IF stack[Sp - 1].kind = "raw"
     THEN leave /\ stack' = SubSeq(stack, 1, Sp - 2)
     ELSE stack' = SubSeq(stack, 1, Sp - 1) /\ UNCHANGED <<current, raw_depth>>
  /\ UNCHANGED <<raw_frames, scope, activation, errors>>

\* A builtin or a lazy resolver reports an error and returns zero results; the
\* native caller goes on.
NativeReports ==
  /\ Top.kind = "native"
  /\ errors < MaxErrors
  /\ errors' = errors + 1
  /\ stack' = Reported(stack, errors + 1)
  /\ UNCHANGED <<current, raw_frames, raw_depth, scope, activation>>

\* Faulty form: recovery goes to the outermost boundary.
LandingOutermost == IF current[1] = "raw" THEN raw_frames[1].sp ELSE current[2]

\* Where the restored stack pointer of the current checkpoint leads.
Landing == IF current[1] = "raw" THEN raw_frames[current[2]].sp ELSE current[2]

\* A block resolver or a jump guard fails: after the report control goes to the
\* recovery address, which restores the current checkpoint and jumps to its
\* return address: into invoke, or to the continuation that calls leave.
Recover ==
  /\ Top.kind = "native"
  /\ Top.program \in Boundary
  /\ current # Null
  /\ errors < MaxErrors
  /\ errors' = errors + 1
  /\ IF current[1] = "raw"
     THEN leave /\ stack' = SubSeq(Reported(stack, errors + 1), 1, Landing - 1)
     ELSE /\ stack' = SubSeq(Reported(stack, errors + 1), 1, Landing)
          /\ UNCHANGED <<current, raw_depth>>
  /\ UNCHANGED <<raw_frames, scope, activation>>

-----------------------------------------------------------------------------
(* Host functions.                                                         *)

NativeCallsHost ==
  /\ Top.kind = "native"
  /\ Room(1)
  /\ stack' = Append(stack, Plain("host", "none"))
  /\ UNCHANGED <<current, raw_frames, raw_depth, scope, activation, errors>>

HostReturns ==
  /\ Top.kind = "host"
  /\ Sp > 1
  /\ stack' = SubSeq(stack, 1, Sp - 1)
  /\ UNCHANGED <<current, raw_frames, raw_depth, scope, activation, errors>>

\* A host function called by the interpreter may return an error.
HostFails ==
  /\ Top.kind = "host"
  /\ Sp > 1
  /\ stack[Sp - 1].kind = "interp"
  /\ errors < MaxErrors
  /\ errors' = errors + 1
  /\ stack' = [SubSeq(stack, 1, Sp - 1) EXCEPT ![Sp - 1].failing = errors + 1]
  /\ UNCHANGED <<current, raw_frames, raw_depth, scope, activation>>

-----------------------------------------------------------------------------
(* The interpreter.                                                        *)

\* InvocationActivation::find: the chain of activations is walked from within.
find(p) ==
  LET at[s \in 0..Sp] ==
        IF s = 0 THEN 0
        ELSE IF stack[s].program = p THEN stack[s].invocation
        ELSE at[stack[s].previous]
  IN  at[activation]

\* The depth of the invocation that a call on program p would use.
DepthOf(p) == IF find(p) = 0 THEN 0 ELSE stack[find(p)].depth

\* The frames of invoke on top of s; the invocation found is used, or a new one
\* lives in this frame.
Interpret(p, role, reports, s) ==
  LET owner == IF find(p) = 0 THEN Len(s) + 1 ELSE find(p)
      grown == Append(s, [Plain("interp", p) EXCEPT !.previous = activation,
                            !.invocation = owner, !.role = role, !.reports = reports])
  IN  [grown EXCEPT ![owner].depth = @ + 1]

\* A call of an interpreted function from host code, through the session.
HostCallsInterp(p) ==
  /\ Top.kind = "host"
  /\ p \in Interpreting
  /\ Room(1)
  /\ DepthOf(p) < Limit
  /\ stack' = Interpret(p, "body", FALSE, stack)
  /\ activation' = Sp + 1
  /\ UNCHANGED <<current, raw_frames, raw_depth, scope, errors>>

\* Native code, or host code that holds the address, calls the native entry of
\* an interpreted function: gate, entry stub, dispatch and invoke.
EntryCallsInterp(p) ==
  /\ \/ Top.kind = "native" /\ Top.program = p
     \/ Top.kind = "host"
  /\ p \in Interpreting
  /\ Room(3)
  /\ DepthOf(p) < Limit
  /\ IF p \in Boundary
     THEN LET below == stack \o <<Plain("raw", p), Plain("native", p)>>
          IN  /\ stack' = Interpret(p, "body", TRUE, below)
              /\ activation' = Sp + 3
              /\ raw_frames' = RawFramesAfterEnter(stack)
              /\ raw_depth' = raw_depth + 1
              /\ current' = <<"raw", raw_depth + 1>>
     ELSE /\ stack' = Interpret(p, "body", TRUE, Append(stack, Plain("native", p)))
          /\ activation' = Sp + 2
          /\ UNCHANGED <<raw_frames, raw_depth, current>>
  /\ UNCHANGED <<scope, errors>>

\* "interpreter call depth limit exceeded" in dispatch: reported, zero results.
\* The gate's frame has come and gone.
EntryRefused(p) ==
  /\ \/ Top.kind = "native" /\ Top.program = p
     \/ Top.kind = "host"
  /\ p \in Interpreting
  /\ Room(3)
  /\ DepthOf(p) >= Limit
  /\ errors < MaxErrors
  /\ errors' = errors + 1
  /\ stack' = Reported(stack, errors + 1)
  /\ raw_frames' = IF p \in Boundary THEN RawFramesAfterEnter(stack) ELSE raw_frames
  /\ UNCHANGED <<current, raw_depth, scope, activation>>

\* An interpreted body that runs, its callees having succeeded.
Interpreter == Top.kind = "interp" /\ Top.role = "body" /\ Top.failing = 0

\* A call instruction: of an interpreted function, of a host callback, or of
\* native code through call_native.
InterpCalls(role) ==
  LET p == Top.program
      called == Interpret(p, role, FALSE, stack)
  IN  /\ Interpreter
      /\ DepthOf(p) < Limit
      /\ activation' = Sp + 1
      /\ CASE role = "body" ->
                /\ Room(1)
                /\ stack' = called
                /\ UNCHANGED <<current, scope>>
           [] role = "host" ->
                /\ Room(2)
                /\ stack' = Append(called, Plain("host", "none"))
                /\ UNCHANGED <<current, scope>>
           [] role = "native" ->
                /\ Room(3)
                /\ EnterChecked(p, called)
      /\ UNCHANGED <<raw_frames, raw_depth, errors>>

\* A body fails by itself, or at its depth limit.
InterpFails ==
  /\ Interpreter
  /\ errors < MaxErrors
  /\ errors' = errors + 1
  /\ stack' = [stack EXCEPT ![Sp].failing = errors + 1]
  /\ UNCHANGED <<current, raw_frames, raw_depth, scope, activation>>

\* invoke returns: Depth and InvocationActivation are undone.  An error goes to
\* the calling body, to the host, or through dispatch to report_execution_error.
InterpReturns ==
  /\ Top.kind = "interp"
  /\ LET undone == [stack EXCEPT ![Top.invocation].depth = @ - 1]
         rest == SubSeq(undone, 1, Sp - 1)
     IN  stack' = CASE Top.failing # 0 /\ Top.reports -> Reported(rest, Top.failing)
                    [] rest[Sp - 1].kind = "interp" ->
                         [rest EXCEPT ![Sp - 1].failing = Top.failing]
                    [] OTHER -> rest
  /\ activation' = Top.previous
  /\ UNCHANGED <<current, raw_frames, raw_depth, scope, errors>>

Next ==
  \/ \E p \in Programs :
       \/ HostCallsNative(p)
       \/ CallsAddress(p)
       \/ HostCallsInterp(p)
       \/ EntryCallsInterp(p)
       \/ EntryRefused(p)
  \/ \E role \in {"body", "host", "native"} : InterpCalls(role)
  \/ InvokeReturns \/ NativeReturns \/ NativeReports \/ Recover
  \/ NativeCallsHost \/ HostReturns \/ HostFails
  \/ InterpFails \/ InterpReturns

Spec == Init /\ [][Next]_vars

-----------------------------------------------------------------------------
(* Properties.                                                             *)

Positions(kinds) == {i \in DOMAIN stack : stack[i].kind \in kinds}

Innermost(kinds) ==
  IF Positions(kinds) = {} THEN 0
  ELSE CHOOSE i \in Positions(kinds) : \A j \in Positions(kinds) : j <= i

\* current_state is the checkpoint of the innermost invoke or boundary that is
\* still on the control stack, and the raw frames in use are exactly the
\* boundaries on it, in order: whichever way calls end, nobody leaves a
\* checkpoint of a frame that is gone.
CheckpointInnermost ==
  LET i == Innermost({"invoke", "raw"})
      gates == Positions({"raw"})
  IN  /\ CASE i = 0 -> current = Null
           [] i # 0 /\ stack[i].kind = "invoke" -> current = <<"invoke", i>>
           [] OTHER -> current = <<"raw", raw_depth>> /\ raw_frames[raw_depth].sp = i
      /\ raw_depth = Cardinality(gates)
      /\ {raw_frames[k].sp : k \in 1..raw_depth} = gates

\* k is the last of the first n positions that holds one of these kinds, or 0.
IsLast(s, n, kinds, k) ==
  /\ k \in 0..n
  /\ k # 0 => s[k].kind \in kinds
  /\ \A j \in (k + 1)..n : s[j].kind \notin kinds

\* c is the innermost checkpoint among the first n positions; gates gives the
\* position of each raw frame in use.
IsCheckpoint(s, n, gates, c) ==
  \E k \in 0..n :
    /\ IsLast(s, n, {"invoke", "raw"}, k)
    /\ \/ k = 0 /\ c = Null
       \/ k # 0 /\ s[k].kind = "invoke" /\ c = <<"invoke", k>>
       \/ k # 0 /\ s[k].kind = "raw" /\ \E d \in DOMAIN gates : c = <<"raw", d>> /\ gates[d] = k

Gates == [d \in 1..raw_depth |-> raw_frames[d].sp]

\* What an activation or a boundary saved is what its end has to restore: the
\* checkpoint, the scope and the interpreter that were innermost below it.
PointersSaved ==
  /\ \A i \in Positions({"invoke"}) : IsCheckpoint(stack, i - 1, Gates, stack[i].checkpoint)
  /\ \A d \in 1..raw_depth : IsCheckpoint(stack, Gates[d] - 1, Gates, raw_frames[d].previous)
  /\ \A c, d \in 1..raw_depth : c < d => Gates[c] < Gates[d]
  /\ \A i \in Positions({"invoke", "scope"}) :
       IsLast(stack, i - 1, {"invoke", "scope"}, stack[i].outer)
  /\ \A i \in DOMAIN stack :
       IF stack[i].kind = "interp" THEN IsLast(stack, i - 1, {"interp"}, stack[i].previous)
       ELSE stack[i].previous = 0

\* A boundary has the native body it was entered for above it, and native code
\* that can fail has a checkpoint of its program below it.
BodiesGuarded ==
  /\ stack[1].kind = "host"
  /\ \A i \in Positions({"raw"}) :
       i < Sp /\ stack[i + 1].kind = "native" /\ stack[i + 1].program = stack[i].program
  /\ \A i \in Positions({"native"}) :
       i > 1 /\ (stack[i].program \in Boundary =>
                   stack[i - 1].kind \in {"raw", "invoke"} /\ stack[i - 1].program = stack[i].program)

\* Errors raised under an inner scope are later than all that an outer one has seen,
\* and so is the error that an interpreter is about to return.
ErrorsOrdered ==
  /\ \A i \in DOMAIN stack :
       /\ stack[i].seen \subseteq 1..errors
       /\ stack[i].seen # {} => stack[i].kind \in {"invoke", "scope"}
  /\ \A i, j \in DOMAIN stack : i < j => \A e \in stack[i].seen, f \in stack[j].seen : e < f
  /\ \A i \in DOMAIN stack : stack[i].failing # 0 =>
       /\ i = Sp /\ stack[i].kind = "interp" /\ stack[i].failing \in 1..errors
       /\ \A j \in DOMAIN stack : \A e \in stack[j].seen : e < stack[i].failing

\* Errors are reported to the innermost ExecutionInvocation on the control stack,
\* and each one ends with the first error raised under it, or with none.
FirstErrorKept ==
  /\ scope = Innermost({"invoke", "scope"})
  /\ \A i \in Positions({"invoke", "scope"}) :
       IF stack[i].seen = {} THEN stack[i].error = 0
       ELSE stack[i].error \in stack[i].seen /\ \A e \in stack[i].seen : stack[i].error <= e

\* All activations of one program's interpreter on the thread, entered from the
\* session, from native code or from a callback, share one invocation, whose
\* depth counts them and stays within the limit.
BudgetShared ==
  /\ activation = Innermost({"interp"})
  /\ \A p \in Programs :
       LET mine == {i \in Positions({"interp"}) : stack[i].program = p}
       IN  \A i \in mine :
             /\ \A j \in mine : stack[i].invocation <= j
             /\ stack[i].invocation \in mine
             /\ stack[stack[i].invocation].depth = Cardinality(mine)
             /\ Cardinality(mine) <= Limit

\* When native code that can fail runs, the current checkpoint exists, belongs to
\* its own program, and only native frames lie above it: recovery never skips a
\* host function, an interpreter or a destructor.
RecoverySafe ==
  Top.kind = "native" /\ Top.program \in Boundary =>
    /\ current # Null
    /\ Landing \in 1..Sp
    /\ stack[Landing].program = Top.program
    /\ \A i \in (Landing + 1)..Sp : stack[i].kind = "native"

\* leave never finds a checkpoint that is not its own, so no return through a
\* boundary traps.
LeaveNeverTraps == Top.kind = "native" /\ stack[Sp - 1].kind = "raw" => LeaveMatches

\* The thread's pointers describe its control stack at every step, whichever way
\* calls ended before it.
ThreadConsistent ==
  /\ TypeOK
  /\ CheckpointInnermost
  /\ PointersSaved
  /\ BodiesGuarded
  /\ ErrorsOrdered
  /\ LeaveNeverTraps
  /\ BudgetShared

CppKinds == {"host", "invoke", "scope", "interp"}

\* The kinds of the C++ activations on s, outermost first.
Cpp(s) ==
  LET among[n \in 0..Len(s)] ==
        IF n = 0 THEN <<>>
        ELSE IF s[n].kind \in CppKinds THEN Append(among[n - 1], s[n].kind)
        ELSE among[n - 1]
  IN  among[Len(s)]

Structured == INSTANCE StructuredCalls WITH Kinds <- CppKinds, active <- Cpp(stack)

\* C++ activations end one by one, innermost first, whatever fails where.
KeepsStructure == Structured!Spec
=============================================================================
